------------------------ MODULE MCWhatsAppDelivery --------------------------
(* Small instances of WhatsAppDelivery for TLC. *)
EXTENDS WhatsAppDelivery, TLC

\* Workers are interchangeable.
WorkerSymmetry == Permutations(Worker)
=============================================================================

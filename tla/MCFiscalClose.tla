--------------------------- MODULE MCFiscalClose ----------------------------
(* Small instances of FiscalClose for TLC. *)
EXTENDS FiscalClose, TLC

ProcSymmetry == Permutations(Proc)

=============================================================================

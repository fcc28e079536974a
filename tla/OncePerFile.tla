---------------------------- MODULE OncePerFile -----------------------------
(***************************************************************************)
(* What the delivery protocol promises for a set of files: a file is       *)
(* offered to the provider, an offer the provider refused is withdrawn and *)
(* may be made again, and an accepted file is never offered again.  An     *)
(* offer nobody heard about again simply stays open.                       *)
(***************************************************************************)
CONSTANT File
VARIABLE state    \* "open", "offered" or "accepted" by file

Init == state = [f \in File |-> "open"]

Offer(f) == state[f] = "open" /\ state' = [state EXCEPT ![f] = "offered"]

Withdraw(f) == state[f] = "offered" /\ state' = [state EXCEPT ![f] = "open"]

Accept(f) == state[f] = "offered" /\ state' = [state EXCEPT ![f] = "accepted"]

Next == \E f \in File : Offer(f) \/ Withdraw(f) \/ Accept(f)

Spec == Init /\ [][Next]_state
=============================================================================

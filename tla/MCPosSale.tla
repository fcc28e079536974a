------------------------------ MODULE MCPosSale ------------------------------
(* Instances of PosSale for TLC. *)
EXTENDS PosSale, TLC

CONSTANTS S1, S2

\* Three items, and two sales of the first two, of which the stock holds one.  An
\* edit moves a sale to the third item, which leaves its other rows to the others.
Wants == (S1 :> <<1, 1, 0>>) @@ (S2 :> <<1, 2, 0>>)
Edits == {<<0, 0, 1>>, <<1, 0, 0>>}
Open == <<1, 2, 1>>

=============================================================================

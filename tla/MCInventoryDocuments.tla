------------------------ MODULE MCInventoryDocuments ------------------------
(* Instances of InventoryDocuments for TLC. *)
EXTENDS InventoryDocuments, TLC

DocSymmetry == Permutations(Doc)

=============================================================================

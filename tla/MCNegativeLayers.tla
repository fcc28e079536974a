-------------------------- MODULE MCNegativeLayers --------------------------
(* An instance of NegativeLayers for TLC. *)
EXTENDS NegativeLayers

VoucherSymmetry == Permutations(Voucher)

=============================================================================

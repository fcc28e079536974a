SPECIFICATION Spec
CONSTANTS
  Scale = 1
  Voucher = {v1, v2, v3}
  Amount = {1, 2, 3}
  MaxLayers = 4
SYMMETRY VoucherSymmetry
PROPERTIES TotalIsSettled OldestFirst OwnLayersFirst

\* Two administrators at work on one sale.
\* No deadlock check: the question is what two deletions do to the stock.
SPECIFICATION Spec
CONSTANTS
  S1 = s1
  S2 = s2
  Seller = {c1}
  Maintainer = {m1, m2}
  Privileged = {m1, m2}
  SaleId = {s1, s2}
  None = None
  NItem = 3
  Wanted <- Wants
  Edited = {}
  Opening <- Open
INVARIANTS StockIsSold
CHECK_DEADLOCK FALSE

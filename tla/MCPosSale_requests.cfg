\* Two cashiers, of whom one may oversell, and a manager who may not and who edits
\* and deletes: three items, two sales of the first two, of which the stock holds one.
SPECIFICATION FairSpec
CONSTANTS
  S1 = s1
  S2 = s2
  Seller = {c1, c2}
  Maintainer = {m}
  Privileged = {c2}
  SaleId = {s1, s2}
  None = None
  NItem = 3
  Wanted <- Wants
  Edited <- Edits
  Opening <- Open
INVARIANTS TypeOK SalesNeverDeadlock StockIsSold
PROPERTIES ImplementsSaleLedger OnlyPrivilegedOversell CommittedIsNotFailed EveryRequestEnds

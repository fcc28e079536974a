\* Two sessions over two dates: a voucher, and two closing journals.
\* No deadlock check: no transaction has to begin.
SPECIFICATION Spec
CONSTANTS
  Proc = {p1, p2}
  None = None
  MaxEntered = 1
  MaxJournal = 2
  Account = {rent}
  LastDate = 2
  Delta = {1}
  MaxAmount = 1
  Opening = {2}
SYMMETRY ProcSymmetry
INVARIANTS TypeOK ClosesExactly PeriodsCoverBooks
PROPERTIES FrozenUnlessMoved ReopenRestores
CHECK_DEADLOCK FALSE

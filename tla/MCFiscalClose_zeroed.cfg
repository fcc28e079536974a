SPECIFICATION Spec
CONSTANTS
  Proc = {p1, p2}
  None = None
  MaxEntered = 1
  MaxJournal = 2
  Account = {rent}
  LastDate = 2
  Delta = {1}
  MaxAmount = 1
  Opening = {2}
SYMMETRY ProcSymmetry
PROPERTIES AccountsAreZeroed
CHECK_DEADLOCK FALSE

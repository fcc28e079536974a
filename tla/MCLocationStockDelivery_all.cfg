\* Two processes, three deliveries, two local dates.
\* No deadlock check: no request has to come.
SPECIFICATION Spec
CONSTANTS
  Proc = {p1, p2}
  MaxRow = 3
  Day = {monday, tuesday}
  NoDay = NoDay
SYMMETRY Symmetry
INVARIANTS TypeOK ScheduledOnce OutcomeIsTold DuplicatesInDoubt
CHECK_DEADLOCK FALSE

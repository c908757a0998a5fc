SPECIFICATION Spec
CONSTANTS
  Requests = {q1, q2, q3}
  Payloads = {d1, d2}
  Nothing = Nothing
  MaxInFlight = 2
  MaxExpiries = 1
SYMMETRY Symmetry
CHECK_DEADLOCK FALSE
INVARIANT RetriesReplay
INVARIANT PackageMatchesRun
INVARIANT StatusTellsLast
INVARIANT AnsweredOnce

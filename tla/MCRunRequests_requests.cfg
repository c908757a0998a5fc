SPECIFICATION Spec
CONSTANTS
  Requests = {r1, r2, r3}
  Interrupts = {i1, i2}
  Nothing = Nothing
  Operations <- Anything
  MaxCrashes = 1
SYMMETRY Alike
CHECK_DEADLOCK FALSE
INVARIANT StoresKeepAnswers
INVARIANT AnsweredOnce
INVARIANT StoredWaitIsAnswerable

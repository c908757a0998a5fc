CONSTANTS
  Requests = {r1, r2, r3}
  Tags = {approve, reject}
  MaxPasses = 3
  MaxCrashes = 1
SPECIFICATION Spec
SYMMETRY Symmetry
INVARIANT ActionAppliedOnce
INVARIANT CompletedIsStored
INVARIANT ShownOnce
INVARIANT WaitIsReachable
CHECK_DEADLOCK FALSE

SPECIFICATION Spec
CONSTANTS
  Nodes <- PairNodes
  Edges <- PairEdges
  Kind <- PairKind
  Targets <- NoTargets
  Body <- NoLoop
  Exit <- NoLoop
  LoopBack <- NoLoop
  MaxIterations <- NoLoop
  MaxRetries <- PairRetries
  Timed = {3}
  Calls = {"resume", "rerun", "cancel_run", "cancel_interrupt"}
  SharedRun = TRUE
  Others = {other}
  MaxInterrupts = 3
INVARIANT WaitingIsAnswerable
INVARIANT InProgressIsAccounted
PROPERTY StartsAfterDependencies

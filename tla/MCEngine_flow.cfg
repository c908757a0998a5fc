SPECIFICATION Spec
CONSTANTS
  Nodes <- FlowNodes
  Edges <- FlowEdges
  Kind <- FlowKind
  Targets <- FlowTargets
  Body <- FlowBody
  Exit <- FlowExit
  LoopBack <- FlowLoopBack
  MaxIterations <- FlowIterations
  MaxRetries <- FlowRetries
  Timed = {3, 8}
  Calls = {"resume"}
  SharedRun = FALSE
  Others = {}
  MaxInterrupts = 3
INVARIANT NeverStranded
INVARIANT OutputsAreSettled
PROPERTY CallReturns
PROPERTY ImplementsLifecycle

SPECIFICATION Spec
CONSTANTS
  Requests = {q1, q2, q3}
  Configs = {o1, o2}
  Keys = {k1, k2}
  Seed = Seed
  Nothing = Nothing
SYMMETRY Symmetry
CHECK_DEADLOCK FALSE
INVARIANT DefaultIsConfigured
INVARIANT AcceptedIsKept
PROPERTY OnlyNewWorkflowsAreOrphaned

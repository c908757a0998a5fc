SPECIFICATION Spec
CONSTANTS
  g1 = g1
  g2 = g2
  g3 = g3
  c1 = c1
  c2 = c2
  Requests = {q1, q2, q3}
  Graphs = {g1, g2, g3}
  FirstGraph = g1
  WellFormed = {g1, g2}
  Capabilities = {c1, c2}
  Inline = {c2}
  Pins <- GraphPins
  InMemory = FALSE
  MaxEdits = 2
SYMMETRY RequestSymmetry
CHECK_DEADLOCK FALSE
INVARIANT PublishedIsValid
INVARIANT NewestIsActive
INVARIANT PinnedToActive
PROPERTY ImplementsVersionLog

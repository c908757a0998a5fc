SPECIFICATION Spec
CONSTANTS
  p1 = p1
  p2 = p2
  p3 = p3
  Publishers = {p1, p2, p3}
  Cancels = {p2}
  NoPublisher = NoPublisher
  Count <- Mixed
  Clients = {c1}
  MaxConnects = 2
  InDatabase = TRUE
CHECK_DEADLOCK FALSE
INVARIANT SequencesAreDense
INVARIANT SentOnceEach
INVARIANT RecordIsKept
PROPERTY LiveEventsAreSent

SPECIFICATION FairSpec
CONSTANTS
  Nodes <- AllNodes
  Kind <- KindOf
  MaxRetries <- Retries
  RetryAttempts <- InnerTries
  Timed <- TimedNodes
  Merging <- Targeting
  Misconfigured <- Rejected
  Structured <- WithSchema
  Lenient <- AnyStatus
  Together <- Reached
  Nothing = Nothing
CHECK_DEADLOCK FALSE
INVARIANT AcceptedEndsNode
INVARIANT ResolvedIsExecuted
PROPERTY NodesEnd

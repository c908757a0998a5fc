SPECIFICATION Spec
CONSTANTS
  Deliveries = {d1, d2}
  Subscribed = {"run_failed", "interrupt_created"}
  Dispatcher = Dispatcher
  MaxAttempts = 2
  MaxCrashes = 1
CHECK_DEADLOCK FALSE
INVARIANT CallsBounded
INVARIANT LateCallsBounded
PROPERTY DeliveriesSettle

CONSTANTS
  Webhook = {h1, h2}
  Dispatch = {x1}
  EventId = {e1}
  Request = {}
  Subscription = {"event", "other", "*"}
  MaxInFlight = 2
  BatchSize = 2
  Unset = Unset
  MaxFaults = 0
SPECIFICATION DispatchSpec
INVARIANT WildcardServed
CHECK_DEADLOCK FALSE

CONSTANTS
  Webhook = {h1, h2}
  Dispatch = {x1, x2}
  EventId = {e1, e2}
  Request = {r1}
  Subscription = {"event", "other"}
  MaxInFlight = 1
  BatchSize = 2
  Unset = Unset
  MaxFaults = 1
SPECIFICATION DispatchSpec
INVARIANTS DispatchesFlow FanOutExact
SYMMETRY Symmetry
CHECK_DEADLOCK FALSE

SPECIFICATION Spec
CONSTANTS
  Event <- MCEvent
  Connector <- MCConnector
  Handles <- MCHandles
  Dispatcher = {d1, d2}
  Limit = 2
  MaxFaults = 2
INVARIANTS DeliveredWasAccepted AcceptedOnce GivenUpWhenHopeless
PROPERTIES SettledForGood EventuallySettled
CHECK_DEADLOCK FALSE

CONSTANTS
  a = a
  Cameras <- OneCamera
  MaxRelays = 2
  MaxEvents = 2
  MaxLosses = 1
SPECIFICATION Spec
INVARIANTS RetainedTrue EventsEnd
PROPERTIES LaterRelayLast

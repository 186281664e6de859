CONSTANTS
  MaxCalls = 3
  FuelPerCall = 2
SPECIFICATION HostSpec
INVARIANTS
  OwnLimitsOnly
  BridgeOnlyInCall
PROPERTIES
  TrappedNeverReentered
  CallEnds

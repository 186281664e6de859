CONSTANTS
  MaxCalls = 1
  FuelPerCall = 1
SPECIFICATION HostSpec
PROPERTY TimeoutBoundsCall

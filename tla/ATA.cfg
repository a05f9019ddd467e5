SPECIFICATION Spec
CONSTANTS
  Sectors = 2
  MaxCount = 2
  MaxDevices = 2
  MaxCalls = 2
INVARIANTS MovesSectors NoSpuriousFailure
PROPERTIES OthersUntouched CallReturns

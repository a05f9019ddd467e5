SPECIFICATION Spec
CONSTANTS
  Lines = {1, 2, 12}
  NoLine = NoLine
  Keys <- MCKeys
  Packets <- MCPackets
  MaxEvents = 3
INVARIANTS InitOutcome KeysFollow PacketsWhole
PROPERTIES MouseInitReturns BytesHandled
CHECK_DEADLOCK FALSE

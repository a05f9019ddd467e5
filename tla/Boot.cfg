SPECIFICATION BootSpec
CONSTANTS
  Lines = {0, 1, 2, 12, 14}
  NoLine = NoLine
INVARIANTS OnlyWindow InStep
PROPERTY TimerServed

SPECIFICATION TimerSpec
CONSTANTS
  Delays = {9, 25}
  MaxTime = 60
 
PROPERTY SleepEnds

CONSTANTS
  Text = {text1}
  Note = {note1}
  text1 = text1
  note1 = note1
  Timer = {0, 1}
  MaxClock = 1
  MaxStarts = 2
SPECIFICATION Spec
INVARIANT TimerIsKept
CHECK_DEADLOCK FALSE

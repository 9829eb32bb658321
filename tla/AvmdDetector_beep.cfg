\* avmd_process over frames of any estimates: is a beep of BeepFrames frames detected?
CONSTANTS
  E = 4
  Streak = 15
  Skip = 3
  BeepFrames = 15
  Rates = {8000, 16000}
  RequireSet = {0, 1}
SPECIFICATION Spec
INVARIANT
  TypeOK
INVARIANT
  DetectedWithinBeep

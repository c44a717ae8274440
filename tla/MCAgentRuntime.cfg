SPECIFICATION LiveSpec
CONSTANTS
  Sessions = {s1, s2}
  NoUid = NoUid
  Workers = {w1, w2}
INVARIANTS OwnDataOnly RaceCollects NeverStranded UploadedOnce RuntimeInv
PROPERTIES WorkersSpareCapture FinishedIsLeft
CHECK_DEADLOCK FALSE

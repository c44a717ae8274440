SPECIFICATION Spec
CONSTANTS
  Sessions = {s1, s2}
  NoUid = NoUid
  Workers = {w1}
PROPERTY NeverGoesBack
CHECK_DEADLOCK FALSE

SPECIFICATION Spec
CONSTANTS
  Sessions = {s1}
  Parts = {p1, p2}
  Threads = {t1, t2}
  RaceIds = {r1}
  NoRace = NoRace
  NoSession = NoSession
  MaxAttempts = 1
  MaxCrashes = 1
  MayRefinish = TRUE
SYMMETRY Symmetry
PROPERTY FailedFlushStaysCached

SPECIFICATION Spec
CONSTANTS
  Sessions = {s1}
  Parts = {p1}
  Threads = {t1, t2}
  RaceIds = {r1, r2}
  NoRace = NoRace
  NoSession = NoSession
  MaxAttempts = 2
  MaxCrashes = 1
  MayRefinish = TRUE
SYMMETRY Symmetry
INVARIANT UploadGuard
PROPERTY ImplementsLedger

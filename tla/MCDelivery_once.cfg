SPECIFICATION Spec
CONSTANTS
  Sessions = {s1}
  Parts = {p1, p2}
  Threads = {t1, t2}
  RaceIds = {r1}
  NoRace = NoRace
  NoSession = NoSession
  MaxAttempts = 2
  MaxCrashes = 1
  MayRefinish = FALSE
SYMMETRY Symmetry
INVARIANTS TelemetryKept PostedBeforeForgotten

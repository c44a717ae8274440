SPECIFICATION Spec
CONSTANTS
  Sessions = {s1, s2}
  Parts = {p1}
  Threads = {t1}
  RaceIds = {r1, r2, r3}
  NoRace = NoRace
  NoSession = NoSession
  MaxAttempts = 1
  MaxCrashes = 1
  MayRefinish = TRUE
SYMMETRY Symmetry
INVARIANTS TelemetryBelongs DeliveryInv

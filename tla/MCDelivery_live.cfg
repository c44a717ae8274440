SPECIFICATION ThreadSpec
CONSTANTS
  Sessions = {s1}
  Parts = {p1}
  Threads = {t1, t2}
  RaceIds = {r1}
  NoRace = NoRace
  NoSession = NoSession
  MaxAttempts = 2
  MaxCrashes = 0
  MayRefinish = FALSE
PROPERTIES ThreadsReturn ResultDelivered TelemetryDelivered

SPECIFICATION LiveSpec
CONSTANTS
  bahrain = bahrain
  jeddah = jeddah
  monza = monza
  Requests = {r1, r2}
  Uids = {u1}
  RaceIds = {id1, id2}
  Tracks <- MCTracks
  Calendar <- MCCalendar
  NoRace = NoRace
  MaxCrashes = 1
PROPERTY RecordedIsProcessed
CHECK_DEADLOCK FALSE

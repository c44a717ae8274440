SPECIFICATION DesktopSpec
CONSTANTS
  Sessions = {s1, s2, s3}
  MaxCrashes = 2
  MaxFaults = 2
  Launches = {l1, l2}
  NoLaunch = NoLaunch
  Passes = {retry}
  Page = page
  Agent = agent
  MaxResults = 1
  CaptureCars = {0, 1}
  LapCount <- MCLapCount
  LapMs <- MCLapMs
  Spoilt <- MCSpoilt
  MaxRaces = 1
SYMMETRY Symmetry
INVARIANTS CacheInv SafeEntriesSurvive LauncherSound PanelSound CaptureSound
PROPERTY ImplementsAtomicCache
CHECK_DEADLOCK FALSE

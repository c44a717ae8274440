SPECIFICATION LauncherSpec
CONSTANTS
  Launches = {l1, l2}
  NoLaunch = NoLaunch
INVARIANT StatusTruthful
CHECK_DEADLOCK FALSE

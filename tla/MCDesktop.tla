----------------------------- MODULE MCDesktop -----------------------------
(***************************************************************************)
(* Components of the desktop program on small instances, in one run: the   *)
(* files of a cache, the launcher around the agent, its delivery panel and *)
(* the capture of laps.  They share no state here, so a behaviour belongs  *)
(* to one of them, its scene, and the others stay as they begin.           *)
(***************************************************************************)
EXTENDS DurableCache, LauncherRuntime, RetryPanel, LapCapture, TLC

MCLapMs  == [v \in CaptureCars |-> [l \in LapsOf(v) |-> 80 + 10 * l + v]]
MCSpoilt == {<<1, 2>>}
MCLapCount == [v \in CaptureCars |-> v + 1]

Symmetry == Permutations(Sessions) \cup Permutations(Launches)

VARIABLE scene

desktopVars == <<vars, launcherVars, panelVars, captureVars, scene>>

Scenes == {"cache", "launcher", "panel", "capture"}

DesktopInit ==
    /\ scene \in Scenes
    /\ IF scene = "cache" THEN TRUE ELSE op = [kind |-> "load", uid |-> CHOOSE s \in Sessions : TRUE]
    /\ IF scene = "panel" THEN TRUE ELSE cached = [results |-> 0, waiting |-> 0, ready |-> 0]
    /\ Init /\ LauncherInit /\ PanelInit /\ CaptureInit

CacheScene ==
    scene = "cache" /\ Next /\ UNCHANGED <<launcherVars, panelVars, captureVars, scene>>
LauncherScene ==
    scene = "launcher" /\ LauncherNext /\ UNCHANGED <<vars, panelVars, captureVars, scene>>
PanelScene ==
    scene = "panel" /\ PanelNext /\ UNCHANGED <<vars, launcherVars, captureVars, scene>>
CaptureScene ==
    scene = "capture" /\ CaptureNext /\ UNCHANGED <<vars, launcherVars, panelVars, scene>>

DesktopNext == CacheScene \/ LauncherScene \/ PanelScene \/ CaptureScene

DesktopSpec == DesktopInit /\ [][DesktopNext]_desktopVars
=============================================================================

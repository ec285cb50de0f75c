---------------------------- MODULE MCReactLoop ----------------------------
(***************************************************************************)
(* Small instances of ReactLoop for TLC.  A behaviour is one of a single   *)
(* scene: "turns", where nothing fails, or "faults", where writes fail and *)
(* the process stops at any point.                                         *)
(***************************************************************************)
EXTENDS ReactLoop

CONSTANTS c1, c2, c3

VARIABLE scene

(* One turn instead of two, no faults; two calls instead of three. *)
T == INSTANCE ReactLoop WITH MaxTurns <- 1, DiskFaults <- FALSE, Crashes <- FALSE
F == INSTANCE ReactLoop WITH Calls <- {c1, c2}

ScenesInit == \/ scene = "turns" /\ T!Init
              \/ scene = "faults" /\ F!Init

ScenesNext == \/ scene = "turns" /\ T!Next /\ scene' = scene
              \/ scene = "faults" /\ F!Next /\ scene' = scene

sceneVars == <<scene, ledger, pc, loopVars, outerVars>>

(* The fairness of ReactLoop, in the scene without faults.                 *)
ScenesSpec == /\ ScenesInit /\ [][ScenesNext]_sceneVars
              /\ WF_sceneVars(scene = "turns" /\ T!LoopStep /\ scene' = scene)

(* A turn in which nothing fails leaves no call open, wherever the stop    *)
(* comes, and compacts nothing twice (react.go, compact.go).               *)
TurnsHold == scene = "turns" => CallsAreAnswered /\ CompactsWhatIsNew

(* A run that is cancelled ends (react.go): its requests and tools do.     *)
StopEnds == scene = "turns" /\ cancelled ~> pc = "idle"
=============================================================================

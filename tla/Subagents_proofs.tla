--------------------------- MODULE Subagents_proofs ---------------------------
(* Theorems about Subagents, for every number of conversations, operations *)
(* and stops.                                                              *)
EXTENDS Subagents, TLAPS

-----------------------------------------------------------------------------
(* The inductive invariant behind StopsHold, in named parts *)

Holds(o) == pc[o] \in {"save", "create", "look", "lookStopped", "recheck", "precheck",
                       "start", "prepare", "postcheck"}
Related(o) == pc[o] \in {"save", "create", "precheck", "start", "prepare", "postcheck"}
Before(o) == pc[o] \in {"admitted", "look", "lookStopped", "recheck"}
Unstarted(o) == pc[o] \in {"save", "create", "precheck", "start"}

(* Who an operation is about. *)
TargetInv ==
  /\ \A o \in Spawns : to[o] = o
  /\ \A o \in Spawns : pc[o] \notin {"look", "lookStopped", "steer", "recheck"}
  /\ \A o \in Sends : pc[o] \notin {"save", "create"}
  /\ \A o \in Ops : pc[o] # "idle" => from[o] \in Sessions /\ to[o] \in Children
  /\ \A o \in Ops : pc[o] # "idle" /\ parent[to[o]] # None => parent[to[o]] = from[o]
  /\ \A o \in Spawns : pc[o] \in {"idle", "admitted"} =>
       /\ parent[o] = None /\ lock[o] = None /\ live[o] = None /\ o \notin created
       /\ \A q \in Sends : to[q] # o

(* What coord.mu protects. *)
LockInv ==
  /\ \A o \in Ops : Holds(o) => lock[to[o]] = o
  /\ \A o \in Ops : Related(o) => parent[to[o]] # None
  /\ \A o \in Ops : Unstarted(o) \/ pc[o] = "recheck" => ~Active(to[o])
  /\ \A o \in Spawns : pc[o] \in {"save", "create"} => o \notin created
  /\ \A c \in created : parent[c] # None

(* A run occupies the session it was started in until it has ended. *)
Occupying == {"prepare", "starting", "working", "over"}
RunInv ==
  /\ \A s \in Roots : live[s] \in Prompts \cup {None}
  /\ \A s, t \in Roots : live[s] # None /\ live[s] = live[t] => s = t
  /\ \A c \in Children : live[c] # None => live[c] \in Ops /\ to[live[c]] = c
  /\ \A c \in Children : Active(c) => parent[c] # None
  /\ \A s \in Sessions : live[s] # None => phase[live[s]] \in Occupying
  /\ \A o \in Ops : phase[o] \in Occupying => live[to[o]] = o
  /\ \A o \in Ops : phase[o] # "new" => pc[o] \in {"prepare", "postcheck", "done"}
  /\ \A o \in Ops : pc[o] = "prepare" <=> phase[o] = "prepare"

(* No permit is ahead of the generation it was taken from. *)
GenInv ==
  /\ \A o \in Ops : pc[o] # "idle" =>
       from[o] \in deleted \/ permit[o].generation <= generation[from[o]]
  /\ \A o \in Sends : pc[o] # "idle" => permit[o].stopGeneration <= stopGeneration[to[o]]
  /\ \A c \in Children : parent[c] # None =>
       parent[c] \in deleted \/ admission[c].generation <= generation[parent[c]]

(* Stale and Barred without the identity of the stopped run, which a later *)
(* stop may replace; what they say here stays true.                        *)
Outdated(s, p) == closing # "no" \/ s \in deleted \/ generation[s] # p.generation
ShutOut(c) == Outdated(parent[c], admission[c]) \/ stopRequested[c]

(* What was under way at a stop meets a closed door wherever it is. *)
DoomInv ==
  /\ \A r \in doomed \cap Prompts : cancelled[r] /\ phase[r] # "new"
  /\ \A o \in doomed \cap Ops :
       /\ pc[o] # "idle"
       /\ Before(o) => Outdated(from[o], permit[o]) \/ (o \in Sends /\ Crossed(o))
       /\ Unstarted(o) => ShutOut(to[o])
       /\ phase[o] \in {"prepare", "starting"} => cancelled[o] \/ ShutOut(to[o])
       /\ phase[o] = "working" => cancelled[o]

IInv == TypeOK /\ TargetInv /\ LockInv /\ RunInv /\ GenInv /\ DoomInv

-----------------------------------------------------------------------------
(* Types *)

LEMMA InitTypeOK == Init => TypeOK
  BY SubagentsAssumption DEF Init, TypeOK, Permits, Phases, Steps, Ops, Runs, Sessions, Children

LEMMA BeginTypes ==
  ASSUME TypeOK, NEW r \in Runs, NEW s \in Sessions, Begin(r, s)
  PROVE  /\ live' \in [Sessions -> Runs \cup {None}]
         /\ phase' \in [Runs -> Phases]
         /\ cancelled' \in [Runs -> BOOLEAN]
<1>1. (r \in Ops /\ closing # "no") \in BOOLEAN
  OBVIOUS
<1>2. cancelled' \in [Runs -> BOOLEAN]
  BY <1>1 DEF TypeOK, Begin
<1> QED
  BY <1>2 DEF TypeOK, Begin, Phases

LEMMA BusyRuns ==
  ASSUME TypeOK, NEW s \in Busy
  PROVE  s \in Sessions /\ live[s] \in Runs
  BY DEF TypeOK, Busy

LEMMA KnownParents ==
  ASSUME TypeOK, NEW c \in Known, NEW r \in {None, live[parent[c]]}
  PROVE  c \in Children /\ parent[c] \in Sessions /\ r \in Runs \cup {None}
  BY DEF TypeOK, Known

LEMMA RunTypes == TypeOK /\ RunStep => TypeOK'
<1> SUFFICES ASSUME TypeOK, RunStep PROVE TypeOK'
  OBVIOUS
<1> USE DEF TypeOK, Phases, Ops, Runs, Sessions, Children, familyVars, taskVars, opVars,
            diskVars, closeVars, pastVars
<1>1. CASE \E s \in Roots, r \in Prompts : StartRoot(r, s)
  BY <1>1, BeginTypes DEF StartRoot
<1>2. CASE \E s \in Sessions, r \in Runs : RunOver(r, s)
  BY <1>2 DEF RunOver
<1>3. CASE \E s \in Sessions, r \in Runs : RunStarted(r, s)
  <2>1. PICK s \in Sessions, r \in Runs : RunStarted(r, s)
    BY <1>3
  <2>2. StopsAtStart(s, r) \in BOOLEAN
    BY DEF StopsAtStart, Barred, Stale
  <2>3. cancelled' \in [Runs -> BOOLEAN]
    BY <2>1, <2>2 DEF RunStarted
  <2> QED
    BY <2>1, <2>3 DEF RunStarted
<1>4. CASE \E s \in Sessions, r \in Runs : EndRun(r, s)
  BY <1>4 DEF EndRun
<1>5. ASSUME NEW s \in Busy,
             RunStarted(live[s], s) \/ RunOver(live[s], s) \/ EndRun(live[s], s)
      PROVE  \E x \in Sessions, r \in Runs : RunStarted(r, x) \/ RunOver(r, x) \/ EndRun(r, x)
  BY <1>5, BusyRuns
<1> QED
  BY <1>1, <1>2, <1>3, <1>4, <1>5 DEF RunStep

LEMMA TurnTypes == TypeOK /\ TargetInv /\ TurnStep => TypeOK'
<1> SUFFICES ASSUME TypeOK, TargetInv, NEW o \in Ops,
                    Precheck(o) \/ StartRun(o) \/ StartReturns(o) \/ Postcheck(o)
             PROVE  TypeOK'
  BY DEF TurnStep
<1> USE DEF TypeOK, Phases, Steps, Ops, Runs, Sessions, Children, familyVars, taskVars, opVars,
            diskVars, closeVars, pastVars, runVars
<1>1. CASE Precheck(o)
  BY <1>1 DEF Precheck, Finish, Release, Goto
<1>2. CASE StartRun(o)
  <2>1. CASE Finish(o) /\ UNCHANGED runVars
    BY <1>2, <2>1 DEF StartRun, Finish, Release, Goto
  <2>2. CASE Goto(o, "prepare") /\ Begin(o, to[o]) /\ UNCHANGED lock
    <3>1. to[o] \in Sessions
      BY <1>2 DEF StartRun, TargetInv
    <3> QED
      BY <1>2, <2>2, <3>1, BeginTypes DEF StartRun, Goto
  <2> QED
    BY <1>2, <2>1, <2>2 DEF StartRun
<1>3. CASE StartReturns(o)
  BY <1>3, SMTT(30) DEF StartReturns, Finish, Release, Goto
<1>4. CASE Postcheck(o)
  <2>1. cancelled' \in [Runs -> BOOLEAN]
    BY <1>4 DEF Postcheck
  <2> QED
    BY <1>4, <2>1 DEF Postcheck, Track, Finish, Release, Goto
<1> QED
  BY <1>1, <1>2, <1>3, <1>4

LEMMA SpawnTypes == TypeOK /\ TargetInv /\ SpawnStep => TypeOK'
<1> SUFFICES ASSUME TypeOK, TargetInv, NEW o \in Spawns,
                    \/ \E s \in Sessions, r \in Runs : SpawnAdmitted(o, s, r)
                    \/ Publish(o) \/ SpawnRefused(o) \/ SaveTask(o) \/ CreateChild(o)
             PROVE  TypeOK'
  BY BusyRuns DEF SpawnStep
<1> USE DEF TypeOK, Phases, Steps, Ops, Runs, Sessions, Children, Permits, familyVars, taskVars,
            opVars, diskVars, closeVars, pastVars, runVars
<1>0. o \in Ops /\ to[o] = o
  BY DEF TargetInv
<1>1. CASE \E s \in Sessions, r \in Runs : SpawnAdmitted(o, s, r)
  <2>1. PICK s \in Sessions, r \in Runs : SpawnAdmitted(o, s, r)
    BY <1>1
  <2>2. [run |-> r, generation |-> generation[s], stopGeneration |-> 0] \in Permits
    OBVIOUS
  <2> HIDE DEF Permits
  <2>3. permit' \in [Ops -> Permits]
    BY <2>1, <2>2, <1>0 DEF SpawnAdmitted
  <2> QED
    BY <2>1, <2>3, <1>0 DEF SpawnAdmitted, Goto
<1>2. CASE Publish(o)
  BY <1>0, <1>2 DEF Publish, Goto
<1>3. CASE SpawnRefused(o)
  BY <1>0, <1>3 DEF SpawnRefused, Goto
<1>4. CASE SaveTask(o)
  BY <1>0, <1>4, SMTT(30) DEF SaveTask, Finish, Release, Goto
<1>5. CASE CreateChild(o)
  <2>0. (Goto(o, "precheck") /\ UNCHANGED lock) \/ Finish(o)
    BY <1>5 DEF CreateChild
  <2>1. pc' = [pc EXCEPT ![o] = "precheck"] \/ pc' = [pc EXCEPT ![o] = "done"]
    BY <2>0 DEF Finish, Goto
  <2>2. lock' = lock \/ lock' = [lock EXCEPT ![o] = None]
    BY <1>0, <2>0 DEF Finish, Release
  <2>3. created' \subseteq Children
    BY <1>0, <1>5 DEF CreateChild
  <2>4. pc' \in [Ops -> Steps] /\ lock' \in [Children -> Ops \cup {None}]
    BY <1>0, <2>1, <2>2
  <2>5. UNCHANGED <<taskVars, familyVars, runVars, from, to, permit, target, saved,
                    closeVars, pastVars>>
    BY <1>5 DEF CreateChild, AfterCreate
  <2> QED
    BY <2>3, <2>4, <2>5
<1> QED
  BY <1>1, <1>2, <1>3, <1>4, <1>5

LEMMA SendTypes == TypeOK /\ TargetInv /\ SendStep => TypeOK'
<1> SUFFICES ASSUME TypeOK, TargetInv, NEW o \in Sends,
                    \/ \E s \in Sessions, c \in Children, r \in Runs \cup {None} :
                         SendAdmitted(o, s, c, r)
                    \/ SendLook(o) \/ SendBranch(o) \/ SteerRun(o) \/ SendRecheck(o)
             PROVE  TypeOK'
  BY KnownParents DEF SendStep
<1> USE DEF TypeOK, Phases, Steps, Ops, Runs, Sessions, Children, Permits, familyVars, taskVars,
            opVars, diskVars, closeVars, pastVars, runVars
<1>1. CASE \E s \in Sessions, c \in Children, r \in Runs \cup {None} : SendAdmitted(o, s, c, r)
  <2>1. PICK s \in Sessions, c \in Children, r \in Runs \cup {None} : SendAdmitted(o, s, c, r)
    BY <1>1
  <2>2. [run |-> r, generation |-> generation[s], stopGeneration |-> stopGeneration[c]] \in Permits
    OBVIOUS
  <2> HIDE DEF Permits
  <2>3. permit' \in [Ops -> Permits]
    BY <2>1, <2>2 DEF SendAdmitted
  <2> QED
    BY <2>1, <2>3 DEF SendAdmitted, Goto
<1>2. CASE SendLook(o)
  BY <1>2, SMTT(30) DEF SendLook, Goto
<1>3. CASE SendBranch(o)
  <2>1. \E step \in {"recheck", "done", "steer"} : pc' = [pc EXCEPT ![o] = step]
    BY <1>3 DEF SendBranch, Finish, Goto
  <2>2. lock' = lock \/ lock' = [lock EXCEPT ![to[o]] = None]
    BY <1>3 DEF SendBranch, Finish, Release
  <2>3. target' = target \/ target' = [target EXCEPT ![o] = live[to[o]]]
    BY <1>3 DEF SendBranch
  <2>4. to[o] \in Children
    BY <1>3 DEF SendBranch, TargetInv
  <2>5. live[to[o]] \in Runs \cup {None}
    BY <2>4
  <2>6. /\ pc' \in [Ops -> Steps] /\ lock' \in [Children -> Ops \cup {None}]
        /\ target' \in [Ops -> Runs \cup {None}]
    BY <2>1, <2>2, <2>3, <2>5, SMTT(30)
  <2> QED
    BY <1>3, <2>6 DEF SendBranch
<1>4. CASE SteerRun(o)
  BY <1>4, SMTT(30) DEF SteerRun, Goto
<1>5. CASE SendRecheck(o)
  <2>1. pc' = [pc EXCEPT ![o] = "precheck"] \/ pc' = [pc EXCEPT ![o] = "done"]
    BY <1>5 DEF SendRecheck, Finish, Goto
  <2>2. lock' = lock \/ lock' = [lock EXCEPT ![to[o]] = None]
    BY <1>5 DEF SendRecheck, Finish, Release
  <2>3. pc' \in [Ops -> Steps] /\ lock' \in [Children -> Ops \cup {None}]
    BY <2>1, <2>2
  <2>4. stopRequested' \in [Children -> BOOLEAN]
    BY <1>5 DEF SendRecheck
  <2> HIDE DEF Permits
  <2>5. admission' \in [Children -> Permits]
    BY <1>5 DEF SendRecheck
  <2> QED
    BY <1>5, <2>3, <2>4, <2>5 DEF SendRecheck
<1> QED
  BY <1>1, <1>2, <1>3, <1>4, <1>5

LEMMA StopTreeTypes ==
  ASSUME TypeOK, NEW T, NEW tasks, StopTree(T, tasks)
  PROVE  /\ generation' \in [Sessions -> Nat]
         /\ stoppedRun' \in [Sessions -> Runs \cup {None}]
         /\ cancelled' \in [Runs -> BOOLEAN]
         /\ stopRequested' \in [Children -> BOOLEAN]
         /\ stopGeneration' \in [Children -> Nat]
<1>1. \A s \in Sessions : generation[s] \in Nat /\ Later(generation[s]) \in Nat
  BY DEF TypeOK, Later
<1>2. \A c \in Children : stopGeneration[c] \in Nat /\ Later(stopGeneration[c]) \in Nat
  BY DEF TypeOK, Later
<1>3. \A r \in Runs : (cancelled[r] \/ \E s \in T : live[s] = r) \in BOOLEAN
  OBVIOUS
<1>4. \A c \in Children : (stopRequested[c] \/ c \in tasks) \in BOOLEAN
  OBVIOUS
<1> QED
  BY <1>1, <1>2, <1>3, <1>4 DEF StopTree, TypeOK

LEMMA DoomTypes ==
  ASSUME TypeOK, NEW T, Doom(T)
  PROVE  doomed' \subseteq Runs
  BY DEF TypeOK, Doom, Runs

LEMMA StopTypes == TypeOK /\ StopStep => TypeOK'
<1> SUFFICES ASSUME TypeOK, StopStep PROVE TypeOK'
  OBVIOUS
<1>1. PICK D, T, tasks : Stopping /\ Doom(D) /\ StopTree(T, tasks)
  BY DEF StopStep, StopFamily, StopTask
<1>2. stops' \in Nat
  BY <1>1 DEF Stopping, TypeOK
<1> QED
  BY <1>1, <1>2, StopTreeTypes, DoomTypes
  DEF TypeOK, Stopping, opVars, diskVars, closeVars

LEMMA OtherTypes ==
  ASSUME TypeOK, (\E s \in Roots : ReserveDeletion(s)) \/ CloseBegins \/ CloseReturns
  PROVE  TypeOK'
<1> USE DEF familyVars, taskVars, opVars, diskVars, closeVars, pastVars, runVars
<1>1. CASE \E s \in Roots : ReserveDeletion(s)
  <2>1. PICK s \in Roots : ReserveDeletion(s)
    BY <1>1
  <2>2. Descendants(s) \subseteq Sessions
    BY DEF Descendants
  <2> QED
    BY <2>1, <2>2 DEF ReserveDeletion, TypeOK
<1>2. CASE CloseBegins
  BY <1>2 DEF CloseBegins, TypeOK
<1>3. CASE CloseReturns
  BY <1>3 DEF CloseReturns, TypeOK
<1> QED
  BY <1>1, <1>2, <1>3

LEMMA NextTypes ==
  ASSUME TypeOK, TargetInv, [Next]_vars
  PROVE  TypeOK'
<1>1. CASE Next
  BY <1>1, RunTypes, TurnTypes, SpawnTypes, SendTypes, StopTypes, OtherTypes DEF Next
<1>2. CASE UNCHANGED vars
  BY <1>2 DEF vars, TypeOK, familyVars, taskVars, opVars, diskVars, closeVars, pastVars, runVars
<1> QED
  BY <1>1, <1>2

-----------------------------------------------------------------------------
(* One lemma for each action: it keeps the parts of IInv after the types.  *)
(* What all of them use:                                                   *)
USE SubagentsAssumption DEF IInv, TypeOK, Ops, Runs, Sessions, Children,
    familyVars, taskVars, opVars, diskVars, closeVars, pastVars, runVars,
    Holds, Related, Before, Unstarted, Active, Occupying

LEMMA StartRootKeeps ==
  ASSUME IInv, NEW s \in Roots, NEW r \in Prompts, TypeOK', StartRoot(r, s)
  PROVE  TargetInv' /\ LockInv' /\ RunInv' /\ GenInv' /\ DoomInv'
<1> USE DEF StartRoot, Begin
<1>1. TargetInv'
  BY DEF TargetInv
<1>2. LockInv'
  BY DEF TargetInv, LockInv
<1>3. RunInv'
  BY SMTT(30) DEF TargetInv, LockInv, RunInv
<1>4. GenInv'
  BY DEF TargetInv, LockInv, GenInv
<1>5. DoomInv'
  BY SMTT(30) DEF TargetInv, LockInv, RunInv, GenInv, DoomInv, Outdated, ShutOut, Crossed
<1> QED
  BY <1>1, <1>2, <1>3, <1>4, <1>5

LEMMA RunStartedKeeps ==
  ASSUME IInv, NEW s \in Sessions, NEW r \in Runs, TypeOK', RunStarted(r, s)
  PROVE  TargetInv' /\ LockInv' /\ RunInv' /\ GenInv' /\ DoomInv'
<1> USE DEF RunStarted, StopsAtStart, Barred, Stale
<1>1. TargetInv'
  BY DEF TargetInv
<1>2. LockInv'
  BY DEF TargetInv, LockInv
<1>3. RunInv'
  BY DEF TargetInv, LockInv, RunInv
<1>4. GenInv'
  BY DEF TargetInv, LockInv, GenInv
<1>5. DoomInv'
  <2>1. phase' = [phase EXCEPT ![r] = "working"]
            /\ cancelled' = [cancelled EXCEPT ![r] = @ \/ StopsAtStart(s, r)]
    OBVIOUS
  <2>2. ASSUME r \in doomed \cap Ops PROVE cancelled'[r]
    <3>1. s \in Children /\ to[r] = s
      BY <2>2 DEF RunInv
    <3>2. cancelled[r] \/ ShutOut(s)
      BY <2>2, <3>1 DEF DoomInv
    <3>3. ShutOut(s) => StopsAtStart(s, r)
      BY <3>1 DEF ShutOut, Outdated
    <3> QED
      BY <2>1, <2>2, <3>2, <3>3
  <2>3. \A q \in Runs : q # r => phase'[q] = phase[q] /\ cancelled'[q] = cancelled[q]
    BY <2>1
  <2>4. r \in doomed \cap Prompts => cancelled'[r] /\ phase'[r] # "new"
    BY <2>1 DEF DoomInv
  <2>5. r \in doomed \cap Ops => phase'[r] = "working"
    BY <2>1
  <2> QED
    BY <2>2, <2>3, <2>4, <2>5, SMTT(30) DEF DoomInv, ShutOut, Outdated, Crossed
<1> QED
  BY <1>1, <1>2, <1>3, <1>4, <1>5

LEMMA RunOverKeeps ==
  ASSUME IInv, NEW s \in Sessions, NEW r \in Runs, TypeOK', RunOver(r, s)
  PROVE  TargetInv' /\ LockInv' /\ RunInv' /\ GenInv' /\ DoomInv'
<1> USE DEF RunOver
<1>1. TargetInv'
  BY DEF TargetInv
<1>2. LockInv'
  BY SMTT(30) DEF TargetInv, LockInv, RunInv
<1>3. RunInv'
  BY DEF TargetInv, LockInv, RunInv
<1>4. GenInv'
  BY DEF TargetInv, LockInv, GenInv
<1>5. DoomInv'
  BY DEF TargetInv, LockInv, RunInv, GenInv, DoomInv, Outdated, ShutOut, Crossed
<1> QED
  BY <1>1, <1>2, <1>3, <1>4, <1>5

LEMMA EndRunKeeps ==
  ASSUME IInv, NEW s \in Sessions, NEW r \in Runs, TypeOK', EndRun(r, s)
  PROVE  TargetInv' /\ LockInv' /\ RunInv' /\ GenInv' /\ DoomInv'
<1> USE DEF EndRun
<1>1. TargetInv'
  BY DEF TargetInv
<1>2. LockInv'
  BY SMTT(30) DEF TargetInv, LockInv, RunInv
<1>3. RunInv'
  <2>1. live' = [live EXCEPT ![s] = None] /\ phase' = [phase EXCEPT ![r] = "ended"]
    OBVIOUS
  <2>2. r \in Ops => s \in Children /\ to[r] = s /\ phase[r] # "prepare" /\ pc[r] # "prepare"
    BY DEF RunInv
  <2>3. \A x \in Sessions : x # s /\ live[x] # None => live[x] # r
    <3>1. CASE r \in Ops
      BY <2>2, <3>1 DEF RunInv
    <3>2. CASE r \in Prompts
      BY <3>2 DEF RunInv
    <3> QED
      BY <3>1, <3>2
  <2>4. \A o \in Ops : o # r /\ phase[o] \in Occupying => to[o] # s
    BY DEF RunInv
  <2>5. \A x \in Sessions : live'[x] # None =>
            phase'[live'[x]] \in Occupying
    BY <2>1, <2>3 DEF RunInv
  <2>6. \A o \in Ops : phase'[o] \in Occupying => live'[to[o]] = o
    BY <2>1, <2>4 DEF RunInv, TargetInv
  <2>7. \A o \in Ops : pc[o] = "prepare" <=> phase'[o] = "prepare"
    BY <2>1, <2>2 DEF RunInv
  <2> QED
    BY <2>1, <2>2, <2>5, <2>6, <2>7 DEF RunInv
<1>4. GenInv'
  BY DEF TargetInv, LockInv, GenInv
<1>5. DoomInv'
  BY SMTT(30) DEF TargetInv, LockInv, RunInv, GenInv, DoomInv, Outdated, ShutOut, Crossed
<1> QED
  BY <1>1, <1>2, <1>3, <1>4, <1>5

LEMMA PrecheckKeeps ==
  ASSUME IInv, NEW o \in Ops, TypeOK', Precheck(o)
  PROVE  TargetInv' /\ LockInv' /\ RunInv' /\ GenInv' /\ DoomInv'
<1> USE DEF Precheck, Finish, Release, Goto, Barred, Stale
<1>1. TargetInv'
  BY DEF TargetInv
<1>2. LockInv'
  BY DEF TargetInv, LockInv
<1>3. RunInv'
  BY SMTT(30) DEF TargetInv, LockInv, RunInv
<1>4. GenInv'
  BY DEF TargetInv, LockInv, GenInv
<1>5. DoomInv'
  BY DEF TargetInv, LockInv, RunInv, GenInv, DoomInv, Outdated, ShutOut, Crossed
<1> QED
  BY <1>1, <1>2, <1>3, <1>4, <1>5

LEMMA StartRunKeeps ==
  ASSUME IInv, NEW o \in Ops, TypeOK', StartRun(o)
  PROVE  TargetInv' /\ LockInv' /\ RunInv' /\ GenInv' /\ DoomInv'
<1> USE DEF StartRun, Begin, Finish, Release, Goto
<1>1. TargetInv'
  BY DEF TargetInv
<1>2. LockInv'
  BY SMTT(30) DEF TargetInv, LockInv, RunInv
<1>3. RunInv'
  BY SMTT(30) DEF TargetInv, LockInv, RunInv
<1>4. GenInv'
  BY DEF TargetInv, LockInv, GenInv
<1>5. DoomInv'
  BY SMTT(30) DEF TargetInv, LockInv, RunInv, GenInv, DoomInv, Outdated, ShutOut, Crossed
<1> QED
  BY <1>1, <1>2, <1>3, <1>4, <1>5

LEMMA StartReturnsKeeps ==
  ASSUME IInv, NEW o \in Ops, TypeOK', StartReturns(o)
  PROVE  TargetInv' /\ LockInv' /\ RunInv' /\ GenInv' /\ DoomInv'
<1> USE DEF StartReturns, Finish, Release, Goto
<1>1. TargetInv'
  BY DEF TargetInv
<1>2. LockInv'
  BY SMTT(30) DEF TargetInv, LockInv, RunInv
<1>3. RunInv'
  <2>1. pc[o] = "prepare" /\ phase[o] = "prepare" /\ to[o] \in Children /\ live[to[o]] = o
    BY DEF RunInv, TargetInv
  <2>2. CASE phase'[o] = "ended"
    <3>1. /\ phase' = [phase EXCEPT ![o] = "ended"] /\ live' = [live EXCEPT ![to[o]] = None]
          /\ pc' = [pc EXCEPT ![o] = "done"]
      BY <2>2
    <3>2. \A x \in Sessions : x # to[o] /\ live[x] # None => live[x] # o
      BY DEF RunInv
    <3>3. \A q \in Ops : q # o /\ phase[q] \in Occupying => to[q] # to[o]
      BY <2>1 DEF RunInv
    <3>4. \A x \in Sessions : live'[x] # None =>
            phase'[live'[x]] \in Occupying
      BY <3>1, <3>2, <2>1 DEF RunInv
    <3>5. \A q \in Ops : phase'[q] \in Occupying => live'[to[q]] = q
      BY <3>1, <3>3 DEF RunInv, TargetInv
    <3>6. \A q \in Ops : /\ phase'[q] # "new" => pc'[q] \in {"prepare", "postcheck", "done"}
                         /\ pc'[q] = "prepare" <=> phase'[q] = "prepare"
      BY <3>1 DEF RunInv
    <3>7. \A x \in Sessions : live'[x] # None => live'[x] = live[x] /\ x # to[o]
      BY <3>1, <2>1
    <3> QED
      BY <3>4, <3>5, <3>6, <3>7 DEF RunInv
  <2>3. CASE phase'[o] # "ended"
    <3>1. /\ phase' = [phase EXCEPT ![o] = "starting"] /\ live' = live
          /\ pc' = [pc EXCEPT ![o] = "postcheck"]
      BY <2>3
    <3>2. \A x \in Sessions : live[x] # None =>
            phase'[live[x]] \in Occupying
      BY <3>1 DEF RunInv
    <3>3. \A q \in Ops : /\ phase'[q] # "new" => pc'[q] \in {"prepare", "postcheck", "done"}
                         /\ pc'[q] = "prepare" <=> phase'[q] = "prepare"
                         /\ phase'[q] \in Occupying => live[to[q]] = q
      BY <3>1, <2>1 DEF RunInv
    <3> QED
      BY <3>1, <3>2, <3>3 DEF RunInv
  <2> QED
    BY <2>2, <2>3
<1>4. GenInv'
  BY DEF TargetInv, LockInv, GenInv
<1>5. DoomInv'
  BY SMTT(30) DEF TargetInv, LockInv, RunInv, GenInv, DoomInv, Outdated, ShutOut, Crossed
<1> QED
  BY <1>1, <1>2, <1>3, <1>4, <1>5

LEMMA PostcheckKeeps ==
  ASSUME IInv, NEW o \in Ops, TypeOK', Postcheck(o)
  PROVE  TargetInv' /\ LockInv' /\ RunInv' /\ GenInv' /\ DoomInv'
<1> USE DEF Postcheck, Track, Finish, Release, Goto
<1>1. TargetInv'
  BY SMTT(30) DEF TargetInv
<1>2. LockInv'
  BY DEF TargetInv, LockInv
<1>3. RunInv'
  BY DEF TargetInv, LockInv, RunInv
<1>4. GenInv'
  BY DEF TargetInv, LockInv, GenInv
<1>5. DoomInv'
  BY SMTT(30) DEF TargetInv, LockInv, RunInv, GenInv, DoomInv, Outdated, ShutOut, Crossed
<1> QED
  BY <1>1, <1>2, <1>3, <1>4, <1>5

LEMMA SpawnAdmittedKeeps ==
  ASSUME IInv, NEW o \in Spawns, NEW s \in Sessions, NEW r \in Runs, TypeOK', SpawnAdmitted(o, s, r)
  PROVE  TargetInv' /\ LockInv' /\ RunInv' /\ GenInv' /\ DoomInv'
<1> USE DEF SpawnAdmitted, Goto
<1>1. TargetInv'
  BY DEF TargetInv
<1>2. LockInv'
  BY DEF TargetInv, LockInv
<1>3. RunInv'
  BY DEF TargetInv, LockInv, RunInv
<1>4. GenInv'
  BY DEF TargetInv, LockInv, GenInv
<1>5. DoomInv'
  BY SMTT(30) DEF TargetInv, LockInv, RunInv, GenInv, DoomInv, Outdated, ShutOut, Crossed
<1> QED
  BY <1>1, <1>2, <1>3, <1>4, <1>5

LEMMA SpawnRefusedKeeps ==
  ASSUME IInv, NEW o \in Spawns, TypeOK', SpawnRefused(o)
  PROVE  TargetInv' /\ LockInv' /\ RunInv' /\ GenInv' /\ DoomInv'
<1> USE DEF SpawnRefused, Goto
<1>1. TargetInv'
  BY DEF TargetInv
<1>2. LockInv'
  BY DEF TargetInv, LockInv
<1>3. RunInv'
  BY DEF TargetInv, LockInv, RunInv
<1>4. GenInv'
  BY DEF TargetInv, LockInv, GenInv
<1>5. DoomInv'
  BY SMTT(30) DEF TargetInv, LockInv, RunInv, GenInv, DoomInv, Outdated, ShutOut, Crossed
<1> QED
  BY <1>1, <1>2, <1>3, <1>4, <1>5

LEMMA PublishKeeps ==
  ASSUME IInv, NEW o \in Spawns, TypeOK', Publish(o)
  PROVE  TargetInv' /\ LockInv' /\ RunInv' /\ GenInv' /\ DoomInv'
<1> USE DEF Publish, Goto, Stale
<1>1. TargetInv'
  BY DEF TargetInv
<1>2. LockInv'
  BY DEF TargetInv, LockInv
<1>3. RunInv'
  BY DEF TargetInv, LockInv, RunInv
<1>4. GenInv'
  BY DEF TargetInv, LockInv, GenInv
<1>5. DoomInv'
  <2>1. o \notin doomed
    BY DEF DoomInv, Outdated
  <2>2. \A q \in Ops : q # o => pc'[q] = pc[q] /\ to[q] # o
    BY DEF TargetInv
  <2>3. \A c \in Children : c # o => parent'[c] = parent[c] /\ admission'[c] = admission[c]
    OBVIOUS
  <2>4. \A q \in Ops : phase[q] \in {"prepare", "starting"} \/ Unstarted(q) => to[q] \in Children
    BY DEF RunInv, TargetInv
  <2> QED
    BY <2>1, <2>2, <2>3, <2>4, SMTT(30) DEF DoomInv, Outdated, ShutOut, Crossed
<1> QED
  BY <1>1, <1>2, <1>3, <1>4, <1>5

LEMMA SaveTaskKeeps ==
  ASSUME IInv, NEW o \in Spawns, TypeOK', SaveTask(o)
  PROVE  TargetInv' /\ LockInv' /\ RunInv' /\ GenInv' /\ DoomInv'
<1> USE DEF SaveTask, Finish, Release, Goto
<1>1. TargetInv'
  BY DEF TargetInv
<1>2. LockInv'
  BY DEF TargetInv, LockInv
<1>3. RunInv'
  BY DEF TargetInv, LockInv, RunInv
<1>4. GenInv'
  BY SMTT(30) DEF TargetInv, LockInv, GenInv
<1>5. DoomInv'
  BY SMTT(30) DEF TargetInv, LockInv, RunInv, GenInv, DoomInv, Outdated, ShutOut, Crossed
<1> QED
  BY <1>1, <1>2, <1>3, <1>4, <1>5

LEMMA CreateChildKeeps ==
  ASSUME IInv, NEW o \in Spawns, TypeOK', CreateChild(o)
  PROVE  TargetInv' /\ LockInv' /\ RunInv' /\ GenInv' /\ DoomInv'
<1> USE DEF CreateChild, AfterCreate, Finish, Release, Goto
<1>1. TargetInv'
  BY DEF TargetInv
<1>2. LockInv'
  BY SMTT(30) DEF TargetInv, LockInv
<1>3. RunInv'
  BY SMTT(30) DEF TargetInv, LockInv, RunInv
<1>4. GenInv'
  BY DEF TargetInv, LockInv, GenInv
<1>5. DoomInv'
  BY DEF TargetInv, LockInv, RunInv, GenInv, DoomInv, Outdated, ShutOut, Crossed
<1> QED
  BY <1>1, <1>2, <1>3, <1>4, <1>5

LEMMA SendAdmittedKeeps ==
  ASSUME IInv, NEW o \in Sends, NEW s \in Sessions, NEW c \in Children,
         NEW r \in Runs \cup {None}, TypeOK', SendAdmitted(o, s, c, r)
  PROVE  TargetInv' /\ LockInv' /\ RunInv' /\ GenInv' /\ DoomInv'
<1> USE DEF SendAdmitted, Goto
<1>1. TargetInv'
  BY DEF TargetInv
<1>2. LockInv'
  BY DEF TargetInv, LockInv
<1>3. RunInv'
  BY SMTT(30) DEF TargetInv, LockInv, RunInv
<1>4. GenInv'
  BY DEF TargetInv, LockInv, GenInv
<1>5. DoomInv'
  <2>1. o \notin doomed /\ phase[o] = "new"
    BY DEF DoomInv, RunInv
  <2>2. \A q \in Ops : q # o => /\ pc'[q] = pc[q] /\ from'[q] = from[q] /\ to'[q] = to[q]
                              /\ permit'[q] = permit[q]
    OBVIOUS
  <2> QED
    BY <2>1, <2>2, SMTT(30) DEF DoomInv, Outdated, ShutOut, Crossed
<1> QED
  BY <1>1, <1>2, <1>3, <1>4, <1>5

LEMMA SendLookKeeps ==
  ASSUME IInv, NEW o \in Sends, TypeOK', SendLook(o)
  PROVE  TargetInv' /\ LockInv' /\ RunInv' /\ GenInv' /\ DoomInv'
<1> USE DEF SendLook, Goto, Stale, Crossed
<1>1. TargetInv'
  BY DEF TargetInv
<1>2. LockInv'
  BY DEF TargetInv, LockInv
<1>3. RunInv'
  BY DEF TargetInv, LockInv, RunInv
<1>4. GenInv'
  BY DEF TargetInv, LockInv, GenInv
<1>5. DoomInv'
  BY DEF TargetInv, LockInv, RunInv, GenInv, DoomInv, Outdated, ShutOut, Crossed
<1> QED
  BY <1>1, <1>2, <1>3, <1>4, <1>5

LEMMA SendBranchKeeps ==
  ASSUME IInv, NEW o \in Sends, TypeOK', SendBranch(o)
  PROVE  TargetInv' /\ LockInv' /\ RunInv' /\ GenInv' /\ DoomInv'
<1> USE DEF SendBranch, Finish, Release, Goto
<1>1. TargetInv'
  BY DEF TargetInv
<1>2. LockInv'
  BY DEF TargetInv, LockInv
<1>3. RunInv'
  BY SMTT(30) DEF TargetInv, LockInv, RunInv
<1>4. GenInv'
  BY DEF TargetInv, LockInv, GenInv
<1>5. DoomInv'
  BY DEF TargetInv, LockInv, RunInv, GenInv, DoomInv, Outdated, ShutOut, Crossed
<1> QED
  BY <1>1, <1>2, <1>3, <1>4, <1>5

LEMMA SteerRunKeeps ==
  ASSUME IInv, NEW o \in Sends, TypeOK', SteerRun(o)
  PROVE  TargetInv' /\ LockInv' /\ RunInv' /\ GenInv' /\ DoomInv'
<1> USE DEF SteerRun, Goto
<1>1. TargetInv'
  BY DEF TargetInv
<1>2. LockInv'
  BY DEF TargetInv, LockInv
<1>3. RunInv'
  BY DEF TargetInv, LockInv, RunInv
<1>4. GenInv'
  BY DEF TargetInv, LockInv, GenInv
<1>5. DoomInv'
  BY SMTT(30) DEF TargetInv, LockInv, RunInv, GenInv, DoomInv, Outdated, ShutOut, Crossed
<1> QED
  BY <1>1, <1>2, <1>3, <1>4, <1>5

LEMMA SendRecheckKeeps ==
  ASSUME IInv, NEW o \in Sends, TypeOK', SendRecheck(o)
  PROVE  TargetInv' /\ LockInv' /\ RunInv' /\ GenInv' /\ DoomInv'
<1> USE DEF SendRecheck, MayRevive, Finish, Release, Goto, Stale, Crossed
<1>1. TargetInv'
  BY DEF TargetInv
<1>2. LockInv'
  BY DEF TargetInv, LockInv
<1>3. RunInv'
  BY SMTT(30) DEF TargetInv, LockInv, RunInv
<1>4. GenInv'
  BY SMTT(30) DEF TargetInv, LockInv, GenInv
<1>5. DoomInv'
  BY SMTT(30) DEF TargetInv, LockInv, RunInv, GenInv, DoomInv, Outdated, ShutOut, Crossed
<1> QED
  BY <1>1, <1>2, <1>3, <1>4, <1>5

LEMMA CloseBeginsKeeps ==
  ASSUME IInv, TypeOK', CloseBegins
  PROVE  TargetInv' /\ LockInv' /\ RunInv' /\ GenInv' /\ DoomInv'
<1> USE DEF CloseBegins
<1>1. TargetInv'
  BY DEF TargetInv
<1>2. LockInv'
  BY DEF TargetInv, LockInv
<1>3. RunInv'
  BY DEF TargetInv, LockInv, RunInv
<1>4. GenInv'
  BY DEF TargetInv, LockInv, GenInv
<1>5. DoomInv'
  BY DEF TargetInv, LockInv, RunInv, GenInv, DoomInv, Outdated, ShutOut, Crossed
<1> QED
  BY <1>1, <1>2, <1>3, <1>4, <1>5

LEMMA CloseReturnsKeeps ==
  ASSUME IInv, TypeOK', CloseReturns
  PROVE  TargetInv' /\ LockInv' /\ RunInv' /\ GenInv' /\ DoomInv'
<1> USE DEF CloseReturns
<1>1. TargetInv'
  BY DEF TargetInv
<1>2. LockInv'
  BY DEF TargetInv, LockInv
<1>3. RunInv'
  BY DEF TargetInv, LockInv, RunInv
<1>4. GenInv'
  BY DEF TargetInv, LockInv, GenInv
<1>5. DoomInv'
  BY DEF TargetInv, LockInv, RunInv, GenInv, DoomInv, Outdated, ShutOut, Crossed
<1> QED
  BY <1>1, <1>2, <1>3, <1>4, <1>5

(* What is below a session *)
LEMMA DescendantsSelf ==
  ASSUME NEW s \in Sessions
  PROVE  s \in Descendants(s)
  BY DEF Descendants

LEMMA DescendantsClosed ==
  ASSUME NEW s \in Sessions
  PROVE  ClosedBelow(Descendants(s))
  BY DEF Descendants, ClosedBelow, Sessions

LEMMA DescendantsParent ==
  ASSUME NEW s \in Sessions, NEW x \in Descendants(s), x # s
  PROVE  x \in Children /\ parent[x] \in Descendants(s)
<1> DEFINE T == Descendants(s) \ {x}
<1> SUFFICES ASSUME ~(x \in Children /\ parent[x] \in Descendants(s)) PROVE FALSE
  OBVIOUS
<1>1. s \in T /\ T \in SUBSET Sessions
  BY DescendantsSelf DEF Descendants
<1>2. ClosedBelow(T)
  BY DescendantsClosed DEF ClosedBelow
<1>3. x \in T
  BY <1>1, <1>2 DEF Descendants
<1> QED
  BY <1>3

LEMMA DeletionKeeps ==
  ASSUME IInv, NEW s \in Roots, TypeOK', ReserveDeletion(s)
  PROVE  TargetInv' /\ LockInv' /\ RunInv' /\ GenInv' /\ DoomInv'
<1> DEFINE gone == Descendants(s)
<1>1. \A c \in Children : c \in gone => parent[c] \in gone /\ lock[c] = None /\ ~Active(c)
  BY DescendantsParent DEF ReserveDeletion, Below
<1>2. \A c \in Children : c \in gone => parent'[c] = None
  BY DEF ReserveDeletion
<1>3. \A c \in Children : c \notin gone => parent'[c] = parent[c]
  BY DEF ReserveDeletion
<1>4. \A x \in Sessions : x \in gone \/ generation'[x] = generation[x]
  BY DEF ReserveDeletion
<1>5. deleted' = deleted \cup gone /\ created' = created \ gone
  BY DEF ReserveDeletion
<1>6. UNCHANGED <<admission, stopRequested, stopGeneration, lock, runVars, opVars, doomed, closing>>
  BY DEF ReserveDeletion
<1>7. \A o \in Ops : Holds(o) => to[o] \notin gone
  BY <1>1 DEF LockInv, TargetInv
<1>8. \A c \in Children : Active(c) => c \notin gone
  BY <1>1
<1> HIDE DEF gone
<1>9. TargetInv'
  BY <1>2, <1>3, <1>5, <1>6 DEF TargetInv
<1>10. LockInv'
  BY <1>2, <1>3, <1>5, <1>6, <1>7 DEF TargetInv, LockInv
<1>11. RunInv'
  BY <1>3, <1>6, <1>8 DEF RunInv
<1>12. GenInv'
  BY <1>2, <1>3, <1>4, <1>5, <1>6 DEF TargetInv, GenInv
<1>13. DoomInv'
  BY <1>3, <1>4, <1>5, <1>6, <1>7, <1>8
  DEF TargetInv, LockInv, RunInv, DoomInv, Outdated, ShutOut, Crossed
<1> QED
  BY <1>9, <1>10, <1>11, <1>12, <1>13

LEMMA StopKeeps ==
  ASSUME IInv, TypeOK', NEW s \in Sessions, Stopping, Doom(Descendants(s)), NEW tasks,
         Below(Descendants(s)) \subseteq tasks,
         s \in Children => s \in tasks /\ parent[s] # None,
         StopTree(Descendants(s), tasks)
  PROVE  TargetInv' /\ LockInv' /\ RunInv' /\ GenInv' /\ DoomInv'
<1> DEFINE T == Descendants(s)
<1>1. UNCHANGED <<parent, admission, lock, deleted, live, phase, opVars, diskVars, closing>>
  BY DEF Stopping
<1>2. \A x \in Sessions : x \in T => generation'[x] = generation[x] + 1
  BY DEF StopTree, Later
<1>3. \A x \in Sessions : x \notin T => generation'[x] = generation[x]
  BY DEF StopTree
<1>4. \A c \in Children : c \in tasks =>
          stopRequested'[c] /\ stopGeneration'[c] = stopGeneration[c] + 1
  BY DEF StopTree, Later
<1>5. \A c \in Children : c \notin tasks =>
        stopRequested'[c] = stopRequested[c] /\ stopGeneration'[c] = stopGeneration[c]
  BY DEF StopTree
<1>6. \A r \in Runs : (cancelled[r] \/ \E x \in T : live[x] = r /\ Active(x)) => cancelled'[r]
  BY DEF StopTree
<1>7. doomed' = doomed \cup {r \in Runs : \E x \in T : live[x] = r /\ Active(x)}
                     \cup {o \in Ops : InFlight(o) /\ (from[o] \in T \/ to[o] \in T)}
  BY DEF Doom
<1>8. \A c \in Children : parent[c] \in T => c \in T /\ c \in tasks
  BY DescendantsClosed DEF ClosedBelow, Below
<1>9. \A c \in Children : c \in T => c \in tasks /\ parent[c] # None
  <2>1. T \subseteq Sessions
    BY DEF Descendants
  <2>2. \A c \in Children : c \in T /\ c # s => parent[c] \in T
    BY DescendantsParent
  <2> QED
    BY <2>1, <2>2, <1>8
<1>0. T \subseteq Sessions
  BY DEF Descendants
<1> HIDE DEF T
<1>10. TargetInv' /\ LockInv' /\ RunInv'
  BY <1>1 DEF TargetInv, LockInv, RunInv
<1>11. GenInv'
  <2>1. \A x \in Sessions, n \in Nat : n <= generation[x] => n <= generation'[x]
    BY <1>2, <1>3
  <2>2. \A c \in Children, n \in Nat : n <= stopGeneration[c] => n <= stopGeneration'[c]
    BY <1>4, <1>5, SMTT(30)
  <2>3. \A o \in Ops : permit[o].generation \in Nat /\ permit[o].stopGeneration \in Nat
    BY DEF Permits
  <2>4. \A c \in Children : admission[c].generation \in Nat
    BY DEF Permits
  <2> QED
    BY <1>1, <2>1, <2>2, <2>3, <2>4 DEF TargetInv, GenInv
<1>12. \A r \in doomed' \cap Prompts : cancelled'[r] /\ phase'[r] # "new"
  <2>1. \A r \in Prompts :
          (\E x \in T : live[x] = r /\ Active(x)) => cancelled'[r] /\ phase[r] # "new"
    <3> SUFFICES ASSUME NEW r \in Prompts, NEW x \in T, live[x] = r, Active(x)
                 PROVE  cancelled'[r] /\ phase[r] # "new"
      OBVIOUS
    <3>1. x \in Sessions /\ live[x] # None
      BY <1>0
    <3>2. phase[r] \in Occupying
      BY <3>1 DEF RunInv
    <3> QED
      BY <1>6, <3>2
  <2> QED
    BY <1>1, <1>6, <1>7, <2>1 DEF DoomInv
<1>13. \A c \in Children : parent[c] # None /\ ShutOut(c) => ShutOut(c)'
  <2>1. \A c \in Children : parent[c] # None =>
            parent[c] \in Sessions /\ admission[c].generation \in Nat
    BY DEF Permits
  <2>2. \A c \in Children : stopRequested[c] => stopRequested'[c]
    BY <1>4, <1>5
  <2> QED
    BY <1>1, <1>2, <1>3, <2>1, <2>2 DEF ShutOut, Outdated, GenInv
<1>14. \A c \in tasks \cap Children : ShutOut(c)'
  BY <1>4 DEF ShutOut
<1>15. \A o \in Ops : pc[o] # "idle" /\ Outdated(from[o], permit[o]) =>
          Outdated(from[o], permit[o])'
  <2>1. \A o \in Ops : permit[o].generation \in Nat
    BY DEF Permits
  <2> QED
    BY <1>1, <1>2, <1>3, <2>1 DEF Outdated, GenInv, TargetInv
<1>16. \A o \in Sends : pc[o] # "idle" /\ (Crossed(o) \/ to[o] \in tasks) => Crossed(o)'
  <2>1. \A o \in Sends : permit[o].stopGeneration \in Nat
    BY DEF Permits
  <2> QED
    BY <1>1, <1>4, <1>5, <2>1 DEF Crossed, GenInv, TargetInv
<1>17. \A o \in Ops : pc[o] # "idle" /\ from[o] \in T => Outdated(from[o], permit[o])'
  <2>1. \A o \in Ops : permit[o].generation \in Nat
    BY DEF Permits
  <2> QED
    BY <1>0, <1>1, <1>2, <2>1 DEF Outdated, GenInv
<1>18. \A o \in Ops : Related(o) /\ from[o] \in T => to[o] \in T /\ to[o] \in tasks
  BY <1>8 DEF LockInv, TargetInv
<1>19. \A o \in Ops : pc[o] # "idle" /\ to[o] \in T => to[o] \in tasks \cap Children
  BY <1>9 DEF TargetInv
<1>20. \A o \in Ops : phase[o] \in {"prepare", "starting", "working"} =>
                      to[o] \in Children /\ live[to[o]] = o /\ Active(to[o])
  <2> SUFFICES ASSUME NEW o \in Ops, phase[o] \in {"prepare", "starting", "working"}
               PROVE  to[o] \in Children /\ live[to[o]] = o /\ Active(to[o])
    OBVIOUS
  <2>1. pc[o] # "idle" /\ live[to[o]] = o
    BY DEF RunInv
  <2>2. to[o] \in Children
    BY <2>1 DEF TargetInv
  <2> QED
    BY <2>1, <2>2
<1>21. \A o \in Ops :
         phase[o] \in {"prepare", "starting", "working"} /\ to[o] \in T => cancelled'[o]
  BY <1>6, <1>20
<1>22. ASSUME NEW o \in Ops, o \in doomed'
       PROVE  /\ pc'[o] # "idle"
              /\ Before(o)' => Outdated(from[o], permit[o])' \/ (o \in Sends /\ Crossed(o)')
              /\ Unstarted(o)' => ShutOut(to[o])'
              /\ phase'[o] \in {"prepare", "starting"} => cancelled'[o] \/ ShutOut(to[o])'
              /\ phase'[o] = "working" => cancelled'[o]
  <2>1. CASE o \in doomed
    <3>1. phase[o] \in {"prepare", "starting", "working"} => parent[to[o]] # None
      BY <1>20 DEF RunInv, TargetInv
    <3>2. Unstarted(o) => parent[to[o]] # None
      BY DEF LockInv
    <3>3. pc[o] # "idle" /\ to[o] \in Children
      BY <2>1 DEF DoomInv, TargetInv
    <3>4. cancelled[o] => cancelled'[o]
      BY <1>6
    <3> QED
      BY <1>1, <1>13, <1>15, <1>16, <2>1, <3>1, <3>2, <3>3, <3>4 DEF DoomInv
  <2>2. CASE \E x \in T : live[x] = o /\ Active(x)
    <3>1. cancelled'[o]
      BY <1>6, <2>2
    <3>2. phase[o] \in {"prepare", "starting", "working"}
      BY <1>0, <2>2 DEF RunInv
    <3>3. pc[o] \in {"prepare", "postcheck", "done"}
      BY <3>2 DEF RunInv
    <3> QED
      BY <1>1, <3>1, <3>3
  <2>3. CASE InFlight(o) /\ from[o] \in T
    <3>1. pc[o] # "idle" /\ pc[o] # "done"
      BY <2>3 DEF InFlight
    <3>2. phase[o] # "new" => Related(o)
      BY <3>1 DEF RunInv
    <3>3. Related(o) => ShutOut(to[o])' /\ to[o] \in T
      BY <1>1, <1>14, <1>18, <2>3, <3>1 DEF TargetInv
    <3> QED
      BY <1>1, <1>17, <1>21, <2>3, <3>1, <3>2, <3>3
  <2>4. CASE InFlight(o) /\ to[o] \in T
    <3>1. pc[o] # "idle" /\ pc[o] # "done"
      BY <2>4 DEF InFlight
    <3>2. ShutOut(to[o])'
      BY <1>1, <1>14, <1>19, <2>4, <3>1
    <3>3. Before(o) => o \in Sends
      BY <1>9, <2>4, <3>1 DEF TargetInv
    <3>4. o \in Sends => Crossed(o)'
      BY <1>16, <1>19, <2>4, <3>1
    <3> QED
      BY <1>1, <1>21, <2>4, <3>1, <3>2, <3>3, <3>4
  <2> QED
    BY <1>7, <1>22, <2>1, <2>2, <2>3, <2>4
<1>23. DoomInv'
  BY <1>12, <1>22 DEF DoomInv
<1> QED
  BY <1>10, <1>11, <1>23

HIDE SubagentsAssumption DEF IInv, TypeOK, Ops, Runs, Sessions, Children,
     familyVars, taskVars, opVars, diskVars, closeVars, pastVars, runVars,
     Holds, Related, Before, Unstarted, Active, Occupying

LEMMA StopStepKeeps ==
  ASSUME IInv, TypeOK', StopStep
  PROVE  TargetInv' /\ LockInv' /\ RunInv' /\ GenInv' /\ DoomInv'
<1>1. CASE \E s \in Roots : StopFamily(s)
  <2>1. PICK s \in Roots : StopFamily(s)
    BY <1>1
  <2>2. s \in Sessions /\ s \notin Children
    BY SubagentsAssumption DEF Sessions
  <2> QED
    BY <2>1, <2>2, StopKeeps DEF StopFamily, Visited
<1>2. CASE \E c \in Children : StopTask(c)
  <2>1. PICK c \in Children : StopTask(c)
    BY <1>2
  <2>2. c \in Sessions
    BY DEF Sessions
  <2> DEFINE tasks == {c} \cup Below(Descendants(c))
  <2>3. /\ parent[c] # None /\ Stopping /\ Doom(Descendants(c))
        /\ StopTree(Descendants(c), tasks)
    BY <2>1 DEF StopTask, Visited, Target
  <2>4. Below(Descendants(c)) \subseteq tasks /\ c \in tasks
    OBVIOUS
  <2> HIDE DEF tasks
  <2> QED
    BY <2>2, <2>3, <2>4, StopKeeps
<1> QED
  BY <1>1, <1>2 DEF StopStep

-----------------------------------------------------------------------------
(* The three facts about IInv *)

LEMMA InitIInv == Init => IInv
<1> SUFFICES ASSUME Init PROVE IInv
  OBVIOUS
<1> USE SubagentsAssumption DEF Init, Ops, Runs, Sessions, Children, Holds, Related, Before,
          Unstarted
<1>1. TypeOK
  BY InitTypeOK
<1>2. TargetInv
  BY DEF TargetInv
<1>3. LockInv
  BY DEF LockInv
<1>4. RunInv
  BY DEF RunInv, Active, Occupying
<1>5. GenInv /\ DoomInv
  BY DEF GenInv, DoomInv
<1> QED
  BY <1>1, <1>2, <1>3, <1>4, <1>5 DEF IInv

LEMMA StepKeeps ==
  ASSUME IInv, Next, TypeOK'
  PROVE  TargetInv' /\ LockInv' /\ RunInv' /\ GenInv' /\ DoomInv'
<1>0. TypeOK
  BY DEF IInv
<1>1. CASE RunStep
  <2>1. CASE \E s \in Busy :
               RunStarted(live[s], s) \/ RunOver(live[s], s) \/ EndRun(live[s], s)
    BY <1>0, <2>1, BusyRuns, RunStartedKeeps, RunOverKeeps, EndRunKeeps
  <2> QED
    BY <1>1, <2>1, StartRootKeeps DEF RunStep
<1>2. CASE TurnStep
  BY <1>2, PrecheckKeeps, StartRunKeeps, StartReturnsKeeps, PostcheckKeeps DEF TurnStep
<1>3. CASE SpawnStep
  <2>1. PICK o \in Spawns :
          \/ \E s \in Busy : SpawnAdmitted(o, s, live[s])
          \/ Publish(o) \/ SpawnRefused(o) \/ SaveTask(o) \/ CreateChild(o)
    BY <1>3 DEF SpawnStep
  <2>2. CASE \E s \in Busy : SpawnAdmitted(o, s, live[s])
    BY <1>0, <2>2, BusyRuns, SpawnAdmittedKeeps
  <2> QED
    BY <2>1, <2>2, SpawnRefusedKeeps, PublishKeeps, SaveTaskKeeps, CreateChildKeeps
<1>4. CASE SendStep
  <2>1. PICK o \in Sends :
          \/ \E c \in Known : \E r \in {None, live[parent[c]]} : SendAdmitted(o, parent[c], c, r)
          \/ SendLook(o) \/ SendBranch(o) \/ SteerRun(o) \/ SendRecheck(o)
    BY <1>4 DEF SendStep
  <2>2. CASE \E c \in Known : \E r \in {None, live[parent[c]]} : SendAdmitted(o, parent[c], c, r)
    BY <1>0, <2>2, KnownParents, SendAdmittedKeeps
  <2> QED
    BY <2>1, <2>2, SendLookKeeps, SendBranchKeeps, SteerRunKeeps, SendRecheckKeeps
<1>5. CASE StopStep
  BY <1>5, StopStepKeeps
<1>6. CASE (\E s \in Roots : ReserveDeletion(s)) \/ CloseBegins \/ CloseReturns
  BY <1>6, DeletionKeeps, CloseBeginsKeeps, CloseReturnsKeeps
<1> QED
  BY <1>1, <1>2, <1>3, <1>4, <1>5, <1>6 DEF Next

LEMMA NextKeeps == IInv /\ [Next]_vars => IInv'
<1> SUFFICES ASSUME IInv, [Next]_vars PROVE IInv'
  OBVIOUS
<1>1. TypeOK'
  BY NextTypes DEF IInv
<1>2. CASE Next
  BY <1>1, <1>2, StepKeeps DEF IInv
<1>3. CASE UNCHANGED vars
  <2>1. UNCHANGED <<taskVars, lock, familyVars, runVars, opVars, diskVars, closeVars, pastVars>>
    BY <1>3 DEF vars
  <2> USE DEF taskVars, familyVars, runVars, opVars, diskVars, closeVars, pastVars
  <2>2. TargetInv' /\ LockInv' /\ RunInv'
    BY <2>1 DEF IInv, TargetInv, LockInv, RunInv, Holds, Related, Unstarted, Active
  <2>3. GenInv' /\ DoomInv'
    BY <2>1 DEF IInv, GenInv, DoomInv, Before, Unstarted, Outdated, ShutOut, Crossed
  <2> QED
    BY <1>1, <2>2, <2>3 DEF IInv
<1> QED
  BY <1>2, <1>3

LEMMA IInvStopsHold == IInv => StopsHold
  BY DEF IInv, TypeOK, DoomInv, StopsHold, Runs, Ops

(* Every variable keeps its type in every reachable state: the whole of    *)
(* Spawn, Send, Stop and Close is defined whatever the interleaving.       *)
THEOREM SubagentsTypeCorrect == Spec => []TypeOK
<1>1. IInv => TypeOK
  BY DEF IInv
<1> QED
  BY <1>1, InitIInv, NextKeeps, PTL DEF Spec

(* A stop is final (family.go, stop.go, the checks of turn.go): whatever   *)
(* was under way below the stopped session, in however many operations, no *)
(* run of it works uncancelled afterwards.                                 *)
THEOREM StopsAreFinal == Spec => []StopsHold
  BY InitIInv, NextKeeps, IInvStopsHold, PTL DEF Spec

-----------------------------------------------------------------------------
(* What a deletion, a Close and a stop leave: EndInv, which needs IInv *)

(* A child on disk is known on disk before it is created. *)
SavedInv ==
  /\ created \subseteq saved
  /\ \A o \in Spawns : pc[o] = "create" => o \in saved

(* What is deleted is out of every relation, and none leads to it again. *)
QuietInv ==
  /\ \A s \in deleted : ~Active(s)
  /\ \A c \in Children : parent[c] \notin deleted
  /\ \A c \in Children : c \in deleted => parent[c] = None
  /\ \A o \in Spawns : pc[o] \in {"idle", "admitted"} => o \notin deleted

(* Close waits for every run of a child: its call is on the way or it is   *)
(* counted in work.                                                        *)
WorkInv ==
  /\ \A o \in Ops : phase[o] \in Occupying /\ pc[o] = "done" => o \in work
  /\ closing = "returned" => /\ \A o \in Ops : ~InFlight(o)
                             /\ \A c \in Children : live[c] = None

(* No stop has reached the turn of an operation that is not doomed: the    *)
(* checks before and after its start find nothing.                         *)
Turning(o) == Related(o) \/ phase[o] \in {"prepare", "starting", "working"}
CleanInv ==
  /\ \A o \in Ops : Turning(o) /\ o \notin doomed /\ closing = "no" => ~Barred(to[o])
  /\ \A o \in Spawns : pc[o] \in {"idle", "admitted"} => ~stopRequested[o]

(* Only what a stop found is marked as stopped or cancelled. *)
MarkInv ==
  /\ \A s \in Sessions : stoppedRun[s] # None => stoppedRun[s] \in doomed
  /\ OnlyTheStopped

(* A message on its way looks at a run that a stop of the message found    *)
(* too, and a run that is over does not come back.                         *)
SteerInv ==
  /\ \A o \in Ops : entered[o] # None => pc[o] = "done" /\ phase[o] = "new"
  /\ \A o \in Ops : pc[o] = "steer" => target[o] # None /\ phase[target[o]] # "new"
  /\ \A o \in Ops : o \in doomed /\ pc[o] = "look" /\ Active(to[o]) => live[to[o]] \in doomed
  /\ \A o \in Ops : o \in doomed /\ pc[o] = "steer" /\ Active(to[o])
       /\ live[to[o]] = target[o] => target[o] \in doomed
  /\ NoCrossing

EndInv == SavedInv /\ QuietInv /\ WorkInv /\ CleanInv /\ MarkInv /\ SteerInv

USE SubagentsAssumption DEF IInv, TypeOK, Ops, Runs, Sessions, Children,
    familyVars, taskVars, opVars, diskVars, closeVars, pastVars, runVars,
    Holds, Related, Before, Unstarted, Active, Occupying, InFlight

LEMMA StartRootEnds ==
  ASSUME IInv, EndInv, NEW s \in Roots, NEW r \in Prompts, TypeOK', StartRoot(r, s)
  PROVE  EndInv'
<1> USE DEF StartRoot, Begin, EndInv
<1>1. SavedInv'
  BY DEF TargetInv, SavedInv
<1>2. QuietInv'
  BY DEF TargetInv, LockInv, RunInv, QuietInv
<1>3. WorkInv'
  BY DEF TargetInv, RunInv, WorkInv
<1>4. CleanInv'
  BY SMTT(30) DEF TargetInv, LockInv, RunInv, CleanInv, Turning, Barred, Stale
<1>5. MarkInv'
  BY DEF TargetInv, RunInv, MarkInv, OnlyTheStopped
<1>6. SteerInv'
  BY SMTT(30) DEF TargetInv, LockInv, RunInv, SteerInv, NoCrossing
<1> QED
  BY <1>1, <1>2, <1>3, <1>4, <1>5, <1>6

LEMMA RunStartedEnds ==
  ASSUME IInv, EndInv, NEW s \in Sessions, NEW r \in Runs, TypeOK', RunStarted(r, s)
  PROVE  EndInv'
<1> USE DEF RunStarted, StopsAtStart, EndInv
<1>1. SavedInv'
  BY DEF TargetInv, SavedInv
<1>2. QuietInv'
  BY DEF TargetInv, LockInv, RunInv, QuietInv
<1>3. WorkInv'
  BY DEF TargetInv, RunInv, WorkInv
<1>4. CleanInv'
  BY SMTT(30) DEF TargetInv, LockInv, RunInv, CleanInv, Turning, Barred, Stale
<1>5. MarkInv'
  <2>1. cancelled' = [cancelled EXCEPT ![r] = @ \/ StopsAtStart(s, r)]
    OBVIOUS
  <2>2. StopsAtStart(s, r) => r \in doomed \/ (r \in Ops /\ closing # "no")
    <3>1. CASE s \in Children
      <4>1. r \in Ops /\ to[r] = s /\ Turning(r)
        BY <3>1 DEF RunInv, Turning
      <4> QED
        BY <3>1, <4>1 DEF CleanInv
    <3>2. CASE s \notin Children
      BY <3>2 DEF MarkInv
    <3> QED
      BY <3>1, <3>2
  <2> HIDE DEF StopsAtStart
  <2> QED
    BY <2>1, <2>2 DEF MarkInv, OnlyTheStopped
<1>6. SteerInv'
  BY SMTT(30) DEF TargetInv, LockInv, RunInv, SteerInv, NoCrossing
<1> QED
  BY <1>1, <1>2, <1>3, <1>4, <1>5, <1>6

LEMMA RunOverEnds ==
  ASSUME IInv, EndInv, NEW s \in Sessions, NEW r \in Runs, TypeOK', RunOver(r, s)
  PROVE  EndInv'
<1> USE DEF RunOver, EndInv
<1>1. SavedInv'
  BY DEF TargetInv, SavedInv
<1>2. QuietInv'
  BY DEF TargetInv, LockInv, RunInv, QuietInv
<1>3. WorkInv'
  BY DEF TargetInv, RunInv, WorkInv
<1>4. CleanInv'
  BY SMTT(30) DEF TargetInv, LockInv, RunInv, CleanInv, Turning, Barred, Stale
<1>5. MarkInv'
  BY DEF TargetInv, RunInv, MarkInv, OnlyTheStopped
<1>6. SteerInv'
  BY SMTT(30) DEF TargetInv, LockInv, RunInv, SteerInv, NoCrossing
<1> QED
  BY <1>1, <1>2, <1>3, <1>4, <1>5, <1>6

LEMMA EndRunEnds ==
  ASSUME IInv, EndInv, NEW s \in Sessions, NEW r \in Runs, TypeOK', EndRun(r, s)
  PROVE  EndInv'
<1> USE DEF EndRun, EndInv
<1>1. SavedInv'
  BY DEF TargetInv, SavedInv
<1>2. QuietInv'
  BY DEF TargetInv, LockInv, RunInv, QuietInv
<1>3. WorkInv'
  BY DEF TargetInv, RunInv, WorkInv
<1>4. CleanInv'
  BY SMTT(30) DEF TargetInv, LockInv, RunInv, CleanInv, Turning, Barred, Stale
<1>5. MarkInv'
  BY DEF TargetInv, RunInv, MarkInv, OnlyTheStopped
<1>6. SteerInv'
  BY SMTT(30) DEF TargetInv, LockInv, RunInv, SteerInv, NoCrossing
<1> QED
  BY <1>1, <1>2, <1>3, <1>4, <1>5, <1>6

LEMMA PrecheckEnds ==
  ASSUME IInv, EndInv, NEW o \in Ops, TypeOK', Precheck(o)
  PROVE  EndInv'
<1> USE DEF Precheck, Finish, Release, Goto, EndInv
<1>1. SavedInv'
  BY DEF TargetInv, SavedInv
<1>2. QuietInv'
  BY DEF TargetInv, LockInv, RunInv, QuietInv
<1>3. WorkInv'
  BY DEF TargetInv, RunInv, WorkInv
<1>4. CleanInv'
  BY SMTT(30) DEF TargetInv, LockInv, RunInv, CleanInv, Turning, Barred, Stale
<1>5. MarkInv'
  BY DEF TargetInv, RunInv, MarkInv, OnlyTheStopped
<1>6. SteerInv'
  BY SMTT(30) DEF TargetInv, LockInv, RunInv, SteerInv, NoCrossing
<1> QED
  BY <1>1, <1>2, <1>3, <1>4, <1>5, <1>6

LEMMA StartRunEnds ==
  ASSUME IInv, EndInv, NEW o \in Ops, TypeOK', StartRun(o)
  PROVE  EndInv'
<1> USE DEF StartRun, Begin, Finish, Release, Goto, EndInv
<1>1. SavedInv'
  BY DEF TargetInv, SavedInv
<1>2. QuietInv'
  BY DEF TargetInv, LockInv, RunInv, QuietInv
<1>3. WorkInv'
  BY DEF TargetInv, RunInv, WorkInv
<1>4. CleanInv'
  BY SMTT(30) DEF TargetInv, LockInv, RunInv, CleanInv, Turning, Barred, Stale
<1>5. MarkInv'
  BY DEF TargetInv, RunInv, MarkInv, OnlyTheStopped
<1>6. SteerInv'
  BY SMTT(30) DEF TargetInv, LockInv, RunInv, SteerInv, NoCrossing
<1> QED
  BY <1>1, <1>2, <1>3, <1>4, <1>5, <1>6

LEMMA StartReturnsEnds ==
  ASSUME IInv, EndInv, NEW o \in Ops, TypeOK', StartReturns(o)
  PROVE  EndInv'
<1> USE DEF StartReturns, Finish, Release, Goto, EndInv
<1>0. \A x \in Sessions : Active(x)' => Active(x) /\ live'[x] = live[x]
  <2>1. phase[o] = "prepare" /\ to[o] \in Children /\ live[to[o]] = o
    BY DEF RunInv, TargetInv
  <2>2. \A r \in Runs : phase'[r] = phase[r] \/ (r = o /\ phase[r] # "over")
    BY <2>1
  <2>3. \A x \in Sessions : live'[x] \in {None, live[x]}
    BY <2>1
  <2> QED
    BY <2>2, <2>3
<1>1. SavedInv'
  BY DEF TargetInv, SavedInv
<1>2. QuietInv'
  <2>1. UNCHANGED <<parent, deleted>> /\ \A q \in Spawns : pc'[q] = pc[q] \/ pc'[q] \in {"done", "postcheck"}
    OBVIOUS
  <2> HIDE DEF Active
  <2> QED
    BY <1>0, <2>1 DEF QuietInv
<1>3. WorkInv'
  BY DEF TargetInv, RunInv, WorkInv
<1>4. CleanInv'
  BY SMTT(30) DEF TargetInv, LockInv, RunInv, CleanInv, Turning, Barred, Stale
<1>5. MarkInv'
  BY DEF TargetInv, RunInv, MarkInv, OnlyTheStopped
<1>6. SteerInv'
  <2>1. UNCHANGED <<entered, target, to, doomed>>
    OBVIOUS
  <2>2. pc[o] = "prepare" /\ \A q \in Ops : q # o => pc'[q] = pc[q]
    OBVIOUS
  <2>3. pc'[o] \in {"done", "postcheck"}
    OBVIOUS
  <2>4. \A r \in Runs : phase'[r] = "new" => phase[r] = "new"
    OBVIOUS
  <2>5. phase[o] # "new" /\ \A q \in Ops : q # o => phase'[q] = phase[q]
    BY DEF RunInv
  <2>6. \A q \in Ops : entered[q] # None => pc[q] = "done"
    BY DEF SteerInv
  <2>7. \A q \in Ops : pc[q] \in {"look", "steer"} => to[q] \in Sessions
    BY DEF TargetInv
  <2> HIDE DEF Active
  <2> QED
    BY <1>0, <2>1, <2>2, <2>3, <2>4, <2>5, <2>6, <2>7 DEF SteerInv, NoCrossing
<1> QED
  BY <1>1, <1>2, <1>3, <1>4, <1>5, <1>6

LEMMA PostcheckEnds ==
  ASSUME IInv, EndInv, NEW o \in Ops, TypeOK', Postcheck(o)
  PROVE  EndInv'
<1> USE DEF Postcheck, Track, Finish, Release, Goto, EndInv
<1>1. SavedInv'
  BY DEF TargetInv, SavedInv
<1>2. QuietInv'
  BY DEF TargetInv, LockInv, RunInv, QuietInv
<1>3. WorkInv'
  BY DEF TargetInv, RunInv, WorkInv
<1>4. CleanInv'
  BY SMTT(30) DEF TargetInv, LockInv, RunInv, CleanInv, Turning, Barred, Stale
<1>5. MarkInv'
  <2>1. Barred(to[o]) => o \in doomed \/ closing # "no"
    BY DEF CleanInv, Turning
  <2>2. cancelled' = [cancelled EXCEPT ![o] = @ \/ (live[to[o]] = o /\ Barred(to[o]))]
    OBVIOUS
  <2> QED
    BY <2>1, <2>2 DEF MarkInv, OnlyTheStopped
<1>6. SteerInv'
  BY SMTT(30) DEF TargetInv, LockInv, RunInv, SteerInv, NoCrossing
<1> QED
  BY <1>1, <1>2, <1>3, <1>4, <1>5, <1>6

LEMMA SpawnAdmittedEnds ==
  ASSUME IInv, EndInv, NEW o \in Spawns, NEW s \in Sessions, NEW r \in Runs, TypeOK', SpawnAdmitted(o, s, r)
  PROVE  EndInv'
<1> USE DEF SpawnAdmitted, Goto, EndInv
<1>1. SavedInv'
  BY DEF TargetInv, SavedInv
<1>2. QuietInv'
  BY DEF TargetInv, LockInv, RunInv, QuietInv
<1>3. WorkInv'
  BY DEF TargetInv, RunInv, WorkInv
<1>4. CleanInv'
  BY SMTT(30) DEF TargetInv, LockInv, RunInv, CleanInv, Turning, Barred, Stale
<1>5. MarkInv'
  BY DEF TargetInv, RunInv, MarkInv, OnlyTheStopped
<1>6. SteerInv'
  BY SMTT(30) DEF TargetInv, LockInv, RunInv, SteerInv, NoCrossing
<1> QED
  BY <1>1, <1>2, <1>3, <1>4, <1>5, <1>6

LEMMA SpawnRefusedEnds ==
  ASSUME IInv, EndInv, NEW o \in Spawns, TypeOK', SpawnRefused(o)
  PROVE  EndInv'
<1> USE DEF SpawnRefused, Goto, EndInv
<1>1. SavedInv'
  BY DEF TargetInv, SavedInv
<1>2. QuietInv'
  BY DEF TargetInv, LockInv, RunInv, QuietInv
<1>3. WorkInv'
  BY DEF TargetInv, RunInv, WorkInv
<1>4. CleanInv'
  BY SMTT(30) DEF TargetInv, LockInv, RunInv, CleanInv, Turning, Barred, Stale
<1>5. MarkInv'
  BY DEF TargetInv, RunInv, MarkInv, OnlyTheStopped
<1>6. SteerInv'
  BY SMTT(30) DEF TargetInv, LockInv, RunInv, SteerInv, NoCrossing
<1> QED
  BY <1>1, <1>2, <1>3, <1>4, <1>5, <1>6

LEMMA PublishEnds ==
  ASSUME IInv, EndInv, NEW o \in Spawns, TypeOK', Publish(o)
  PROVE  EndInv'
<1> USE DEF Publish, Goto, EndInv
<1>1. SavedInv'
  BY DEF TargetInv, SavedInv
<1>2. QuietInv'
  BY DEF TargetInv, LockInv, RunInv, QuietInv, Stale
<1>3. WorkInv'
  BY DEF TargetInv, RunInv, WorkInv
<1>4. CleanInv'
  BY SMTT(30) DEF TargetInv, LockInv, RunInv, CleanInv, Turning, Barred, Stale
<1>5. MarkInv'
  BY DEF TargetInv, RunInv, MarkInv, OnlyTheStopped
<1>6. SteerInv'
  BY SMTT(30) DEF TargetInv, LockInv, RunInv, SteerInv, NoCrossing
<1> QED
  BY <1>1, <1>2, <1>3, <1>4, <1>5, <1>6

LEMMA SaveTaskEnds ==
  ASSUME IInv, EndInv, NEW o \in Spawns, TypeOK', SaveTask(o)
  PROVE  EndInv'
<1> USE DEF SaveTask, Finish, Release, Goto, EndInv
<1>1. SavedInv'
  BY DEF TargetInv, SavedInv
<1>2. QuietInv'
  BY DEF TargetInv, LockInv, RunInv, QuietInv
<1>3. WorkInv'
  BY DEF TargetInv, RunInv, WorkInv
<1>4. CleanInv'
  BY SMTT(30) DEF TargetInv, LockInv, RunInv, CleanInv, Turning, Barred, Stale
<1>5. MarkInv'
  BY DEF TargetInv, RunInv, MarkInv, OnlyTheStopped
<1>6. SteerInv'
  BY SMTT(30) DEF TargetInv, LockInv, RunInv, SteerInv, NoCrossing
<1> QED
  BY <1>1, <1>2, <1>3, <1>4, <1>5, <1>6

LEMMA CreateChildEnds ==
  ASSUME IInv, EndInv, NEW o \in Spawns, TypeOK', CreateChild(o)
  PROVE  EndInv'
<1> USE DEF CreateChild, AfterCreate, Finish, Release, Goto, EndInv
<1>1. SavedInv'
  BY DEF TargetInv, SavedInv
<1>2. QuietInv'
  BY DEF TargetInv, LockInv, RunInv, QuietInv
<1>3. WorkInv'
  BY DEF TargetInv, RunInv, WorkInv
<1>4. CleanInv'
  BY SMTT(30) DEF TargetInv, LockInv, RunInv, CleanInv, Turning, Barred, Stale
<1>5. MarkInv'
  BY DEF TargetInv, RunInv, MarkInv, OnlyTheStopped
<1>6. SteerInv'
  BY SMTT(30) DEF TargetInv, LockInv, RunInv, SteerInv, NoCrossing
<1> QED
  BY <1>1, <1>2, <1>3, <1>4, <1>5, <1>6

LEMMA SendAdmittedEnds ==
  ASSUME IInv, EndInv, NEW o \in Sends, NEW s \in Sessions, NEW c \in Children, NEW r \in Runs \cup {None}, TypeOK', SendAdmitted(o, s, c, r)
  PROVE  EndInv'
<1> USE DEF SendAdmitted, Goto, EndInv
<1>1. SavedInv'
  BY DEF TargetInv, SavedInv
<1>2. QuietInv'
  BY DEF TargetInv, LockInv, RunInv, QuietInv
<1>3. WorkInv'
  BY DEF TargetInv, RunInv, WorkInv
<1>4. CleanInv'
  BY SMTT(30) DEF TargetInv, LockInv, RunInv, CleanInv, Turning, Barred, Stale
<1>5. MarkInv'
  BY DEF TargetInv, RunInv, MarkInv, OnlyTheStopped
<1>6. SteerInv'
  BY SMTT(30) DEF TargetInv, LockInv, RunInv, SteerInv, NoCrossing
<1> QED
  BY <1>1, <1>2, <1>3, <1>4, <1>5, <1>6

LEMMA SendLookEnds ==
  ASSUME IInv, EndInv, NEW o \in Sends, TypeOK', SendLook(o)
  PROVE  EndInv'
<1> USE DEF SendLook, Goto, EndInv
<1>1. SavedInv'
  BY DEF TargetInv, SavedInv
<1>2. QuietInv'
  BY DEF TargetInv, LockInv, RunInv, QuietInv
<1>3. WorkInv'
  BY DEF TargetInv, RunInv, WorkInv
<1>4. CleanInv'
  BY SMTT(30) DEF TargetInv, LockInv, RunInv, CleanInv, Turning, Barred, Stale
<1>5. MarkInv'
  BY DEF TargetInv, RunInv, MarkInv, OnlyTheStopped
<1>6. SteerInv'
  BY SMTT(30) DEF TargetInv, LockInv, RunInv, DoomInv, SteerInv, NoCrossing, Outdated, Stale, Crossed
<1> QED
  BY <1>1, <1>2, <1>3, <1>4, <1>5, <1>6

LEMMA SendBranchEnds ==
  ASSUME IInv, EndInv, NEW o \in Sends, TypeOK', SendBranch(o)
  PROVE  EndInv'
<1> USE DEF SendBranch, Finish, Release, Goto, EndInv
<1>1. SavedInv'
  BY DEF TargetInv, SavedInv
<1>2. QuietInv'
  BY DEF TargetInv, LockInv, RunInv, QuietInv
<1>3. WorkInv'
  BY DEF TargetInv, RunInv, WorkInv
<1>4. CleanInv'
  BY SMTT(30) DEF TargetInv, LockInv, RunInv, CleanInv, Turning, Barred, Stale
<1>5. MarkInv'
  BY DEF TargetInv, RunInv, MarkInv, OnlyTheStopped
<1>6. SteerInv'
  BY SMTT(30) DEF TargetInv, LockInv, RunInv, SteerInv, NoCrossing
<1> QED
  BY <1>1, <1>2, <1>3, <1>4, <1>5, <1>6

LEMMA SteerRunEnds ==
  ASSUME IInv, EndInv, NEW o \in Sends, TypeOK', SteerRun(o)
  PROVE  EndInv'
<1> USE DEF SteerRun, Steers, Goto, EndInv
<1>1. SavedInv'
  BY DEF TargetInv, SavedInv
<1>2. QuietInv'
  BY DEF TargetInv, LockInv, RunInv, QuietInv
<1>3. WorkInv'
  BY DEF TargetInv, RunInv, WorkInv
<1>4. CleanInv'
  BY SMTT(30) DEF TargetInv, LockInv, RunInv, CleanInv, Turning, Barred, Stale
<1>5. MarkInv'
  BY DEF TargetInv, RunInv, MarkInv, OnlyTheStopped
<1>6. SteerInv'
  BY SMTT(30) DEF TargetInv, LockInv, RunInv, SteerInv, NoCrossing
<1> QED
  BY <1>1, <1>2, <1>3, <1>4, <1>5, <1>6

LEMMA SendRecheckEnds ==
  ASSUME IInv, EndInv, NEW o \in Sends, TypeOK', SendRecheck(o)
  PROVE  EndInv'
<1> USE DEF SendRecheck, MayRevive, Finish, Release, Goto, EndInv
<1>1. SavedInv'
  BY DEF TargetInv, SavedInv
<1>2. QuietInv'
  BY DEF TargetInv, LockInv, RunInv, QuietInv
<1>3. WorkInv'
  BY DEF TargetInv, RunInv, WorkInv
<1>4. CleanInv'
  BY SMTT(30) DEF TargetInv, LockInv, RunInv, CleanInv, Turning, Barred, Stale
<1>5. MarkInv'
  BY DEF TargetInv, RunInv, MarkInv, OnlyTheStopped
<1>6. SteerInv'
  BY SMTT(30) DEF TargetInv, LockInv, RunInv, SteerInv, NoCrossing
<1> QED
  BY <1>1, <1>2, <1>3, <1>4, <1>5, <1>6

LEMMA CloseBeginsEnds ==
  ASSUME IInv, EndInv, TypeOK', CloseBegins
  PROVE  EndInv'
<1> USE DEF CloseBegins, EndInv
<1>1. SavedInv'
  BY DEF TargetInv, SavedInv
<1>2. QuietInv'
  BY DEF TargetInv, LockInv, RunInv, QuietInv
<1>3. WorkInv'
  BY DEF TargetInv, RunInv, WorkInv
<1>4. CleanInv'
  BY SMTT(30) DEF TargetInv, LockInv, RunInv, CleanInv, Turning, Barred, Stale
<1>5. MarkInv'
  BY DEF TargetInv, RunInv, MarkInv, OnlyTheStopped
<1>6. SteerInv'
  BY SMTT(30) DEF TargetInv, LockInv, RunInv, SteerInv, NoCrossing
<1> QED
  BY <1>1, <1>2, <1>3, <1>4, <1>5, <1>6

LEMMA CloseReturnsEnds ==
  ASSUME IInv, EndInv, TypeOK', CloseReturns
  PROVE  EndInv'
<1> USE DEF CloseReturns, EndInv
<1>1. SavedInv'
  BY DEF TargetInv, SavedInv
<1>2. QuietInv'
  BY DEF TargetInv, LockInv, RunInv, QuietInv
<1>3. WorkInv'
  BY DEF TargetInv, RunInv, WorkInv
<1>4. CleanInv'
  BY SMTT(30) DEF TargetInv, LockInv, RunInv, CleanInv, Turning, Barred, Stale
<1>5. MarkInv'
  BY DEF TargetInv, RunInv, MarkInv, OnlyTheStopped
<1>6. SteerInv'
  BY SMTT(30) DEF TargetInv, LockInv, RunInv, SteerInv, NoCrossing
<1> QED
  BY <1>1, <1>2, <1>3, <1>4, <1>5, <1>6

LEMMA DeletionEnds ==
  ASSUME IInv, EndInv, NEW s \in Roots, TypeOK', ReserveDeletion(s)
  PROVE  EndInv'
<1> USE DEF EndInv
<1> DEFINE gone == Descendants(s)
<1>1. \A c \in Children : c \in gone => parent[c] \in gone /\ lock[c] = None /\ ~Active(c)
  BY DescendantsParent DEF ReserveDeletion, Below
<1>2. \A c \in Children : parent[c] \in gone => c \in gone
  BY DescendantsClosed DEF ClosedBelow
<1>3. /\ \A c \in Children : parent'[c] = IF c \in gone THEN None ELSE parent[c]
      /\ \A x \in Sessions : x \notin gone => generation'[x] = generation[x] /\ stoppedRun'[x] = stoppedRun[x]
      /\ \A x \in Sessions : x \in gone => stoppedRun'[x] = None
      /\ deleted' = deleted \cup gone /\ created' = created \ gone /\ saved' = saved \ gone
      /\ \A x \in Sessions : x \in gone => ~Active(x)
  BY DEF ReserveDeletion
<1>4. UNCHANGED <<admission, stopRequested, stopGeneration, lock, runVars, opVars, closeVars, pastVars>>
  BY DEF ReserveDeletion
<1>5. gone \subseteq Sessions
  BY DEF Descendants
<1>6. \A o \in Ops : Holds(o) => to[o] \notin gone
  BY <1>1 DEF LockInv, TargetInv
<1> HIDE DEF gone
<1>7. \A o \in Ops : Turning(o) => /\ to[o] \in Children /\ to[o] \notin gone
                                  /\ parent[to[o]] \in Sessions /\ parent[to[o]] \notin gone
  <2> SUFFICES ASSUME NEW o \in Ops, Turning(o)
               PROVE  /\ to[o] \in Children /\ to[o] \notin gone
                      /\ parent[to[o]] \in Sessions /\ parent[to[o]] \notin gone
    OBVIOUS
  <2>1. CASE Related(o)
    BY <1>2, <1>6, <2>1 DEF LockInv, TargetInv
  <2>2. CASE phase[o] \in {"prepare", "starting", "working"}
    <3>1. pc[o] # "idle" /\ live[to[o]] = o /\ to[o] \in Children
      BY <2>2 DEF RunInv, TargetInv
    <3>2. Active(to[o])
      BY <2>2, <3>1
    <3> QED
      BY <1>1, <1>2, <3>1, <3>2 DEF RunInv
  <2> QED
    BY <2>1, <2>2 DEF Turning
<1>8. SavedInv'
  BY <1>3, <1>4, <1>6 DEF TargetInv, SavedInv
<1>9. QuietInv'
  BY <1>1, <1>2, <1>3, <1>4, <1>5 DEF TargetInv, QuietInv
<1>10. WorkInv'
  BY <1>4 DEF WorkInv
<1>11. CleanInv'
  <2>1. \A o \in Ops : Turning(o)' = Turning(o)
    BY <1>4 DEF Turning
  <2>2. \A o \in Ops : Turning(o) => Barred(to[o])' = Barred(to[o])
    BY <1>3, <1>4, <1>7 DEF Barred, Stale
  <2> QED
    BY <1>4, <2>1, <2>2 DEF CleanInv
<1>12. MarkInv' /\ SteerInv'
  BY <1>3, <1>4 DEF MarkInv, SteerInv, OnlyTheStopped, NoCrossing
<1> QED
  BY <1>8, <1>9, <1>10, <1>11, <1>12

LEMMA StopEnds ==
  ASSUME IInv, EndInv, TypeOK', NEW s \in Sessions, Stopping, Doom(Descendants(s)), NEW tasks,
         tasks \subseteq {s} \cup Below(Descendants(s)),
         s \in Children => parent[s] # None,
         StopTree(Descendants(s), tasks)
  PROVE  EndInv'
<1> USE DEF EndInv
<1> DEFINE T == Descendants(s)
<1>1. UNCHANGED <<parent, admission, lock, deleted, live, phase, opVars, diskVars, closeVars, entered>>
  BY DEF Stopping
<1>2. \A x \in Sessions : /\ x \notin T => generation'[x] = generation[x]
                          /\ stoppedRun'[x] = IF x \in T /\ Active(x) THEN live[x] ELSE stoppedRun[x]
  BY DEF StopTree
<1>3. \A c \in Children : c \notin tasks => stopRequested'[c] = stopRequested[c]
  BY DEF StopTree
<1>4. \A r \in Runs : cancelled'[r] <=> cancelled[r] \/ \E x \in T : live[x] = r /\ Active(x)
  BY DEF StopTree
<1>5. doomed' = doomed \cup {r \in Runs : \E x \in T : live[x] = r /\ Active(x)}
                     \cup {o \in Ops : InFlight(o) /\ (from[o] \in T \/ to[o] \in T)}
  BY DEF Doom
<1>6. \A c \in Children : parent[c] \in T => c \in T
  BY DescendantsClosed DEF ClosedBelow
<1>7. tasks \subseteq T
  BY <1>6, DescendantsSelf DEF Below
<1>8. \A c \in Children : c \in tasks => parent[c] # None
  BY DEF Below, Descendants
<1>9. T \subseteq Sessions
  BY DEF Descendants
<1> HIDE DEF T
<1>10. SavedInv' /\ QuietInv' /\ WorkInv'
  BY <1>1 DEF SavedInv, QuietInv, WorkInv
<1>11. CleanInv'
  <2>1. ASSUME NEW o \in Ops, Turning(o), o \notin doomed'
        PROVE  /\ to[o] \in Children /\ to[o] \notin T
               /\ parent[to[o]] \in Sessions /\ parent[to[o]] \notin T
    <3>1. CASE Related(o)
      BY <1>5, <1>6, <2>1, <3>1 DEF LockInv, TargetInv
    <3>2. CASE phase[o] \in {"prepare", "starting", "working"}
      <4>1. pc[o] # "idle" /\ live[to[o]] = o /\ to[o] \in Children
        BY <3>2 DEF RunInv, TargetInv
      <4>2. Active(to[o])
        BY <3>2, <4>1
      <4> QED
        BY <1>5, <1>6, <2>1, <4>1, <4>2 DEF RunInv
    <3> QED
      BY <2>1, <3>1, <3>2 DEF Turning
  <2>2. \A o \in Ops : Turning(o)' = Turning(o)
    BY <1>1 DEF Turning
  <2>3. \A o \in Ops : Turning(o) /\ o \notin doomed' => Barred(to[o])' = Barred(to[o])
    BY <1>1, <1>2, <1>3, <1>7, <2>1 DEF Barred, Stale
  <2>4. doomed \subseteq doomed'
    BY <1>5
  <2>5. \A o \in Spawns : pc[o] \in {"idle", "admitted"} => o \notin tasks
    BY <1>8 DEF TargetInv
  <2> QED
    BY <1>1, <1>3, <2>2, <2>3, <2>4, <2>5 DEF CleanInv
<1>12. MarkInv'
  <2>1. \A x \in Sessions : stoppedRun'[x] # None => stoppedRun'[x] \in doomed'
    BY <1>2, <1>5 DEF MarkInv
  <2>2. \A r \in Runs : cancelled'[r] => r \in doomed' \/ (r \in Ops /\ closing' # "no")
    BY <1>1, <1>4, <1>5 DEF MarkInv, OnlyTheStopped
  <2> QED
    BY <2>1, <2>2 DEF MarkInv, OnlyTheStopped
<1>13. SteerInv'
  <2>1. \A o \in Ops : o \in doomed' \ doomed =>
          \/ entered[o] = None /\ (from[o] \in T \/ to[o] \in T)
          \/ entered[o] = None /\ pc[o] \notin {"look", "steer"}
    <3> SUFFICES ASSUME NEW o \in Ops, o \in doomed' \ doomed
                 PROVE  \/ entered[o] = None /\ (from[o] \in T \/ to[o] \in T)
                        \/ entered[o] = None /\ pc[o] \notin {"look", "steer"}
      OBVIOUS
    <3>1. CASE InFlight(o) /\ (from[o] \in T \/ to[o] \in T)
      BY <3>1 DEF SteerInv
    <3>2. CASE \E x \in T : live[x] = o /\ Active(x)
      <4>1. phase[o] # "new"
        BY <1>9, <3>2 DEF RunInv
      <4> QED
        BY <4>1 DEF RunInv, SteerInv
    <3> QED
      BY <1>5, <3>1, <3>2
  <2>2. \A o \in Ops : pc[o] \in {"look", "steer"} /\ Active(to[o]) /\ (from[o] \in T \/ to[o] \in T)
          => live[to[o]] \in doomed'
    <3> SUFFICES ASSUME NEW o \in Ops, pc[o] \in {"look", "steer"}, Active(to[o]),
                        from[o] \in T \/ to[o] \in T
                 PROVE  live[to[o]] \in doomed'
      OBVIOUS
    <3>1. to[o] \in Children /\ parent[to[o]] = from[o]
      BY DEF TargetInv, RunInv
    <3> QED
      BY <1>5, <1>6, <3>1
  <2> QED
    BY <1>1, <1>5, <2>1, <2>2 DEF SteerInv, NoCrossing
<1> QED
  BY <1>10, <1>11, <1>12, <1>13

HIDE SubagentsAssumption DEF IInv, TypeOK, Ops, Runs, Sessions, Children,
     familyVars, taskVars, opVars, diskVars, closeVars, pastVars, runVars,
     Holds, Related, Before, Unstarted, Active, Occupying, InFlight

LEMMA StopStepEnds ==
  ASSUME IInv, EndInv, TypeOK', StopStep
  PROVE  EndInv'
<1>1. CASE \E s \in Roots : StopFamily(s)
  <2>1. PICK s \in Roots : StopFamily(s)
    BY <1>1
  <2>2. s \in Sessions /\ s \notin Children
    BY SubagentsAssumption DEF Sessions
  <2> QED
    BY <2>1, <2>2, StopEnds DEF StopFamily, Visited
<1>2. CASE \E c \in Children : StopTask(c)
  <2>1. PICK c \in Children : StopTask(c)
    BY <1>2
  <2>2. c \in Sessions
    BY DEF Sessions
  <2> DEFINE tasks == {c} \cup Below(Descendants(c))
  <2>3. /\ parent[c] # None /\ Stopping /\ Doom(Descendants(c))
        /\ StopTree(Descendants(c), tasks)
    BY <2>1 DEF StopTask, Visited, Target
  <2>4. tasks \subseteq {c} \cup Below(Descendants(c))
    OBVIOUS
  <2> HIDE DEF tasks
  <2> QED
    BY <2>2, <2>3, <2>4, StopEnds
<1> QED
  BY <1>1, <1>2 DEF StopStep

LEMMA InitEndInv == Init => EndInv
<1> SUFFICES ASSUME Init PROVE EndInv
  OBVIOUS
<1> USE SubagentsAssumption DEF Init, Ops, Runs, Sessions, Children
<1>1. SavedInv /\ QuietInv /\ WorkInv
  BY DEF SavedInv, QuietInv, WorkInv, Active, Occupying
<1>2. CleanInv /\ MarkInv /\ SteerInv
  BY DEF CleanInv, MarkInv, SteerInv, Turning, Related, OnlyTheStopped, NoCrossing
<1> QED
  BY <1>1, <1>2 DEF EndInv

LEMMA StepEnds ==
  ASSUME IInv, EndInv, Next, TypeOK'
  PROVE  EndInv'
<1>0. TypeOK
  BY DEF IInv
<1>1. CASE RunStep
  <2>1. CASE \E s \in Busy :
               RunStarted(live[s], s) \/ RunOver(live[s], s) \/ EndRun(live[s], s)
    BY <1>0, <2>1, BusyRuns, RunStartedEnds, RunOverEnds, EndRunEnds
  <2> QED
    BY <1>1, <2>1, StartRootEnds DEF RunStep
<1>2. CASE TurnStep
  BY <1>2, PrecheckEnds, StartRunEnds, StartReturnsEnds, PostcheckEnds DEF TurnStep
<1>3. CASE SpawnStep
  <2>1. PICK o \in Spawns :
          \/ \E s \in Busy : SpawnAdmitted(o, s, live[s])
          \/ Publish(o) \/ SpawnRefused(o) \/ SaveTask(o) \/ CreateChild(o)
    BY <1>3 DEF SpawnStep
  <2>2. CASE \E s \in Busy : SpawnAdmitted(o, s, live[s])
    BY <1>0, <2>2, BusyRuns, SpawnAdmittedEnds
  <2> QED
    BY <2>1, <2>2, SpawnRefusedEnds, PublishEnds, SaveTaskEnds, CreateChildEnds
<1>4. CASE SendStep
  <2>1. PICK o \in Sends :
          \/ \E c \in Known : \E r \in {None, live[parent[c]]} : SendAdmitted(o, parent[c], c, r)
          \/ SendLook(o) \/ SendBranch(o) \/ SteerRun(o) \/ SendRecheck(o)
    BY <1>4 DEF SendStep
  <2>2. CASE \E c \in Known : \E r \in {None, live[parent[c]]} : SendAdmitted(o, parent[c], c, r)
    BY <1>0, <2>2, KnownParents, SendAdmittedEnds
  <2> QED
    BY <2>1, <2>2, SendLookEnds, SendBranchEnds, SteerRunEnds, SendRecheckEnds
<1>5. CASE StopStep
  BY <1>5, StopStepEnds
<1>6. CASE (\E s \in Roots : ReserveDeletion(s)) \/ CloseBegins \/ CloseReturns
  BY <1>6, DeletionEnds, CloseBeginsEnds, CloseReturnsEnds
<1> QED
  BY <1>1, <1>2, <1>3, <1>4, <1>5, <1>6 DEF Next

LEMMA NextEnds == IInv /\ EndInv /\ [Next]_vars => EndInv'
<1> SUFFICES ASSUME IInv, EndInv, [Next]_vars PROVE EndInv'
  OBVIOUS
<1>1. TypeOK'
  BY NextTypes DEF IInv
<1>2. CASE Next
  BY <1>1, <1>2, StepEnds
<1>3. CASE UNCHANGED vars
  <2>1. UNCHANGED <<taskVars, lock, familyVars, runVars, opVars, diskVars, closeVars, pastVars>>
    BY <1>3 DEF vars
  <2> USE DEF taskVars, familyVars, runVars, opVars, diskVars, closeVars, pastVars
  <2>2. SavedInv' /\ QuietInv' /\ WorkInv'
    BY <2>1 DEF EndInv, SavedInv, QuietInv, WorkInv, Active, InFlight
  <2>3. CleanInv' /\ MarkInv' /\ SteerInv'
    BY <2>1 DEF EndInv, CleanInv, MarkInv, SteerInv, Turning, Related, Barred, Stale, Active,
                OnlyTheStopped, NoCrossing
  <2> QED
    BY <2>2, <2>3 DEF EndInv
<1> QED
  BY <1>2, <1>3

(* A stop reaches its family and nothing else, for every family, however   *)
(* deep, and every number of operations (stop.go, send.go, spawn.go,       *)
(* turn.go): what it cancels was under way below the stopped session, a    *)
(* message sent before it is not taken up by a turn begun after it, and a  *)
(* child session on disk has its relation on disk and in memory.           *)
THEOREM FamiliesStayApart == Spec => []FamiliesApart
<1>1. IInv /\ EndInv => FamiliesApart
  BY DEF IInv, LockInv, EndInv, MarkInv, SteerInv, SavedInv, FamiliesApart, ChildrenAreNoRoots
<1> QED
  BY <1>1, InitIInv, InitEndInv, NextKeeps, NextEnds, PTL DEF Spec

(* A deletion leaves nothing at work in the sessions it takes and lets     *)
(* nothing be attached to them, though calls admitted before it are still  *)
(* on their way; when Close has returned, no operation and no run of a     *)
(* child is left (delete.go, subagents.go, turn.go trackRun).              *)
THEOREM EndsStayFinal == Spec => []EndsAreFinal
<1>1. IInv /\ EndInv => EndsAreFinal
  BY DEF EndInv, QuietInv, WorkInv, EndsAreFinal, DeletedIsQuiet, ClosedDrains, Below
<1> QED
  BY <1>1, InitIInv, InitEndInv, NextKeeps, NextEnds, PTL DEF Spec
=============================================================================

------------------------------ MODULE Subagents ------------------------------
(***************************************************************************)
(* Delegation and family stop: internal/subagents family.go, spawn.go,     *)
(* send.go, turn.go, stop.go, delete.go, and the closing of subagents.go.  *)
(*                                                                         *)
(* A run of a session may spawn a child session and send it messages, and  *)
(* so may the user.  Each such operation is admitted under s.mu with a     *)
(* permit, and then takes many steps: it waits for the task, writes files, *)
(* starts a run.  Stop reaches a session and everything below it at any    *)
(* moment; it waits for nobody, but makes every permit given before stale. *)
(*                                                                         *)
(* Fresh identities are named after the call that draws them: the task of  *)
(* a Spawn and its child session are one and carry the name of the Spawn,  *)
(* a run carries the name of the Spawn or Send that starts it.  Of the     *)
(* Runner only what this service sees is kept: a session is occupied from  *)
(* begin to release, a stop cancels the run in between (Runner has it in   *)
(* full).  One action is one critical section of s.mu, one file, or one    *)
(* call of the Runner.                                                     *)
(***************************************************************************)
EXTENDS Naturals, FiniteSets

CONSTANTS
  Roots,     (* conversations                                              *)
  Prompts,   (* runs of roots, started by conversations.Send               *)
  Spawns,    (* calls of Spawn, and the child sessions they create         *)
  Sends,     (* calls of Send and SendFromUser                             *)
  MaxDepth,  (* maxDelegationDepth                                         *)
  MaxCalls,  (* bound: how often roots are started, operations called,     *)
             (* sessions or tasks stopped, roots deleted and the service   *)
             (* closed, all in all                                         *)
  None       (* no session, no run, no operation                           *)

Children == Spawns
Sessions == Roots \cup Children
Ops == Spawns \cup Sends
Runs == Prompts \cup Ops

ASSUME SubagentsAssumption ==
  /\ Roots \cap Children = {}
  /\ Spawns \cap Sends = {}
  /\ Prompts \cap Ops = {}
  /\ None \notin Sessions \cup Runs
  /\ MaxDepth \in Nat
  /\ MaxCalls \in Nat

VARIABLES
  parent,          (* TaskRecord.ParentSessionID of the tasks in s.coords  *)
  admission,       (* coord.admission, without its parent: that is parent  *)
  stopRequested,   (* coord.stopRequested                                  *)
  stopGeneration,  (* coord.stopGeneration                                 *)
  lock,            (* who holds coord.mu                                   *)
  generation,      (* familyState.generation                               *)
  stoppedRun,      (* familyState.stoppedRunID                             *)
  deleted,         (* s.deletedSessions                                    *)
  closing,         (* s.ctx is cancelled; Close has returned               *)
  work,            (* the runs trackRun waits for                          *)
  live,            (* Runner.live                                          *)
  phase,           (* how far a run has come; "over": RunEnded has its     *)
                   (* number, liveRun.ended                                *)
  cancelled,       (* the run's context is cancelled                       *)
  pc,              (* how far an operation has come                        *)
  from,            (* its parent session                                   *)
  to,              (* its task                                             *)
  permit,          (* what it was admitted with                            *)
  target,          (* the run a message is to be steered into              *)
  saved,           (* the relations in subagents/tasks                     *)
  created,         (* the child sessions on disk                           *)
  doomed,          (* history: what was under way below a stop             *)
  entered,         (* history: the run a message was steered into          *)
  stops            (* how many stops there were                            *)

taskVars   == <<parent, admission, stopRequested, stopGeneration>>
familyVars == <<generation, stoppedRun, deleted>>
runVars    == <<live, phase, cancelled>>
opVars     == <<pc, from, to, permit, target>>
diskVars   == <<saved, created>>
closeVars  == <<closing, work>>
pastVars   == <<doomed, entered, stops>>
vars == <<taskVars, lock, familyVars, runVars, opVars, diskVars, closeVars, pastVars>>

Phases == {"new", "prepare", "starting", "working", "over", "ended"}
Steps == {"idle", "admitted", "save", "create", "look", "lookStopped", "steer",
          "recheck", "precheck", "start", "prepare", "postcheck", "done"}
Permits == [run : Runs \cup {None}, generation : Nat, stopGeneration : Nat]

-----------------------------------------------------------------------------
(* Helpers *)

(* s and the sessions below it: the smallest set that contains s and the   *)
(* children of its members.                                                *)
ClosedBelow(T) == \A c \in Children : parent[c] \in T => c \in T
Descendants(s) ==
  {x \in Sessions : \A T \in SUBSET Sessions : s \in T /\ ClosedBelow(T) => x \in T}

(* sessionDepthLocked: how many relations lead up from s. *)
Depth(s) ==
  LET up[x \in Sessions] ==
        IF x \in Children /\ parent[x] # None THEN 1 + up[parent[x]] ELSE 0
  IN  up[s]

(* Runner.State: a run that has announced its end still occupies its       *)
(* session, but is not active any more.                                    *)
Active(s) == live[s] # None /\ phase[live[s]] # "over"

InFlight(o) == pc[o] \notin {"idle", "done"}
Calls == Cardinality({o \in Ops : pc[o] # "idle"})
         + Cardinality({r \in Prompts : phase[r] # "new"})
         + Cardinality(deleted \cap Roots) + stops
         + (IF closing = "no" THEN 0 ELSE 1)
Goto(o, step) == pc' = [pc EXCEPT ![o] = step]

(* A mutation puts an operator named Op_Fault in the place of Op; no       *)
(* specification uses it.                                                  *)
MayDelegate(s) == Depth(s) < MaxDepth

(* admissionErrorLocked *)
Stale_Undeleted(s, p) ==
  \/ closing # "no"
  \/ generation[s] # p.generation
  \/ p.run # None /\ stoppedRun[s] = p.run
Stale_SameRun(s, p) ==
  \/ closing # "no"
  \/ s \in deleted
  \/ p.run # None /\ stoppedRun[s] = p.run
Stale(s, p) ==
  \/ closing # "no"
  \/ s \in deleted
  \/ generation[s] # p.generation
  \/ p.run # None /\ stoppedRun[s] = p.run

(* childStartError, and the same test in onRunStarted *)
Barred(c) == Stale(parent[c], admission[c]) \/ stopRequested[c]

-----------------------------------------------------------------------------
Init ==
  /\ parent = [c \in Children |-> None]
  /\ admission = [c \in Children |-> [run |-> None, generation |-> 0, stopGeneration |-> 0]]
  /\ stopRequested = [c \in Children |-> FALSE]
  /\ stopGeneration = [c \in Children |-> 0]
  /\ lock = [c \in Children |-> None]
  /\ generation = [s \in Sessions |-> 0]
  /\ stoppedRun = [s \in Sessions |-> None]
  /\ deleted = {}
  /\ closing = "no"
  /\ work = {}
  /\ live = [s \in Sessions |-> None]
  /\ phase = [r \in Runs |-> "new"]
  /\ cancelled = [r \in Runs |-> FALSE]
  /\ pc = [o \in Ops |-> "idle"]
  /\ from = [o \in Ops |-> None]
  /\ to = [o \in Ops |-> IF o \in Spawns THEN o ELSE None]
  /\ permit = [o \in Ops |-> [run |-> None, generation |-> 0, stopGeneration |-> 0]]
  /\ target = [o \in Ops |-> None]
  /\ saved = {}
  /\ created = {}
  /\ doomed = {}
  /\ entered = [o \in Ops |-> None]
  /\ stops = 0

-----------------------------------------------------------------------------
(* Runs, as far as this service sees them *)

(* Runner.begin; a child's context descends from s.ctx.  The preparation of *)
(* a child's run matters, as its caller waits for it.                       *)
Begin(r, s) ==
  /\ live' = [live EXCEPT ![s] = r]
  /\ phase' = [phase EXCEPT ![r] = IF r \in Ops THEN "prepare" ELSE "starting"]
  /\ cancelled' = [cancelled EXCEPT ![r] = r \in Ops /\ closing # "no"]

(* conversations.Send on an idle root.  A child session is none of its     *)
(* business, and neither is a deleted root.                                *)
StartRoot(r, s) ==
  /\ phase[r] = "new" /\ Calls < MaxCalls
  /\ live[s] = None /\ s \notin deleted
  /\ Begin(r, s)
  /\ UNCHANGED <<taskVars, lock, familyVars, opVars, diskVars, closeVars, pastVars>>

(* onRunStarted, the last check before the first request of the run.  Once *)
(* closing has unsubscribed it nobody checks; the context is cancelled.    *)
StopsAtStart_Never(s, r) == FALSE
StopsAtStart(s, r) ==
  IF s \in Children THEN Barred(s) ELSE stoppedRun[s] = r
RunStarted(r, s) ==
  /\ live[s] = r /\ phase[r] = "starting"
  /\ phase' = [phase EXCEPT ![r] = "working"]
  /\ cancelled' = [cancelled EXCEPT ![r] = @ \/ StopsAtStart(s, r)]
  /\ UNCHANGED <<taskVars, lock, familyVars, live, opVars, diskVars, closeVars, pastVars>>

(* The numbering of RunEnded, which a run that was announced owes. *)
RunOver(r, s) ==
  /\ live[s] = r /\ phase[r] = "working"
  /\ phase' = [phase EXCEPT ![r] = "over"]
  /\ UNCHANGED <<taskVars, lock, familyVars, live, cancelled, opVars, diskVars, closeVars, pastVars>>

(* release, after its end is announced or because it fails before its      *)
(* start is.                                                               *)
EndRun(r, s) ==
  /\ live[s] = r
  /\ phase[r] \in {"starting", "over"}
  /\ phase' = [phase EXCEPT ![r] = "ended"]
  /\ live' = [live EXCEPT ![s] = None]
  /\ UNCHANGED <<taskVars, lock, familyVars, cancelled, opVars, diskVars, closeVars, pastVars>>

-----------------------------------------------------------------------------
(* The common end of Spawn and Send: startTurn, with coord.mu held *)

Release(o) == lock' = [lock EXCEPT ![to[o]] = None]
Finish(o) == Goto(o, "done") /\ Release(o)

(* The first childStartError. *)
Precheck(o) ==
  /\ pc[o] = "precheck"
  /\ IF Barred(to[o]) THEN Finish(o) ELSE Goto(o, "start") /\ UNCHANGED lock
  /\ UNCHANGED <<taskVars, familyVars, runVars, from, to, permit, target, diskVars, closeVars, pastVars>>

(* Runner.Start as far as begin; s.ctx may end between its test and begin. *)
StartRun(o) ==
  /\ pc[o] = "start"
  /\ \/ /\ closing # "no" \/ live[to[o]] # None
        /\ Finish(o) /\ UNCHANGED runVars
     \/ /\ live[to[o]] = None
        /\ Goto(o, "prepare") /\ Begin(o, to[o]) /\ UNCHANGED lock
  /\ UNCHANGED <<taskVars, familyVars, from, to, permit, target, diskVars, closeVars, pastVars>>

(* Runner.Start returns: the preparation failed, as it must if the run was *)
(* cancelled meanwhile, or the goroutine of the run is under way.          *)
StartReturns(o) ==
  /\ pc[o] = "prepare"
  /\ \/ /\ phase' = [phase EXCEPT ![o] = "ended"]
        /\ live' = [live EXCEPT ![to[o]] = None]
        /\ Finish(o)
     \/ /\ ~cancelled[o]
        /\ phase' = [phase EXCEPT ![o] = "starting"]
        /\ Goto(o, "postcheck")
        /\ UNCHANGED <<live, lock>>
  /\ UNCHANGED <<taskVars, familyVars, cancelled, from, to, permit, target, diskVars, closeVars, pastVars>>

(* trackRun and the second childStartError; StopRun cancels only this run. *)
Track_Nothing(o) == UNCHANGED work
Track(o) == work' = work \cup {o}
Postcheck(o) ==
  /\ pc[o] = "postcheck"
  /\ Track(o)
  /\ cancelled' = [cancelled EXCEPT ![o] = @ \/ (live[to[o]] = o /\ Barred(to[o]))]
  /\ Finish(o)
  /\ UNCHANGED <<taskVars, familyVars, live, phase, from, to, permit, target, diskVars, closing, pastVars>>

-----------------------------------------------------------------------------
(* Spawn *)

(* The depth is checked and then the permit given; what is read of the     *)
(* depth never changes while a run of the parent is live.                  *)
SpawnAdmitted(o, s, r) ==
  /\ pc[o] = "idle" /\ Calls < MaxCalls /\ closing = "no"
  /\ live[s] = r /\ phase[r] = "working"
  /\ s \notin deleted /\ stoppedRun[s] # r
  /\ MayDelegate(s)
  /\ Goto(o, "admitted")
  /\ from' = [from EXCEPT ![o] = s]
  /\ permit' = [permit EXCEPT ![o] =
       [run |-> r, generation |-> generation[s], stopGeneration |-> 0]]
  /\ UNCHANGED <<taskVars, lock, familyVars, runVars, to, target, diskVars, closeVars, pastVars>>

(* The settings of the child are wrong, or the permit is stale. *)
SpawnRefused(o) ==
  /\ pc[o] = "admitted"
  /\ Goto(o, "done")
  /\ UNCHANGED <<taskVars, lock, familyVars, runVars, from, to, permit, target, diskVars, closeVars, pastVars>>

(* The relation is known from here on, its task locked. *)
Publish(o) ==
  /\ pc[o] = "admitted" /\ ~Stale(from[o], permit[o])
  /\ Goto(o, "save")
  /\ parent' = [parent EXCEPT ![o] = from[o]]
  /\ admission' = [admission EXCEPT ![o] = permit[o]]
  /\ lock' = [lock EXCEPT ![o] = o]
  /\ UNCHANGED <<stopRequested, stopGeneration, familyVars, runVars, from, to, permit, target,
                 diskVars, closeVars, pastVars>>

(* saveTask; if it fails the relation is forgotten. *)
SaveTask(o) ==
  /\ pc[o] = "save"
  /\ \/ /\ saved' = saved \cup {to[o]}
        /\ Goto(o, "create")
        /\ UNCHANGED <<parent, lock>>
     \/ /\ parent' = [parent EXCEPT ![to[o]] = None]
        /\ Finish(o)
        /\ UNCHANGED saved
  /\ UNCHANGED <<admission, stopRequested, stopGeneration, familyVars, runVars, from, to,
                 permit, target, created, closeVars, pastVars>>

(* sessions.Create and settings.Put; a failure of either leaves the        *)
(* relation, and a failure of the second the session too.                  *)
AfterCreate_Forget(o) == parent' = [parent EXCEPT ![to[o]] = None]
AfterCreate(o) == UNCHANGED parent
CreateChild(o) ==
  /\ pc[o] = "create"
  /\ \/ created' = created \cup {to[o]} /\ Goto(o, "precheck") /\ UNCHANGED <<lock, parent>>
     \/ created' = created \cup {to[o]} /\ Finish(o) /\ AfterCreate(o)
     \/ UNCHANGED created /\ Finish(o) /\ AfterCreate(o)
  /\ UNCHANGED <<admission, stopRequested, stopGeneration, familyVars, runVars, from, to,
                 permit, target, saved, closeVars, pastVars>>

-----------------------------------------------------------------------------
(* Send, and SendFromUser (r = None) *)

(* beginSend *)
SendAdmitted(o, s, c, r) ==
  /\ pc[o] = "idle" /\ Calls < MaxCalls /\ closing = "no"
  /\ parent[c] = s
  /\ r # None => stoppedRun[s] # r /\ live[s] = r /\ phase[r] = "working"
  /\ Goto(o, "admitted")
  /\ from' = [from EXCEPT ![o] = s]
  /\ to' = [to EXCEPT ![o] = c]
  /\ permit' = [permit EXCEPT ![o] =
       [run |-> r, generation |-> generation[s], stopGeneration |-> stopGeneration[c]]]
  /\ UNCHANGED <<taskVars, lock, familyVars, runVars, target, diskVars, closeVars, pastVars>>

Crossed(o) == stopGeneration[to[o]] # permit[o].stopGeneration

(* sendAccepted: with coord.mu, the tests under s.mu. *)
SendLook(o) ==
  /\ pc[o] = "admitted" /\ lock[to[o]] = None
  /\ IF Stale(from[o], permit[o]) \/ Crossed(o)
     THEN Goto(o, "done") /\ UNCHANGED lock
     ELSE /\ Goto(o, IF stopRequested[to[o]] THEN "lookStopped" ELSE "look")
          /\ lock' = [lock EXCEPT ![to[o]] = o]
  /\ UNCHANGED <<taskVars, familyVars, runVars, from, to, permit, target, diskVars, closeVars, pastVars>>

(* Runner.State: a child at work is steered, with the task unlocked, unless *)
(* it was being stopped when SendLook looked.                               *)
SendBranch(o) ==
  /\ pc[o] \in {"look", "lookStopped"}
  /\ CASE ~Active(to[o])          -> Goto(o, "recheck") /\ UNCHANGED <<lock, target>>
       [] pc[o] = "lookStopped"   -> Finish(o) /\ UNCHANGED target
       [] OTHER                   -> /\ Goto(o, "steer") /\ Release(o)
                                     /\ target' = [target EXCEPT ![o] = live[to[o]]]
  /\ UNCHANGED <<taskVars, familyVars, runVars, from, to, permit, diskVars, closeVars, pastVars>>

(* SteerRunContext takes the message only into the run that was seen.  A   *)
(* stop closes the inputs of a run; the end of s.ctx only cancels it.      *)
Steers_Any(o, r) == r # None
Steers(o, r) == r # None /\ r = target[o]
SteerRun(o) ==
  /\ pc[o] = "steer"
  /\ Goto(o, "done")
  /\ \/ UNCHANGED entered
     \/ \E r \in Runs :
          /\ live[to[o]] = r /\ Steers(o, r)
          /\ phase[r] \in {"starting", "working"}
          /\ cancelled[r] => closing # "no"
          /\ entered' = [entered EXCEPT ![o] = r]
  /\ UNCHANGED <<taskVars, lock, familyVars, runVars, from, to, permit, target, diskVars, closeVars,
                 doomed, stops>>

(* The child is idle: unless its session cannot be read, the tests are     *)
(* repeated and the task made ready for a new turn, in one section.        *)
MayRevive_NoRecheck(o) == TRUE
MayRevive(o) == ~Stale(from[o], permit[o]) /\ ~Crossed(o)
SendRecheck(o) ==
  /\ pc[o] = "recheck"
  /\ \/ /\ ~MayRevive(o) \/ to[o] \notin created
        /\ Finish(o)
        /\ UNCHANGED <<admission, stopRequested>>
     \/ /\ MayRevive(o) /\ to[o] \in created
        /\ admission' = [admission EXCEPT ![to[o]] = permit[o]]
        /\ stopRequested' = [stopRequested EXCEPT ![to[o]] = FALSE]
        /\ Goto(o, "precheck")
        /\ UNCHANGED lock
  /\ UNCHANGED <<parent, stopGeneration, familyVars, runVars, from, to, permit, target, diskVars,
                 closeVars, pastVars>>

-----------------------------------------------------------------------------
(* Stop, StopFamily, ReserveDeletion, Close *)

Later_Back(n) == n - 1
Later(n) == n + 1

(* history: what is under way below T when it is stopped. *)
Doom(T) ==
  doomed' = doomed \cup {r \in Runs : \E s \in T : live[s] = r /\ Active(s)}
                   \cup {o \in Ops : InFlight(o) /\ (from[o] \in T \/ to[o] \in T)}

(* stopSessionTreeLocked on the sessions T; tasks are those it reaches. *)
StopTree(T, tasks) ==
  /\ generation' = [s \in Sessions |-> IF s \in T THEN Later(generation[s]) ELSE generation[s]]
  /\ stoppedRun' = [s \in Sessions |->
       IF s \in T /\ Active(s) THEN live[s] ELSE stoppedRun[s]]
  /\ cancelled' = [r \in Runs |-> cancelled[r] \/ \E s \in T : live[s] = r /\ Active(s)]
  /\ stopRequested' = [c \in Children |-> stopRequested[c] \/ c \in tasks]
  /\ stopGeneration' = [c \in Children |->
       IF c \in tasks THEN Later(stopGeneration[c]) ELSE stopGeneration[c]]

Below(T) == {c \in Children : parent[c] \in T}
Visited_OneLevel(s) == {s}
Visited(s) == Descendants(s)

Stopping ==
  /\ closing = "no" /\ Calls < MaxCalls
  /\ stops' = stops + 1
  /\ UNCHANGED <<parent, admission, lock, deleted, live, phase, opVars, diskVars, closeVars, entered>>

(* conversations.Stop is for roots. *)
StopFamily(s) ==
  /\ Stopping
  /\ Doom(Descendants(s))
  /\ StopTree(Visited(s), Below(Visited(s)))

(* Stop of one task, by its parent or by the user. *)
Target_Parent(c) == parent[c]
Target(c) == c
StopTask(c) ==
  /\ parent[c] # None
  /\ Stopping
  /\ Doom(Descendants(c))
  /\ StopTree(Visited(Target(c)), {c} \cup Below(Visited(Target(c))))

(* A root is deleted with everything below it, if nothing there is at work *)
(* and no task is locked.  The intent is on disk before anything changes;  *)
(* conversations removes the files afterwards.                             *)
ReserveDeletion(s) ==
  /\ closing = "no" /\ Calls < MaxCalls
  /\ s \notin deleted
  /\ LET gone == Descendants(s) IN
       /\ \A x \in gone : ~Active(x)
       /\ \A c \in Below(gone) : lock[c] = None
       /\ deleted' = deleted \cup gone
       /\ generation' = [x \in Sessions |-> IF x \in gone THEN 0 ELSE generation[x]]
       /\ stoppedRun' = [x \in Sessions |-> IF x \in gone THEN None ELSE stoppedRun[x]]
       /\ parent' = [c \in Children |-> IF c \in gone THEN None ELSE parent[c]]
       /\ saved' = saved \ gone
       /\ created' = created \ gone
  /\ UNCHANGED <<admission, stopRequested, stopGeneration, lock, runVars, opVars, closeVars, pastVars>>

(* Close: no operation begins any more, the children's contexts are        *)
(* cancelled with s.ctx; it returns when the operations and the runs they  *)
(* started are through.                                                    *)
CloseBegins ==
  /\ closing = "no" /\ Calls < MaxCalls
  /\ closing' = "cancelled"
  /\ cancelled' = [r \in Runs |-> cancelled[r] \/ \E c \in Children : live[c] = r]
  /\ UNCHANGED <<taskVars, lock, familyVars, live, phase, opVars, diskVars, work, pastVars>>
CloseReturns ==
  /\ closing = "cancelled"
  /\ \A o \in Ops : ~InFlight(o)
  /\ \A r \in work : phase[r] = "ended"
  /\ closing' = "returned"
  /\ UNCHANGED <<taskVars, lock, familyVars, runVars, opVars, diskVars, work, pastVars>>

-----------------------------------------------------------------------------
(* Who may act: the sessions with a run, the tasks that are known. *)
Busy == {s \in Sessions : live[s] # None}
Known == {c \in Children : parent[c] # None}
RunStep == \/ \E s \in Roots, r \in Prompts : StartRoot(r, s)
           \/ \E s \in Busy : RunStarted(live[s], s) \/ RunOver(live[s], s) \/ EndRun(live[s], s)
TurnStep == \E o \in Ops : Precheck(o) \/ StartRun(o) \/ StartReturns(o) \/ Postcheck(o)
SpawnStep == \E o \in Spawns :
  \/ \E s \in Busy : SpawnAdmitted(o, s, live[s])
  \/ Publish(o) \/ SpawnRefused(o) \/ SaveTask(o) \/ CreateChild(o)
SendStep == \E o \in Sends :
  \/ \E c \in Known : \E r \in {None, live[parent[c]]} : SendAdmitted(o, parent[c], c, r)
  \/ SendLook(o) \/ SendBranch(o) \/ SteerRun(o) \/ SendRecheck(o)
StopStep == (\E s \in Roots : StopFamily(s)) \/ (\E c \in Children : StopTask(c))
Next == \/ RunStep \/ TurnStep \/ SpawnStep \/ SendStep \/ StopStep
        \/ \E s \in Roots : ReserveDeletion(s)
        \/ CloseBegins \/ CloseReturns

Spec == Init /\ [][Next]_vars

-----------------------------------------------------------------------------
(* Properties *)

TypeOK ==
  /\ parent \in [Children -> Sessions \cup {None}]
  /\ admission \in [Children -> Permits]
  /\ stopRequested \in [Children -> BOOLEAN]
  /\ stopGeneration \in [Children -> Nat]
  /\ lock \in [Children -> Ops \cup {None}]
  /\ generation \in [Sessions -> Nat]
  /\ stoppedRun \in [Sessions -> Runs \cup {None}]
  /\ deleted \subseteq Sessions
  /\ closing \in {"no", "cancelled", "returned"}
  /\ work \subseteq Ops
  /\ live \in [Sessions -> Runs \cup {None}]
  /\ phase \in [Runs -> Phases]
  /\ cancelled \in [Runs -> BOOLEAN]
  /\ pc \in [Ops -> Steps]
  /\ from \in [Ops -> Sessions \cup {None}]
  /\ to \in [Ops -> Children \cup {None}]
  /\ permit \in [Ops -> Permits]
  /\ target \in [Ops -> Runs \cup {None}]
  /\ saved \subseteq Children
  /\ created \subseteq Children
  /\ doomed \subseteq Runs
  /\ entered \in [Ops -> Runs \cup {None}]
  /\ stops \in Nat

(* A stop is final: no run that was live below the stopped session, and no *)
(* run of an operation admitted before the stop, does work uncancelled     *)
(* afterwards (stop.go, family.go, the two checks of turn.go).             *)
StopsHold == \A r \in doomed : phase[r] = "working" => cancelled[r]

(* A stop is precise: it never cancels a turn that was asked for after it  *)
(* (StopRun's identity, the reset of stopRequested in send.go).            *)
OnlyTheStopped ==
  \A r \in Runs : cancelled[r] => r \in doomed \/ (r \in Ops /\ closing # "no")

(* A message sent before a stop does not end up in a turn that was begun   *)
(* after it (sendAccepted waits for the task, SteerRun names the run).     *)
NoCrossing == \A o \in doomed \cap Ops : entered[o] # None => entered[o] \in doomed

(* A child session on disk is known as a child, in memory and on disk, so  *)
(* that neither now nor after a restart it is taken for a conversation     *)
(* (the order of Spawn and its failures).                                  *)
ChildrenAreNoRoots ==
  \A c \in created : c \in saved /\ parent[c] # None

(* Nothing is at work in a deleted session and nothing is attached to it,  *)
(* although what was admitted before the deletion goes on                  *)
(* (ReserveDeletion resets the generations).                               *)
DeletedIsQuiet == \A s \in deleted : ~Active(s) /\ Below({s}) = {}

(* After Close no operation and no run of a child is left. *)
ClosedDrains ==
  closing = "returned" =>
    /\ \A o \in Ops : ~InFlight(o)
    /\ \A c \in Children : live[c] = None

(* A stop reaches its family and nothing else, a message stays before or   *)
(* after it, and a child never becomes a conversation of its own (stop.go, *)
(* send.go, spawn.go).                                                     *)
FamiliesApart == OnlyTheStopped /\ NoCrossing /\ ChildrenAreNoRoots

(* A deletion that has returned, like Close, leaves nothing at work behind *)
(* and lets nothing begin (delete.go, subagents.go).                       *)
EndsAreFinal == DeletedIsQuiet /\ ClosedDrains
=============================================================================

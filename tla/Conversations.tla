--------------------------- MODULE Conversations ---------------------------
(***************************************************************************)
(* The life of a conversation on disk: internal/conversations (service.go, *)
(* deletion.go, reading.go), session/store.go, session/settings/store.go,  *)
(* reading/store.go, runner/records.go (interrupted records, copies for a  *)
(* fork) and subagents/delete.go.                                          *)
(*                                                                         *)
(* A conversation is several files written one after the other, with no    *)
(* transaction.  Handlers of one session are kept apart by its operation   *)
(* lock, creations and deletions by createMu; the runs of the session, the *)
(* views and the process's end respect neither.  A deletion writes its     *)
(* intent first, freezes the family in memory, and removes file after      *)
(* file; what it leaves is replayed before the next start opens anything.  *)
(***************************************************************************)
EXTENDS Naturals, Sequences, FiniteSets

CONSTANTS
  Roots,       (* identities of conversations                              *)
  Kids,        (* child sessions, each with a task of its own              *)
  Mother,      (* the conversation a child belongs to                      *)
  First,       (* the conversation that exists at the start                *)
  Callers,     (* requests under way at the same time                      *)
  MaxCalls,    (* bound: requests made                                     *)
  MaxTurns,    (* bound: turns of a session                                *)
  MaxCrashes,  (* bound: ends of the process                               *)
  None

Sessions == Roots \cup Kids

ASSUME ConversationsAssumption ==
  /\ Mother \in [Kids -> Roots]
  /\ Roots \cap Kids = {}
  /\ First \in Roots
  /\ MaxTurns \in Nat \ {0} /\ MaxCalls \in Nat /\ MaxCrashes \in Nat
  /\ None \notin Sessions \cup Callers

VARIABLES
  files,     (* the files of a session: meta.json, settings.json,
                messages.jsonl (its turns), runs.json, the reading position *)
  tasks,     (* children whose task is on disk                             *)
  intents,   (* deletions/: families whose deletion is not finished        *)
  relations, (* children the process knows (Subagents.childSessions)       *)
  deleted,   (* Service.deleted                                            *)
  cached,    (* copies kept by Store.live                                  *)
  stage,     (* the run of a session                                       *)
  holder,    (* who holds the operation lock of a session                  *)
  creating,  (* who holds createMu                                         *)
  viewing,   (* who holds recordsMu and Runner.mu while it saves           *)
  call,      (* how far a request has come                                 *)
  calls,     (* requests made so far                                       *)
  process,   (* "up", or replaying deletions before it opens               *)
  replay,    (* the deletion being replayed                                *)
  crashes,   (* ends of the process so far                                 *)
  used,      (* history: identities NewID has drawn                        *)
  promised,  (* history: the turns a fork was asked to copy                *)
  doomed     (* history: sessions of an intent that reached the disk       *)

diskVars == <<files, tasks, intents>>
memoryVars == <<relations, deleted, cached, stage>>
lockVars == <<holder, creating, viewing>>
processVars == <<process, replay, crashes>>
historyVars == <<used, promised, doomed>>
vars == <<diskVars, memoryVars, lockVars, call, calls, processVars, historyVars>>

Turns == 1..MaxTurns
Statuses == {"none", "running", "ended", "interrupted"}
NoRuns == [t \in Turns |-> "none"]
NoFiles == [meta |-> "none", edited |-> FALSE, setup |-> 0, turns |-> 0,
            runs |-> NoRuns, position |-> 0]
Spoken == [NoFiles EXCEPT !.meta = "open", !.setup = 1, !.turns = 1,
                          !.runs[1] = "ended"]

Handlers == {"send", "settings", "compact", "rename", "archive", "restore",
             "read", "view", "fork", "create", "delete", "deleteAll"}

NoCall == [op |-> "idle", at |-> "idle", s |-> None, scope |-> {}, rest |-> {},
           dest |-> None, through |-> 0, runs |-> NoRuns]

Init ==
  /\ files = [s \in Sessions |->
       IF s = First \/ (s \in Kids /\ Mother[s] = First) THEN Spoken ELSE NoFiles]
  /\ tasks = {k \in Kids : Mother[k] = First}
  /\ relations = tasks
  /\ intents = {} /\ deleted = {} /\ cached = {}
  /\ stage = [s \in Sessions |-> "idle"]
  /\ holder = [s \in Sessions |-> None]
  /\ creating = None /\ viewing = None
  /\ call = [c \in Callers |-> NoCall]
  /\ calls = 0
  /\ process = "up" /\ replay = NoCall /\ crashes = 0
  /\ used = {First}
  /\ promised = [s \in Sessions |-> 0]
  /\ doomed = {}

---------------------------------------------------------------------------
(* What the handlers look at. *)

(* Service.Session *)
Visible(s) ==
  /\ s \notin relations /\ s \notin deleted
  /\ files[s].meta # "none" /\ files[s].setup # 0

(* Runner.State; it waits for a view that holds Runner.mu. *)
Active(s) == stage[s] \in {"prepare", "on"}

(* Service.allRoots: a listed session without settings fails the list. *)
Listed == {s \in Sessions : s \notin relations \cup deleted /\ files[s].meta # "none"}
CanList == \A s \in Listed : files[s].setup # 0

(* The turn whose record belongs to the live run. *)
LiveTurn(s) == IF stage[s] \in {"on", "ended"} THEN files[s].turns ELSE 0

(* interruptStaleRecords: no record stays running without its run. *)
Interrupted(s) ==
  [t \in Turns |-> IF files[s].runs[t] = "running" /\ t # LiveTurn(s)
                   THEN "interrupted" ELSE files[s].runs[t]]

Doing(c, op, at) == process = "up" /\ call[c].op = op /\ call[c].at = at
Return(c) == call' = [call EXCEPT ![c] = NoCall]
GoOn(c, at) == call' = [call EXCEPT ![c].at = at]
Release(s) == holder' = [holder EXCEPT ![s] = None]
Acquire(c, s) == holder' = [holder EXCEPT ![s] = c]

(* A write of one file happens or fails as a whole. *)
Write(s, f) == files' = [files EXCEPT ![s] = f] \/ files' = files

---------------------------------------------------------------------------
(* Requests on one session.  operation() looks at the session before the   *)
(* lock is taken; every handler looks again under it.                      *)

Request(c) ==
  /\ process = "up" /\ call[c] = NoCall /\ calls < MaxCalls
  /\ calls' = calls + 1
  /\ \E s \in Sessions, op \in Handlers :
       /\ \/ op = "view" /\ s \in relations
          \/ op = "create" /\ s = First
          \/ op # "create" /\ Visible(s)
       /\ call' = [call EXCEPT ![c] = [NoCall EXCEPT !.op = op, !.at = "lock",
                                                      !.s = IF op = "create" THEN None ELSE s]]
  /\ UNCHANGED <<diskVars, memoryVars, lockVars, processVars, historyVars>>

(* The session is gone when the lock is obtained. *)
Refused(c) ==
  /\ process = "up" /\ call[c].at = "lock"
  /\ call[c].op \notin {"view", "create", "delete", "deleteAll"}
  /\ holder[call[c].s] = None
  /\ ~Visible(call[c].s)
  /\ Return(c)
  /\ UNCHANGED <<diskVars, memoryVars, lockVars, processVars, historyVars, calls>>

(* Rename, Archive, Restore: one write of meta.json under the lock. *)
ChangeMeta(c) ==
  /\ call[c].op \in {"rename", "archive", "restore"} /\ Doing(c, call[c].op, "lock")
  /\ LET s == call[c].s IN
       /\ holder[s] = None /\ Visible(s)
       /\ \/ call[c].op = "rename" /\ Write(s, [files[s] EXCEPT !.edited = TRUE])
          \/ call[c].op = "archive" /\ Write(s, [files[s] EXCEPT !.meta = "archived"])
          \/ call[c].op = "restore" /\ Write(s, [files[s] EXCEPT !.meta = "open"])
  /\ Return(c)
  /\ UNCHANGED <<tasks, intents, memoryVars, lockVars, processVars, historyVars, calls>>

(* reading.Store.Advance.  Operators named Op_Fault are faulty variants of  *)
(* Op and unused; see README.                                              *)
Advanced_Late(old, position) == position
Advanced_Sum(old, position) == old + position
Advanced(old, position) == IF position <= old THEN old ELSE position

(* Service.MarkRead: the client names a run it has seen.  RunStates first  *)
(* settles the records that outlived their runs.                           *)
Readable_Any(runs, t) == runs[t] # "none"
Readable(runs, t) == runs[t] \in {"ended", "interrupted"}

MarkRead(c) ==
  /\ Doing(c, "read", "lock") /\ viewing = None
  /\ LET s == call[c].s  now == Interrupted(s) IN
       /\ holder[s] = None /\ Visible(s)
       /\ \E t \in Turns :
            Write(s, [files[s] EXCEPT !.runs = now,
                        !.position = IF Readable(now, t) THEN Advanced(@, t) ELSE @])
  /\ Return(c)
  /\ UNCHANGED <<tasks, intents, memoryVars, lockVars, processVars, historyVars, calls>>

(* UpdateSettings, CallCommand(compact) and Send ask whether the session   *)
(* is idle and not archived, and act under the same hold of the lock.      *)
MayStart_Archived(s) == ~Active(s)
MayStart(s) == files[s].meta = "open" /\ ~Active(s)

(* Send to a run at work, or with the run it expects: the lock is given up *)
(* and the Runner decides (Runner.Steer).                                  *)
Steers(s) == Active(s)

SendLocked(c) ==
  /\ \E op \in {"send", "compact", "settings"} : Doing(c, op, "lock")
  /\ viewing = None
  /\ LET s == call[c].s IN
       /\ holder[s] = None /\ Visible(s)
       /\ \/ /\ MayStart(s)
             /\ Acquire(c, s)
             /\ GoOn(c, IF call[c].op = "compact" THEN "start" ELSE "save")
          \/ /\ ~MayStart(s)
             /\ holder' = holder
             /\ IF call[c].op = "send" /\ Steers(s) THEN GoOn(c, "steer") ELSE Return(c)
  /\ UNCHANGED <<diskVars, memoryVars, creating, viewing, processVars, historyVars, calls>>

(* steer: without the lock, the run may have ended and another begun; the  *)
(* answer of the Runner is the answer of the call, nothing is started.     *)
SteerAnswered(c) ==
  /\ Doing(c, "send", "steer")
  /\ Return(c)
  /\ UNCHANGED <<diskVars, memoryVars, lockVars, processVars, historyVars, calls>>

(* SaveSessionSettings: the settings of the next turn. *)
SaveSettings(c) ==
  /\ call[c].op \in {"send", "settings"} /\ Doing(c, call[c].op, "save")
  /\ LET s == call[c].s IN
       \/ /\ files' = [files EXCEPT ![s].setup = 2]
          /\ IF call[c].op = "send" THEN GoOn(c, "start") /\ holder' = holder
                                    ELSE Return(c) /\ Release(s)
       \/ /\ files' = files /\ Return(c) /\ Release(s)
  /\ UNCHANGED <<tasks, intents, memoryVars, creating, viewing, processVars, historyVars, calls>>

(* Runner.Start: the session must not be occupied, not even by a run that  *)
(* has announced its end.                                                  *)
StartRun(c) ==
  /\ call[c].op \in {"send", "compact"} /\ Doing(c, call[c].op, "start")
  /\ viewing = None
  /\ LET s == call[c].s IN
       /\ stage' = IF stage[s] = "idle" /\ files[s].turns < MaxTurns
                   THEN [stage EXCEPT ![s] = "prepare"] ELSE stage
       /\ Release(s)
  /\ Return(c)
  /\ UNCHANGED <<diskVars, relations, deleted, cached, creating, viewing, processVars, historyVars, calls>>

---------------------------------------------------------------------------
(* The runs, on their own goroutines; those of children are started by     *)
(* Subagents while it knows the relation.                                  *)

KidStarts(k) ==
  /\ process = "up" /\ viewing = None
  /\ k \in relations /\ stage[k] = "idle" /\ files[k].turns < MaxTurns
  /\ stage' = [stage EXCEPT ![k] = "prepare"]
  /\ UNCHANGED <<diskVars, relations, deleted, cached, lockVars, call, processVars, historyVars, calls>>

(* The prompt, then the running record; without it the run gives up. *)
RunPrompt(s) ==
  /\ process = "up" /\ viewing = None /\ stage[s] = "prepare"
  /\ LET n == files[s].turns + 1 IN
       \/ /\ files' = [files EXCEPT ![s].turns = n, ![s].runs[n] = "running"]
          /\ stage' = [stage EXCEPT ![s] = "on"]
       \/ /\ files' = [files EXCEPT ![s].turns = n]
          /\ stage' = [stage EXCEPT ![s] = "idle"]
  /\ UNCHANGED <<tasks, intents, relations, deleted, cached, lockVars, call, processVars, historyVars, calls>>

(* A compaction, or a turn whose preparation fails: no record. *)
RunLeaves(s) ==
  /\ process = "up" /\ stage[s] = "prepare"
  /\ stage' = [stage EXCEPT ![s] = "idle"]
  /\ UNCHANGED <<diskVars, relations, deleted, cached, lockVars, call, processVars, historyVars, calls>>

(* finishRun: the last record may fail, the end is announced all the same. *)
RunEnds(s) ==
  /\ process = "up" /\ viewing = None /\ stage[s] = "on"
  /\ \/ files' = [files EXCEPT ![s].runs[files[s].turns] = "ended"]
     \/ files' = files
  /\ stage' = [stage EXCEPT ![s] = "ended"]
  /\ UNCHANGED <<tasks, intents, relations, deleted, cached, lockVars, call, processVars, historyVars, calls>>

RunReleased(s) ==
  /\ process = "up" /\ viewing = None /\ stage[s] = "ended"
  /\ stage' = [stage EXCEPT ![s] = "idle"]
  /\ UNCHANGED <<diskVars, relations, deleted, cached, lockVars, call, processVars, historyVars, calls>>

---------------------------------------------------------------------------
(* SessionView and RunStates: no operation lock.  The records are read,    *)
(* and saved again when one has outlived its run; recordsMu and Runner.mu  *)
(* are held, but a deletion that has passed Runner.State needs neither.    *)

ViewReads(c) ==
  /\ Doing(c, "view", "lock") /\ viewing = None
  /\ LET s == call[c].s IN
       IF Interrupted(s) = files[s].runs
       THEN Return(c) /\ viewing' = viewing
       ELSE /\ viewing' = c
            /\ call' = [call EXCEPT ![c].at = "save", ![c].runs = Interrupted(s)]
  /\ UNCHANGED <<diskVars, memoryVars, holder, creating, processVars, historyVars, calls>>

ViewSaves(c) ==
  /\ Doing(c, "view", "save")
  /\ Write(call[c].s, [files[call[c].s] EXCEPT !.runs = call[c].runs])
  /\ viewing' = None
  /\ Return(c)
  /\ UNCHANGED <<tasks, intents, memoryVars, holder, creating, processVars, historyVars, calls>>

---------------------------------------------------------------------------
(* Fork: settings, ledger, metadata, records, in this order; whatever has  *)
(* been written stays when a later step fails.                             *)

ForkLocked(c) ==
  /\ Doing(c, "fork", "lock") /\ viewing = None
  /\ LET s == call[c].s IN
       /\ holder[s] = None /\ Visible(s)
       /\ \/ /\ ~Active(s)
             /\ \E t \in 1..files[s].turns, d \in Roots \ used :
                  /\ used' = used \cup {d}
                  /\ promised' = [promised EXCEPT ![d] = t]
                  /\ call' = [call EXCEPT ![c].at = "settings", ![c].dest = d, ![c].through = t]
             /\ Acquire(c, s)
          \/ Return(c) /\ UNCHANGED <<holder, used, promised>>
  /\ UNCHANGED <<diskVars, memoryVars, creating, viewing, processVars, doomed, calls>>

ForkOrder_MetaFirst == <<"settings", "meta", "ledger", "records">>
ForkOrder == <<"settings", "ledger", "meta", "records">>
ForkNext(at) == ForkOrder[CHOOSE i \in 2..4 : ForkOrder[i - 1] = at]

ForkWrite(c, at, f) ==
  /\ Doing(c, "fork", at)
  /\ \/ /\ files' = [files EXCEPT ![call[c].dest] = f]
        /\ GoOn(c, ForkNext(at)) /\ holder' = holder
     \/ /\ files' = files /\ Return(c) /\ Release(call[c].s)
  /\ UNCHANGED <<tasks, intents, relations, deleted, stage, creating, viewing, processVars, historyVars, calls>>

ForkSettings(c) ==
  /\ ForkWrite(c, "settings", [files[call[c].dest] EXCEPT !.setup = files[call[c].s].setup])
  /\ UNCHANGED cached

ForkLedger(c) ==
  /\ ForkWrite(c, "ledger", [files[call[c].dest] EXCEPT !.turns = call[c].through])
  /\ UNCHANGED cached

ForkMeta(c) ==
  /\ ForkWrite(c, "meta", [files[call[c].dest] EXCEPT !.meta = "open"])
  /\ cached' = IF files' = files THEN cached ELSE cached \cup {call[c].dest}

(* CopyRecordsForFork: the records of the copied turns, none of them       *)
(* running.  The copy is still cached unless it was deleted in the         *)
(* meantime, in which case the fork fails.                                 *)
CopyOf(s, t) ==
  [i \in Turns |-> IF i > t THEN "none"
                   ELSE IF files[s].runs[i] = "running" THEN "interrupted"
                   ELSE files[s].runs[i]]

ForkRecords(c) ==
  /\ Doing(c, "fork", "records") /\ viewing = None
  /\ LET s == call[c].s  d == call[c].dest IN
       /\ \/ /\ d \in cached /\ CopyOf(s, call[c].through) # NoRuns
             /\ files' = [files EXCEPT ![d].runs = CopyOf(s, call[c].through)]
          \/ files' = files    \* it fails, or there is nothing to copy
       /\ Release(s)
  /\ Return(c)
  /\ UNCHANGED <<tasks, intents, memoryVars, creating, viewing, processVars, historyVars, calls>>

---------------------------------------------------------------------------
(* Create: an untouched conversation is used again; a new one is metadata, *)
(* then settings, and the metadata is taken back when there are none.      *)

CreateLists(c) ==
  /\ Doing(c, "create", "lock") /\ creating = None
  /\ \/ /\ CanList
        /\ \A s \in Listed : files[s].meta = "open" => files[s].edited \/ files[s].turns > 0
        /\ \E d \in Roots \ used :
             /\ used' = used \cup {d}
             /\ call' = [call EXCEPT ![c].at = "meta", ![c].dest = d]
        /\ creating' = c
     \/ Return(c) /\ UNCHANGED <<creating, used>>
  /\ UNCHANGED <<diskVars, memoryVars, holder, viewing, processVars, promised, doomed, calls>>

CreateMeta(c) ==
  /\ Doing(c, "create", "meta")
  /\ \/ /\ files' = [files EXCEPT ![call[c].dest].meta = "open"]
        /\ GoOn(c, "settings") /\ creating' = creating
     \/ files' = files /\ Return(c) /\ creating' = None
  /\ UNCHANGED <<tasks, intents, memoryVars, holder, viewing, processVars, historyVars, calls>>

CreateSettings(c) ==
  /\ Doing(c, "create", "settings")
  /\ \/ files' = [files EXCEPT ![call[c].dest].setup = 1]
     \/ files' = [files EXCEPT ![call[c].dest].meta = "none"]    \* DiscardEmpty
     \/ files' = files                                           \* it failed as well
  /\ creating' = None
  /\ Return(c)
  /\ UNCHANGED <<tasks, intents, memoryVars, holder, viewing, processVars, historyVars, calls>>

---------------------------------------------------------------------------
(* DeleteSession, DeleteProject.  createMu, then TryLock on every root.    *)

WithKids(roots) == roots \cup {k \in relations : Mother[k] \in roots}

DeleteLocks(c) ==
  /\ call[c].op \in {"delete", "deleteAll"} /\ Doing(c, call[c].op, "lock")
  /\ creating = None
  /\ LET roots == IF call[c].op = "delete" THEN {call[c].s} ELSE Listed IN
       IF /\ roots # {}
          /\ call[c].op = "deleteAll" => CanList
          /\ \A s \in roots : Visible(s) /\ holder[s] = None
       THEN /\ creating' = c
            /\ holder' = [s \in Sessions |-> IF s \in roots THEN c ELSE holder[s]]
            /\ call' = [call EXCEPT ![c].at = "reserve", ![c].scope = roots]
       ELSE Return(c) /\ UNCHANGED <<creating, holder>>
  /\ UNCHANGED <<diskVars, memoryVars, viewing, processVars, historyVars, calls>>

(* finishDeletion removes every task, then session by session the reading  *)
(* position and the directory; in which order the intent lists them does   *)
(* not matter.                                                             *)
Item(kind, s) == [kind |-> kind, s |-> s]
Work(family) == {Item("task", k) : k \in family \cap Kids}
                \cup {Item("position", s) : s \in family}
                \cup {Item("directory", s) : s \in family}
Due(rest) ==
  {item \in rest :
     /\ item.kind = "position" =>
          \A i \in rest : /\ i.kind # "task"
                          /\ i.kind = "directory" => Item("position", i.s) \in rest
     /\ item.kind = "directory" => Item("position", item.s) \notin rest}

Unlocked(c) == /\ creating' = None
               /\ holder' = [s \in Sessions |-> IF holder[s] = c THEN None ELSE holder[s]]

(* ReserveDeletion under Subagents.mu: refused while the family is at work *)
(* (a run that has announced its end is not); else the intent is written   *)
(* and the family frozen.  Write may report a failure after the rename:    *)
(* the family is frozen then too, and the next start does the rest.        *)
MayReserve(family) == family \cap deleted = {} /\ \A s \in family : ~Active(s)

Reserve(c) ==
  /\ call[c].op \in {"delete", "deleteAll"} /\ Doing(c, call[c].op, "reserve")
  /\ viewing = None
  /\ LET family == WithKids(call[c].scope) IN
       \/ /\ MayReserve(family)
          /\ intents' = intents \cup {family}
          /\ doomed' = doomed \cup family
          /\ deleted' = deleted \cup family
          /\ relations' = relations \ family
          /\ \/ /\ call' = [call EXCEPT ![c].at = "remove", ![c].scope = family, ![c].rest = Work(family)]
                /\ UNCHANGED <<creating, holder>>
             \/ Return(c) /\ Unlocked(c)
       \/ Return(c) /\ Unlocked(c) /\ UNCHANGED <<intents, doomed, deleted, relations>>
  /\ UNCHANGED <<files, tasks, cached, stage, viewing, processVars, used, promised, calls>>

(* One removal; that of a directory may stop half way. *)
Removed(item) ==
  \/ item.kind = "task" /\ tasks' = tasks \ {item.s} /\ files' = files
  \/ /\ item.kind = "position" /\ tasks' = tasks
     /\ files' = [files EXCEPT ![item.s].position = 0]
  \/ /\ item.kind = "directory" /\ tasks' = tasks
     /\ files' = [files EXCEPT ![item.s] = [NoFiles EXCEPT !.position = files[item.s].position]]

HalfRemoved(item) ==
  /\ tasks' = tasks
  /\ \/ files' = files
     \/ item.kind = "directory" /\ files' = [files EXCEPT ![item.s].meta = "none"]
     \/ item.kind = "directory" /\ files' = [files EXCEPT ![item.s].setup = 0]

DeleteRemoves(c) ==
  /\ call[c].op \in {"delete", "deleteAll"} /\ Doing(c, call[c].op, "remove")
  /\ \E item \in Due(call[c].rest) :
       \/ /\ Removed(item)
          /\ call' = [call EXCEPT ![c].rest = @ \ {item}]
          /\ UNCHANGED <<holder, creating>>
       \/ /\ HalfRemoved(item)
          /\ Return(c) /\ Unlocked(c)
  /\ UNCHANGED <<intents, memoryVars, viewing, processVars, historyVars, calls>>

(* The intent goes last; then Forget, ForgetSessions, operations.Delete. *)
IntentGoes(rest) == rest = {}

DeleteFinishes(c) ==
  /\ call[c].op \in {"delete", "deleteAll"} /\ Doing(c, call[c].op, "remove")
  /\ IntentGoes(call[c].rest)
  /\ \/ /\ intents' = intents \ {call[c].scope}
        /\ cached' = cached \ call[c].scope
        /\ GoOn(c, "forget") /\ UNCHANGED <<holder, creating>>
     \/ UNCHANGED <<intents, cached>> /\ Unlocked(c) /\ Return(c)
  /\ UNCHANGED <<files, tasks, relations, deleted, stage, viewing, processVars, historyVars, calls>>

(* ForgetSessions waits for a view that holds recordsMu. *)
DeleteForgets(c) ==
  /\ call[c].op \in {"delete", "deleteAll"} /\ Doing(c, call[c].op, "forget")
  /\ viewing = None
  /\ Unlocked(c)
  /\ Return(c)
  /\ UNCHANGED <<diskVars, memoryVars, viewing, processVars, historyVars, calls>>

---------------------------------------------------------------------------
(* The process ends anywhere; the next one replays the deletions before it *)
(* reads the relations (backend.Open).  A failing replay stops the start.  *)

Crash ==
  /\ crashes < MaxCrashes
  /\ crashes' = crashes + 1
  /\ process' = "recovering" /\ replay' = NoCall
  /\ call' = [c \in Callers |-> NoCall]
  /\ holder' = [s \in Sessions |-> None] /\ creating' = None /\ viewing' = None
  /\ stage' = [s \in Sessions |-> "idle"]
  /\ relations' = {} /\ deleted' = {} /\ cached' = {}
  /\ UNCHANGED <<diskVars, historyVars, calls>>

RecoverNext ==
  /\ process = "recovering" /\ replay = NoCall
  /\ \E family \in intents :
       replay' = [NoCall EXCEPT !.scope = family, !.rest = Work(family)]
  /\ UNCHANGED <<diskVars, memoryVars, lockVars, call, process, crashes, historyVars, calls>>

RecoverRemoves ==
  /\ process = "recovering"
  /\ \E item \in Due(replay.rest) :
       \/ Removed(item) /\ replay' = [replay EXCEPT !.rest = @ \ {item}]
       \/ HalfRemoved(item) /\ replay' = NoCall
  /\ UNCHANGED <<intents, memoryVars, lockVars, call, process, crashes, historyVars, calls>>

RecoverFinishes ==
  /\ process = "recovering" /\ replay.scope # {} /\ IntentGoes(replay.rest)
  /\ intents' = intents \ {replay.scope} \/ intents' = intents
  /\ replay' = NoCall
  /\ UNCHANGED <<files, tasks, memoryVars, lockVars, call, process, crashes, historyVars, calls>>

MayOpen_Early == TRUE
MayOpen == intents = {}

Opened ==
  /\ process = "recovering" /\ replay = NoCall /\ MayOpen
  /\ process' = "up"
  /\ relations' = tasks
  /\ UNCHANGED <<diskVars, deleted, cached, stage, lockVars, call, replay, crashes, historyVars, calls>>

---------------------------------------------------------------------------
Next ==
  \/ \E c \in Callers :
       \/ Request(c) \/ Refused(c) \/ ChangeMeta(c) \/ MarkRead(c)
       \/ SendLocked(c) \/ SteerAnswered(c) \/ SaveSettings(c) \/ StartRun(c)
       \/ ViewReads(c) \/ ViewSaves(c)
       \/ ForkLocked(c) \/ ForkSettings(c) \/ ForkLedger(c) \/ ForkMeta(c) \/ ForkRecords(c)
       \/ CreateLists(c) \/ CreateMeta(c) \/ CreateSettings(c)
       \/ DeleteLocks(c) \/ Reserve(c) \/ DeleteRemoves(c) \/ DeleteFinishes(c)
       \/ DeleteForgets(c)
  \/ \E k \in Kids : KidStarts(k)
  \/ \E s \in Sessions : RunPrompt(s) \/ RunLeaves(s) \/ RunEnds(s) \/ RunReleased(s)
  \/ Crash \/ RecoverNext \/ RecoverRemoves \/ RecoverFinishes \/ Opened

Spec == Init /\ [][Next]_vars

---------------------------------------------------------------------------
TypeOK ==
  /\ files \in [Sessions -> [meta : {"none", "open", "archived"}, edited : BOOLEAN,
                             setup : 0..2, turns : 0..MaxTurns,
                             runs : [Turns -> Statuses], position : 0..MaxTurns]]
  /\ tasks \subseteq Kids /\ relations \subseteq Kids
  /\ intents \subseteq SUBSET Sessions
  /\ deleted \subseteq Sessions /\ cached \subseteq Roots
  /\ stage \in [Sessions -> {"idle", "prepare", "on", "ended"}]
  /\ holder \in [Sessions -> Callers \cup {None}]
  /\ {creating, viewing} \subseteq Callers \cup {None}
  /\ \A c \in Callers : call[c].op \in Handlers \cup {"idle"}
  /\ process \in {"up", "recovering"}
  /\ crashes \in 0..MaxCrashes /\ calls \in 0..MaxCalls
  /\ used \subseteq Roots /\ doomed \subseteq Sessions
  /\ promised \in [Sessions -> 0..MaxTurns]

Intended(s) == \E family \in intents : s \in family

(* Once the intent of a deletion is on disk, every session of the family   *)
(* is either still named by it or has neither task, metadata, settings,    *)
(* ledger nor reading position, wherever the process stopped and whichever *)
(* removal failed; and no handler ever finds one of them, or a child as a  *)
(* conversation of its own (finishDeletion removes the tasks first, so the *)
(* replay must come before the relations are read).  runs.json is left     *)
(* out: a view or a fork may write it again (see README).                  *)
NothingComesBack ==
  /\ \A s \in doomed : ~Intended(s) =>
       [files[s] EXCEPT !.runs = NoRuns] = NoFiles /\ s \notin tasks
  /\ process = "up" => \A s \in doomed \cup Kids : ~Visible(s)

(* A conversation that can be listed has what belongs to it: settings once *)
(* something was said, the whole of the copied history when it is a fork,  *)
(* and no record of a turn the ledger does not have.  (Create is excepted: *)
(* a stop between its two files leaves an empty one without settings.)     *)
WholeConversations ==
  \A s \in Roots : files[s].meta # "none" /\ ~Intended(s) =>
    /\ files[s].turns > 0 => files[s].setup # 0
    /\ files[s].turns >= promised[s]
    /\ \A t \in Turns : files[s].runs[t] # "none" => t <= files[s].turns

(* MarkRead arrives late, out of order, during a run and after a restart:  *)
(* the position never goes back and never reaches a run at work.           *)
ReadOnlyForward ==
  [][\A s \in Sessions \ doomed :
       /\ files'[s].position >= files[s].position
       /\ files'[s].position > files[s].position =>
            files'[s].runs[files'[s].position] # "running"]_vars

(* Archive, Restore, a deletion or an end of the process may come between  *)
(* any two steps of Send and CallCommand: a run begins only in a           *)
(* conversation that is there, open and not being deleted.                 *)
StartsOnlyInOpen ==
  [][\A s \in Roots : stage[s] = "idle" /\ stage'[s] = "prepare" =>
       Visible(s) /\ files[s].meta = "open"]_vars

(* runner/README.md: runs.json keeps the outcomes of the runs.  A record   *)
(* of a conversation that is not deleted never disappears.                 *)
RecordsStay ==
  [][\A s \in Sessions \ doomed, t \in Turns :
       files[s].runs[t] # "none" => files'[s].runs[t] # "none"]_vars
=============================================================================

----------------------------- MODULE Delivery ------------------------------
(***************************************************************************)
(* The results of subagents on their way to the parent session: subagents/ *)
(* notifications.go, projection.go and wait.go, with Runner.Receive of     *)
(* runner/collaboration.go and the checkpoints of the parent's run.        *)
(*                                                                         *)
(* Nothing is kept about a delivery but the parent's ledger: a result is   *)
(* offered again, at every start of the parent, at every change and at     *)
(* every tick, until the ledger holds it.                                  *)
(***************************************************************************)
EXTENDS FiniteSets, Naturals

CONSTANTS Tasks,
          MaxTurns,     \* bound: turns of a task
          MaxRuns,      \* bound: runs of the parent
          MaxFaults,    \* bound: projections or appends that fail, and restarts
          None

VARIABLES
  turn, running,   \* [Tasks -> of the child's last run]
  tracked,         \* the turns whose end is still to be signalled by trackRun
  loop,            \* deliverLoop: where it is, and if it scans only pending tasks
  loopWoken,       \* is the channel that deliverLoop captured closed
  scan,            \* deliverTasks, under deliveryMu
  retry,           \* Subagents.pending
  confirmed,       \* Subagents.confirmed
  wait,            \* a Wait called by the parent's run
  waitWoken,       \* is the channel that Wait captured closed
  phase,           \* the parent's run
  runNo,           \* its number
  stopped,         \* is its context cancelled
  familyStopped,   \* is it families[parent].stoppedRunID
  asked,           \* has it made a model request
  due,             \* turns that had ended when it was announced
  inbox,           \* liveRun.pendingInputs
  ledger,          \* [Results -> how often the parent's ledger holds it]
  faults

childVars  == <<turn, running, tracked>>
scanVars   == <<loop, loopWoken, scan, retry, confirmed>>
waitVars   == <<wait, waitWoken>>
parentVars == <<phase, runNo, stopped, familyStopped, asked, due, inbox, ledger>>
deliveryVars == <<childVars, scanVars, waitVars, parentVars, faults>>

\* notificationID: the task and the number of the turn.
Results == Tasks \X (1..MaxTurns)

\* projectTask: the runs of a child that are over, in their order.
Ended == {r \in Results : r[2] < turn[r[1]] \/ (r[2] = turn[r[1]] /\ ~running[r[1]])}
EndedOf(t) == {r \in Ended : r[1] = t}
Recorded == {r \in Results : ledger[r] > 0}

Idle == [at |-> "none", task |-> None, target |-> 0, seen |-> {}, woken |-> FALSE]
NoScan == [by |-> "none", left |-> {}, task |-> None, todo |-> {}, at |-> "pick",
           run |-> 0, again |-> FALSE, failed |-> FALSE]

TypeOK ==
  /\ turn \in [Tasks -> 0..MaxTurns] /\ running \in [Tasks -> BOOLEAN]
  /\ tracked \subseteq Results
  /\ loop \in [at : {"scan", "sleep"}, retryOnly : BOOLEAN]
  /\ scan.by \in {"none", "loop", "start", "wait"} /\ scan.left \subseteq Tasks
  /\ scan.todo \subseteq Results /\ scan.at \in {"pick", "look", "queue"}
  /\ retry \subseteq Tasks /\ confirmed \subseteq Results
  /\ wait.at \in {"none", "look", "looked", "sleep", "deliver", "done", "over"}
  /\ phase \in {"idle", "announced", "open", "closed"} /\ runNo \in 0..MaxRuns
  /\ due \subseteq Results /\ inbox \subseteq Results
  /\ DOMAIN ledger = Results
  /\ faults \in 0..MaxFaults

Init ==
  /\ turn = [t \in Tasks |-> 0] /\ running = [t \in Tasks |-> FALSE]
  /\ tracked = {}
  /\ loop = [at |-> "scan", retryOnly |-> FALSE] /\ loopWoken = FALSE
  /\ scan = NoScan /\ retry = {} /\ confirmed = {}
  /\ wait = Idle /\ waitWoken = FALSE
  /\ phase = "idle" /\ runNo = 0 /\ stopped = FALSE /\ familyStopped = FALSE
  /\ asked = FALSE /\ due = {} /\ inbox = {}
  /\ ledger = [r \in Results |-> 0]
  /\ faults = 0

SignalChange == loopWoken' = TRUE /\ waitWoken' = (wait.at \in {"looked", "sleep"})

-----------------------------------------------------------------------------
(* The children.                                                           *)

ChildStart(t) ==
  /\ ~running[t] /\ turn[t] < MaxTurns
  /\ turn' = [turn EXCEPT ![t] = @ + 1]
  /\ running' = [running EXCEPT ![t] = TRUE]
  /\ UNCHANGED <<tracked, scanVars, waitVars, parentVars, faults>>

ChildEnd(t) ==
  /\ running[t]
  /\ running' = [running EXCEPT ![t] = FALSE]
  /\ tracked' = tracked \cup {<<t, turn[t]>>}
  /\ UNCHANGED <<turn, scanVars, waitVars, parentVars, faults>>

\* trackRun: after handle.Wait.
Signal(r) ==
  /\ r \in tracked
  /\ tracked' = tracked \ {r}
  /\ SignalChange
  /\ UNCHANGED <<turn, running, loop, scan, retry, confirmed, wait, parentVars,
                 faults>>

-----------------------------------------------------------------------------
(* deliverLoop and deliverTasks.                                           *)

\* A change, or a tick, whichever select takes; the channel of the next
\* change is captured before the scan, also when this one was not looked at.
LoopWake ==
  /\ loop.at = "sleep"
  /\ \/ loopWoken /\ loop' = [at |-> "scan", retryOnly |-> FALSE]
     \/ loop' = [at |-> "scan", retryOnly |-> TRUE]
  /\ loopWoken' = FALSE
  /\ UNCHANGED <<childVars, scan, retry, confirmed, waitVars, parentVars, faults>>

\* The tasks that a scan looks at: all of them when the parent starts.
StartScans_Pending == retry
StartScans == Tasks

ScanBegin(by) ==
  /\ scan = NoScan
  /\ \/ by = "loop"  /\ loop.at = "scan"
     \/ by = "start" /\ phase = "announced" /\ ~familyStopped
     \/ by = "wait"  /\ wait.at = "deliver"
  /\ scan' = [NoScan EXCEPT
       !.by = by,
       !.left = IF by = "loop" /\ loop.retryOnly THEN retry
                ELSE IF by = "start" THEN StartScans ELSE Tasks]
  /\ UNCHANGED <<childVars, loop, loopWoken, retry, confirmed, waitVars, parentVars,
                 faults>>

StopsHere == phase /= "idle" /\ familyStopped

\* A projection that fails is tried again; one of a child without a run is not.
Project(t) ==
  /\ scan.by /= "none" /\ scan.at = "pick" /\ t \in scan.left
  /\ \/ /\ StopsHere
        /\ scan' = [scan EXCEPT !.left = @ \ {t}]
        /\ UNCHANGED <<retry, faults>>
     \/ /\ ~StopsHere
        /\ scan' = [scan EXCEPT !.left = @ \ {t}, !.task = t, !.at = "look",
                                !.todo = EndedOf(t) \ confirmed, !.again = FALSE]
        /\ UNCHANGED <<retry, faults>>
     \/ /\ ~StopsHere /\ faults < MaxFaults
        /\ scan' = [scan EXCEPT !.left = @ \ {t}, !.failed = TRUE]
        /\ retry' = retry \cup {t}
        /\ faults' = faults + 1
  /\ UNCHANGED <<childVars, loop, loopWoken, confirmed, waitVars, parentVars>>

First == CHOOSE r \in scan.todo : \A q \in scan.todo : r[2] <= q[2]
Told(r)  == scan' = [scan EXCEPT !.todo = @ \ {r}, !.at = "look"]
Again(r) == scan' = [scan EXCEPT !.todo = @ \ {r}, !.at = "look", !.again = TRUE]

\* Receive, until it takes the handoff lock of the run it found.
Look ==
  /\ scan.by /= "none" /\ scan.at = "look" /\ scan.todo /= {}
  /\ \/ /\ ledger[First] > 0
        /\ confirmed' = confirmed \cup {First}
        /\ Told(First)
     \/ /\ ledger[First] = 0 /\ phase = "idle"
        /\ Again(First)
        /\ UNCHANGED confirmed
     \/ /\ ledger[First] = 0 /\ phase /= "idle"
        /\ scan' = [scan EXCEPT !.at = "queue", !.run = runNo]
        /\ UNCHANGED confirmed
  /\ UNCHANGED <<childVars, loop, loopWoken, retry, waitVars, parentVars, faults>>

\* A checkpoint may have recorded it since: looked at once more.
Known_Unseen(r) == FALSE
Known(r) == ledger[r] > 0

\* Queued is not recorded: only the ledger confirms.
QueuedIs_Confirmed(r) == confirmed' = confirmed \cup {r} /\ Told(r)
QueuedIs(r) == UNCHANGED confirmed /\ Again(r)

\* Receive, under handoff.
Queue ==
  /\ scan.at = "queue"
  /\ IF Known(First) THEN /\ confirmed' = confirmed \cup {First}
                          /\ Told(First)
                          /\ UNCHANGED inbox
     ELSE IF \/ First \in inbox
             \/ scan.run /= runNo
             \/ phase \notin {"announced", "open"}
     THEN Again(First) /\ UNCHANGED <<confirmed, inbox>>
     ELSE QueuedIs(First) /\ inbox' = inbox \cup {First}
  /\ UNCHANGED <<childVars, loop, loopWoken, retry, waitVars, phase, runNo, stopped,
                 familyStopped, asked, due, ledger, faults>>

TaskDone ==
  /\ scan.by /= "none" /\ scan.at = "look" /\ scan.todo = {}
  /\ retry' = IF scan.again THEN retry \cup {scan.task} ELSE retry \ {scan.task}
  /\ scan' = [scan EXCEPT !.at = "pick", !.task = None, !.run = 0, !.again = FALSE]
  /\ UNCHANGED <<childVars, loop, loopWoken, confirmed, waitVars, parentVars, faults>>

\* A start whose delivery failed ends the run before it asks the model.
ScanEnd ==
  /\ scan.by /= "none" /\ scan.at = "pick" /\ scan.left = {}
  /\ scan' = NoScan
  /\ \/ /\ scan.by = "loop"
        /\ loop' = [loop EXCEPT !.at = "sleep"]
        /\ UNCHANGED <<loopWoken, wait, phase, stopped>>
     \/ /\ scan.by = "start"
        /\ phase' = "open"
        /\ stopped' = (stopped \/ scan.failed)
        /\ UNCHANGED <<loop, loopWoken, wait>>
     \/ /\ scan.by = "wait"
        /\ wait' = [wait EXCEPT !.at = "done"]
        /\ UNCHANGED <<loop, loopWoken, phase, stopped>>
  /\ UNCHANGED <<childVars, retry, confirmed, waitWoken, runNo, familyStopped, asked,
                  due, inbox, ledger, faults>>

-----------------------------------------------------------------------------
(* Wait, called as a tool of the parent's run.                             *)

\* The run goes on after its tools, with a checkpoint.
Waits == wait.at \notin {"none", "over"}

WaitStart(t, seen) ==
  /\ phase = "open" /\ asked /\ ~stopped /\ wait = Idle
  /\ wait' = [Idle EXCEPT !.at = "look", !.task = t, !.seen = seen]
  /\ waitWoken' = FALSE
  /\ UNCHANGED <<childVars, scanVars, parentVars, faults>>

\* The latest turn at the first look, and what came after it, counts.
Target == IF wait.target = 0 THEN turn[wait.task] ELSE wait.target
News(target) == {r \in EndedOf(wait.task) : r[2] >= target /\ r \notin wait.seen}

\* It captures the channel, looks, and then returns or sleeps.
WaitLook ==
  /\ wait.at = "look"
  /\ waitWoken' = FALSE
  /\ wait' = IF News(Target) /= {} /\ ~stopped THEN [Idle EXCEPT !.at = "deliver"]
             ELSE IF turn[wait.task] = 0 \/ stopped \/ wait.woken
             THEN [Idle EXCEPT !.at = "done"]
             ELSE [wait EXCEPT !.at = "looked", !.target = Target]
  /\ UNCHANGED <<childVars, scanVars, parentVars, faults>>

WaitSleep_Captures == waitWoken' = FALSE
WaitSleep == UNCHANGED waitWoken

Sleep ==
  /\ wait.at = "looked"
  /\ wait' = [wait EXCEPT !.at = "sleep"]
  /\ WaitSleep
  /\ UNCHANGED <<childVars, scanVars, parentVars, faults>>

WaitWake ==
  /\ wait.at = "sleep" /\ (waitWoken \/ stopped)
  /\ wait' = IF stopped THEN [Idle EXCEPT !.at = "done"] ELSE [wait EXCEPT !.at = "look"]
  /\ UNCHANGED <<waitWoken, childVars, scanVars, parentVars, faults>>

\* An input arrived, or the time is over: one more look.
WaitInput ==
  /\ wait.at = "sleep" /\ inbox /= {}
  /\ wait' = [wait EXCEPT !.at = "look", !.woken = TRUE]
  /\ UNCHANGED <<waitWoken, childVars, scanVars, parentVars, faults>>

WaitTimeout ==
  /\ wait.at = "sleep" /\ inbox = {}
  /\ wait' = [wait EXCEPT !.at = "look", !.woken = TRUE]
  /\ UNCHANGED <<waitWoken, childVars, scanVars, parentVars, faults>>

WaitReturn ==
  /\ wait.at = "done"
  /\ wait' = [Idle EXCEPT !.at = "over"]
  /\ waitWoken' = FALSE
  /\ UNCHANGED <<childVars, scanVars, parentVars, faults>>

-----------------------------------------------------------------------------
(* The parent's runs.                                                      *)

\* RunStarted is published, its inputs are open, onRunStarted delivers.
RunStart ==
  /\ phase = "idle" /\ runNo < MaxRuns
  /\ phase' = "announced"
  /\ runNo' = runNo + 1
  /\ stopped' = FALSE /\ familyStopped' = FALSE /\ asked' = FALSE
  /\ due' = Ended
  /\ UNCHANGED <<childVars, scanVars, waitVars, inbox, ledger, faults>>

\* onRunStarted of a run that a stop was meant for: nothing is delivered.
StartStopped ==
  /\ phase = "announced" /\ familyStopped /\ scan.by /= "start"
  /\ phase' = "open"
  /\ UNCHANGED <<childVars, scanVars, waitVars, runNo, stopped, familyStopped, asked,
                 due, inbox, ledger, faults>>

Commit == /\ ledger' = [r \in Results |-> ledger[r] + (IF r \in inbox THEN 1 ELSE 0)]
          /\ inbox' = {}

\* Runner.checkpoint and the model request that follows it.
Checkpoint ==
  /\ phase = "open" /\ ~Waits
  /\ Commit
  /\ asked' = (asked \/ ~stopped)
  /\ due' = {r \in due : ledger'[r] = 0}
  /\ wait' = Idle
  /\ UNCHANGED <<childVars, scanVars, waitWoken, phase, runNo, stopped, familyStopped,
                 faults>>

\* An append failed: the run is cancelled, what was queued is gone.
CheckpointFails ==
  /\ phase = "open" /\ ~Waits /\ inbox /= {} /\ faults < MaxFaults
  /\ faults' = faults + 1
  /\ inbox' = {}
  /\ stopped' = TRUE
  /\ UNCHANGED <<childVars, scanVars, waitVars, phase, runNo, familyStopped, asked,
                 due, ledger>>

FinalCheckpoint ==
  /\ phase = "open" /\ asked /\ wait = Idle
  /\ Commit
  /\ phase' = IF inbox = {} THEN "closed" ELSE phase
  /\ UNCHANGED <<childVars, scanVars, waitVars, runNo, stopped, familyStopped, asked,
                 due, faults>>

\* finishInputs, and the end of the run.
RunEnd ==
  /\ phase = "closed" \/ (phase = "open" /\ stopped /\ ~Waits)
  /\ phase' = "idle"
  /\ inbox' = {} /\ asked' = FALSE /\ due' = {}
  /\ stopped' = FALSE /\ familyStopped' = FALSE
  /\ wait' = Idle
  /\ UNCHANGED <<childVars, scanVars, waitWoken, runNo, ledger, faults>>

\* StopRun, or StopFamily for the parent, which then signals.
Stop(family) ==
  /\ phase /= "idle" /\ ~stopped
  /\ stopped' = TRUE /\ familyStopped' = family
  /\ due' = {}
  /\ IF family THEN SignalChange ELSE UNCHANGED <<loopWoken, waitWoken>>
  /\ UNCHANGED <<childVars, loop, scan, retry, confirmed, wait, phase, runNo, asked,
                 inbox, ledger, faults>>

\* The process restarts: the children's runs count as interrupted, the ledger
\* and the tasks remain, and the first scan looks at every task.
Restart ==
  /\ faults < MaxFaults
  /\ faults' = faults + 1
  /\ running' = [t \in Tasks |-> FALSE] /\ tracked' = {}
  /\ loop' = [at |-> "scan", retryOnly |-> FALSE] /\ loopWoken' = FALSE
  /\ scan' = NoScan /\ retry' = {} /\ confirmed' = {}
  /\ wait' = Idle /\ waitWoken' = FALSE
  /\ phase' = "idle" /\ stopped' = FALSE /\ familyStopped' = FALSE
  /\ asked' = FALSE /\ due' = {} /\ inbox' = {}
  /\ UNCHANGED <<turn, runNo, ledger>>

-----------------------------------------------------------------------------
Scanning == \/ \E by \in {"loop", "start", "wait"} : ScanBegin(by)
            \/ \E t \in Tasks : Project(t)
            \/ Look \/ Queue \/ TaskDone \/ ScanEnd
Waiting == WaitInput \/ WaitLook \/ Sleep \/ WaitWake \/ WaitReturn

Next == \/ \E t \in Tasks : \/ ChildStart(t) \/ ChildEnd(t)
                            \/ \E seen \in {{}, EndedOf(t)} : WaitStart(t, seen)
        \/ \E t \in Tasks : Project(t)
        \/ \E r \in tracked : Signal(r)
        \/ \E by \in {"loop", "start", "wait"} : ScanBegin(by)
        \/ \E family \in BOOLEAN : Stop(family)
        \/ LoopWake \/ Look \/ Queue \/ TaskDone \/ ScanEnd
        \/ WaitLook \/ Sleep \/ WaitWake \/ WaitInput \/ WaitTimeout \/ WaitReturn
        \/ RunStart \/ StartStopped \/ Checkpoint \/ CheckpointFails
        \/ FinalCheckpoint \/ RunEnd \/ Restart

\* Goroutines go on, the ticker ticks, and an open run that is not waiting
\* reaches its next checkpoint.  Nothing says that a run or a wait ends.
Fairness ==
  /\ WF_deliveryVars(LoopWake)
  /\ \A by \in {"loop", "start", "wait"} : SF_deliveryVars(ScanBegin(by))
  /\ WF_deliveryVars(Scanning)
  /\ WF_deliveryVars(Waiting)
  /\ WF_deliveryVars(Checkpoint)
  /\ \A r \in Results : WF_deliveryVars(Signal(r))

Spec == Init /\ [][Next]_deliveryVars /\ Fairness

-----------------------------------------------------------------------------
(* Properties.                                                             *)

\* However often a result is offered, over runs, failures and restarts, the
\* parent's ledger holds it once (collaboration.go:9-58).
RecordedOnce == \A r \in Results : ledger[r] <= 1

\* When the parent makes the first model request of a run, every turn that
\* had ended before the run was announced is in its ledger, whoever else was
\* offering it (family.go:115-139, README.md:25 of subagents).
StartsInformed == asked /\ ~stopped => due = {}

\* A Wait that sleeps has missed no turn: one that ended since it looked is
\* still to be signalled (wait.go:50, subagents.go:240).
WaitMissesNothing ==
  wait.at = "sleep" /\ ~waitWoken => News(wait.target) \subseteq tracked

\* A result reaches the ledger of a parent whose run stays open
\* (notifications.go:24-45).
Undelivered(r) == r \in Ended /\ phase = "open" /\ asked /\ ~stopped
Delivered == \A r \in Results :
  Undelivered(r) ~> (ledger[r] > 0 \/ phase \in {"closed", "idle"} \/ stopped)
=============================================================================

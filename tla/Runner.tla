------------------------------- MODULE Runner -------------------------------
(***************************************************************************)
(* Admission, inputs and ending of runs: internal/runner/run.go, steer.go, *)
(* collaboration.go and the start of compact.go.                           *)
(*                                                                         *)
(* A session has at most one live run.  While the loop of that run works,  *)
(* other goroutines offer it inputs: a Steer call waits for an answer, a   *)
(* collaboration message is offered again until its identity is in the     *)
(* ledger.  Offered inputs are held in memory; only a checkpoint of the    *)
(* loop moves them to the ledger.  Stop, Close and the run's own ending    *)
(* refuse what is still held.                                              *)
(*                                                                         *)
(* One action is one critical section of handoff/mu, of Runner.mu or of    *)
(* recordsMu, or one publication: the goroutines interleave between them.  *)
(* The loop is free here to reach a checkpoint or to return at any time    *)
(* (ReactLoop says when it does), and the ledger keeps the entries this    *)
(* protocol adds: the opening prompt, the inputs, a compaction summary.    *)
(***************************************************************************)
EXTENDS Naturals, Sequences, SequencesExt

CONSTANTS
  Sessions,    (* conversation ledgers                                     *)
  Runs,        (* run identities newRunID may draw                         *)
  Steers,      (* calls of Steer, each made once                           *)
  Messages,    (* identities (MessageID) of collaboration messages         *)
  Home,        (* the session of each run and of each message              *)
  Fallible,    (* kinds of event of which a listener may return an error   *)
  DiskFaults,  (* whether a ledger append or a record write may fail       *)
  NoRun        (* no run                                                   *)

Inputs == Steers \cup Messages

(* Operators named Op_Fault are faulty variants of Op; no specification     *)
(* uses them, the mutation runs put them in the place of Op.               *)
(*                                                                         *)
(* Items are compared with each other in the ledger, so inputs are no      *)
(* strings; an input is not both a call and a message.                     *)
ASSUME RunnerAssumption ==
  /\ Home \in [Runs \cup Messages -> Sessions]
  /\ Steers \cap Messages = {}
  /\ {"prompt", "summary"} \cap Inputs = {}
  /\ NoRun \notin Runs
  /\ Fallible \subseteq {"Message", "RunStarted", "RunEnded"}
  /\ DiskFaults \in BOOLEAN

VARIABLES
  live,       (* Runner.live: the run that occupies a session              *)
  pc,         (* how far the goroutine of a run has come                   *)
  kind,       (* liveRun.compact                                           *)
  steering,   (* liveRun.steeringState                                     *)
  cancelled,  (* the run's context is cancelled                            *)
  pending,    (* liveRun.pendingInputs                                     *)
  batch,      (* inputs a checkpoint took and has not answered yet         *)
  good,       (* how many of batch, from its head, are in the ledger       *)
  faulty,     (* an append or a publication of this batch failed           *)
  ledger,     (* messages.jsonl of a session                               *)
  record,     (* the status of the run in runs.json                        *)
  err,        (* the error the run will report                             *)
  told,       (* the last lifecycle event handed to the listeners          *)
  call,       (* where a Steer call is                                     *)
  answer,     (* what is in the result channel of a Steer call             *)
  offer,      (* where the delivery of a collaboration message is          *)
  target,     (* the liveRun a Steer call or a delivery holds on to        *)
  admitted,   (* history: the inputs admitted to a run, in order           *)
  closing,    (* Runner.closeStarted, and whether Close has returned       *)
  toStop      (* the runs Close has still to shut down                     *)

runVars   == <<live, pc, kind, err, told, record>>
inputVars == <<steering, cancelled, pending, answer>>
batchVars == <<batch, good, faulty>>
callVars  == <<call, offer, target, admitted>>
closeVars == <<closing, toStop>>
vars == <<runVars, inputVars, batchVars, callVars, closeVars, ledger>>

Phases == {"new", "prepare", "append", "record", "announce", "open", "starting",
           "initial", "loop", "answer", "compacting", "finish", "save", "end",
           "release", "complete", "done"}
Entries == [run : Runs, item : Inputs \cup {"prompt", "summary"}]

-----------------------------------------------------------------------------
(* Helpers *)

Entry(r, x) == [run |-> r, item |-> x]
InLedger(s, x) == \E k \in DOMAIN ledger[s] : ledger[s][k].item = x
Held(r) == ToSet(pending[r])

(* Every phase in which the goroutine of a run may still write. *)
Active(r) == pc[r] \notin {"new", "complete", "done"}

Goto(r, phase) == pc' = [pc EXCEPT ![r] = phase]
GotoWith(r, phase, e) == Goto(r, phase) /\ err' = [err EXCEPT ![r] = e]

(* The condition under which steer and Receive may hold an input. *)
Admitting_UnlessNew(r) == steering[r] # "initializing"
Admitting(r) == steering[r] = "open"

(* finishInputs: close admission, cancel, and refuse every input still     *)
(* held.  The result channel has room for the one answer it ever gets.     *)
FinishInputs_KeepsHeld(r) ==
  /\ steering' = [steering EXCEPT ![r] = "closed"]
  /\ cancelled' = [cancelled EXCEPT ![r] = TRUE]
  /\ answer' = [i \in Steers |-> IF i \in Held(r) THEN "changed" ELSE answer[i]]
  /\ UNCHANGED pending
FinishInputs_NoAnswer(r) ==
  /\ steering' = [steering EXCEPT ![r] = "closed"]
  /\ cancelled' = [cancelled EXCEPT ![r] = TRUE]
  /\ pending' = [pending EXCEPT ![r] = <<>>]
  /\ UNCHANGED answer
FinishInputs_NoCancel(r) ==
  /\ steering' = [steering EXCEPT ![r] = "closed"]
  /\ pending' = [pending EXCEPT ![r] = <<>>]
  /\ answer' = [i \in Steers |-> IF i \in Held(r) THEN "changed" ELSE answer[i]]
  /\ UNCHANGED cancelled
FinishInputs(r) ==
  /\ steering' = [steering EXCEPT ![r] = "closed"]
  /\ cancelled' = [cancelled EXCEPT ![r] = TRUE]
  /\ pending' = [pending EXCEPT ![r] = <<>>]
  /\ answer' = [i \in Steers |-> IF i \in Held(r) THEN "changed" ELSE answer[i]]

(* isCancellationOnly decides between cancelled and failed. *)
Status(e) == IF e = "nil" THEN "succeeded" ELSE e

-----------------------------------------------------------------------------
Init ==
  /\ live = [s \in Sessions |-> NoRun]
  /\ pc = [r \in Runs |-> "new"]
  /\ kind = [r \in Runs |-> "turn"]
  /\ steering = [r \in Runs |-> "initializing"]
  /\ cancelled = [r \in Runs |-> FALSE]
  /\ pending = [r \in Runs |-> <<>>]
  /\ batch = [r \in Runs |-> <<>>]
  /\ good = [r \in Runs |-> 0]
  /\ faulty = [r \in Runs |-> FALSE]
  /\ ledger = [s \in Sessions |-> <<>>]
  /\ record = [r \in Runs |-> "none"]
  /\ err = [r \in Runs |-> "nil"]
  /\ told = [r \in Runs |-> "nothing"]
  /\ call = [i \in Steers |-> "idle"]
  /\ answer = [i \in Steers |-> "none"]
  /\ offer = [m \in Messages |-> "idle"]
  /\ target = [i \in Inputs |-> NoRun]
  /\ admitted = [r \in Runs |-> <<>>]
  /\ closing = "no"
  /\ toStop = {}

-----------------------------------------------------------------------------
(* The goroutine of a run: Start and Compact *)

(* begin, under Runner.mu: the session is free and Close has not started.  *)
MayBegin_NoOccupancyCheck(r) == closing = "no"
MayBegin_NoCloseCheck(r) == live[Home[r]] = NoRun
MayBegin(r) == closing = "no" /\ live[Home[r]] = NoRun

(* openLive: occupy the session. *)
Begin(r, k) ==
  /\ pc[r] = "new"
  /\ MayBegin(r)
  /\ live' = [live EXCEPT ![Home[r]] = r]
  /\ kind' = [kind EXCEPT ![r] = k]
  /\ Goto(r, "prepare")
  /\ UNCHANGED <<err, told, record, inputVars, batchVars, callVars, closeVars, ledger>>

(* prepareActive, or the checks of Compact: settings, agent and a context  *)
(* that is still alive; any failure gives the session back at once.        *)
Prepare(r) ==
  /\ pc[r] = "prepare"
  /\ \/ /\ ~cancelled[r]
        /\ Goto(r, IF kind[r] = "turn" THEN "append" ELSE "record")
        /\ UNCHANGED err
     \/ GotoWith(r, "release", IF cancelled[r] THEN "cancelled" ELSE "failed")
  /\ UNCHANGED <<live, kind, told, record, inputVars, batchVars, callVars, closeVars, ledger>>

(* The prompt is the first entry of the run; it is appended even when the  *)
(* run has been stopped meanwhile.                                         *)
AppendPrompt(r) ==
  /\ pc[r] = "append"
  /\ \/ /\ ledger' = [ledger EXCEPT ![Home[r]] = Append(@, Entry(r, "prompt"))]
        /\ Goto(r, "record")
        /\ UNCHANGED err
     \/ /\ DiskFaults
        /\ GotoWith(r, "finish", "failed")
        /\ UNCHANGED ledger
  /\ UNCHANGED <<live, kind, told, record, inputVars, batchVars, callVars, closeVars>>

SaveRunning(r) ==
  /\ pc[r] = "record"
  /\ \/ /\ record' = [record EXCEPT ![r] = "running"]
        /\ Goto(r, IF kind[r] = "turn" THEN "announce" ELSE "starting")
        /\ UNCHANGED err
     \/ /\ DiskFaults
        /\ GotoWith(r, IF kind[r] = "turn" THEN "finish" ELSE "release", "failed")
        /\ UNCHANGED record
  /\ UNCHANGED <<live, kind, told, inputVars, batchVars, callVars, closeVars, ledger>>

AnnouncePrompt(r) ==
  /\ pc[r] = "announce"
  /\ \/ Goto(r, "open") /\ UNCHANGED err
     \/ "Message" \in Fallible /\ GotoWith(r, "finish", "failed")
  /\ UNCHANGED <<live, kind, told, record, inputVars, batchVars, callVars, closeVars, ledger>>

(* openSteering: admission opens once, and never after a stop. *)
OpenSteering(r) ==
  /\ pc[r] = "open"
  /\ IF steering[r] = "initializing" /\ ~cancelled[r]
     THEN /\ steering' = [steering EXCEPT ![r] = "open"]
          /\ Goto(r, "starting")
          /\ UNCHANGED err
     ELSE /\ steering' = [steering EXCEPT ![r] = "closed"]
          /\ GotoWith(r, "finish", "cancelled")
  /\ UNCHANGED <<live, kind, told, record, cancelled, pending, answer, batchVars,
                 callVars, closeVars, ledger>>

(* From here on a RunEnded is owed, whether or not a listener fails. *)
AnnounceStarted(r) ==
  /\ pc[r] = "starting"
  /\ told' = [told EXCEPT ![r] = "started"]
  /\ \/ /\ Goto(r, IF kind[r] = "turn" THEN "initial" ELSE "compacting")
        /\ UNCHANGED err
     \/ /\ "RunStarted" \in Fallible
        /\ GotoWith(r, IF kind[r] = "turn" THEN "finish" ELSE "save", "failed")
  /\ UNCHANGED <<live, kind, record, inputVars, batchVars, callVars, closeVars, ledger>>

(* checkpoint under handoff.  Nothing held: the final phase closes         *)
(* admission in the same step, so no input slips in behind it, and the     *)
(* loop returns; the first one of a run lets the loop begin.  Otherwise    *)
(* all that is held is appended in order, up to the first append that      *)
(* fails.                                                                  *)
CheckpointEmpty(r, phase) ==
  /\ pending[r] = <<>>
  /\ \/ pc[r] = "initial" /\ phase = "continue" /\ Goto(r, "loop") /\ UNCHANGED steering
     \/ /\ pc[r] = "loop" /\ phase = "final"
        /\ steering' = [steering EXCEPT ![r] = "closed"]
        /\ Goto(r, "finish")
  /\ UNCHANGED <<live, kind, err, told, record, cancelled, pending, answer, batchVars,
                 callVars, closeVars, ledger>>

CheckpointCommit(r) ==
  /\ pc[r] \in {"initial", "loop"}
  /\ pending[r] # <<>>
  /\ \E n \in 0..Len(pending[r]) :
       /\ n = Len(pending[r]) \/ DiskFaults
       /\ ledger' = [ledger EXCEPT ![Home[r]] =
                       @ \o [k \in 1..n |-> Entry(r, pending[r][k])]]
       /\ good' = [good EXCEPT ![r] = n]
       /\ faulty' = [faulty EXCEPT ![r] = n < Len(pending[r])]
  /\ batch' = [batch EXCEPT ![r] = pending[r]]
  /\ pending' = [pending EXCEPT ![r] = <<>>]
  /\ Goto(r, "answer")
  /\ UNCHANGED <<live, kind, err, told, record, steering, cancelled, answer, callVars, closeVars>>

(* After handoff is given back: publish the entry and answer its caller,   *)
(* one input after the other; inputs that were not appended get the error. *)
OneLess_Unchecked(n) == n - 1
OneLess(n) == IF n > 0 THEN n - 1 ELSE 0
Appended_Unchecked(r) == TRUE
Appended(r) == good[r] > 0
AnswerHead(r, a) == answer' = [i \in Steers |-> IF i = Head(batch[r]) THEN a ELSE answer[i]]
AnswerNext(r) ==
  /\ pc[r] = "answer"
  /\ batch[r] # <<>>
  /\ \/ Appended(r) /\ AnswerHead(r, "nil") /\ UNCHANGED faulty
     \/ /\ ~Appended(r) \/ "Message" \in Fallible
        /\ AnswerHead(r, "failed")
        /\ faulty' = [faulty EXCEPT ![r] = TRUE]
  /\ batch' = [batch EXCEPT ![r] = Tail(@)]
  /\ good' = [good EXCEPT ![r] = OneLess(@)]
  /\ UNCHANGED <<runVars, steering, cancelled, pending, callVars, closeVars, ledger>>

(* A checkpoint that failed stops the run before it returns its error.     *)
FinishBatch_GoesOn(r) ==
  /\ pc[r] = "answer"
  /\ batch[r] = <<>>
  /\ Goto(r, "loop")
  /\ UNCHANGED <<live, kind, err, told, record, inputVars, batchVars, callVars, closeVars, ledger>>
FinishBatch(r) ==
  /\ pc[r] = "answer"
  /\ batch[r] = <<>>
  /\ IF faulty[r]
     THEN FinishInputs(r) /\ GotoWith(r, "finish", "failed")
     ELSE Goto(r, "loop") /\ UNCHANGED <<err, inputVars>>
  /\ UNCHANGED <<live, kind, told, record, batchVars, callVars, closeVars, ledger>>

(* The loop (or what precedes it: context check, policy, second record)    *)
(* returns: an error at any time, nil also without a final checkpoint when *)
(* the model's answer is empty.                                            *)
LoopReturn(r) ==
  /\ pc[r] = "loop"
  /\ \E e \in {"nil", "failed"} \cup (IF cancelled[r] THEN {"cancelled"} ELSE {}) :
       GotoWith(r, "finish", e)
  /\ UNCHANGED <<live, kind, told, record, inputVars, batchVars, callVars, closeVars, ledger>>

(* runCompact: the summary is appended under handoff, and only while the   *)
(* context is alive.                                                       *)
CompactReturn(r) ==
  /\ pc[r] = "compacting"
  /\ \/ /\ ~cancelled[r]
        /\ ledger' = [ledger EXCEPT ![Home[r]] = Append(@, Entry(r, "summary"))]
        /\ \/ GotoWith(r, "save", "nil")
           \/ "Message" \in Fallible /\ GotoWith(r, "save", "failed")
     \/ /\ GotoWith(r, "save", IF cancelled[r] THEN "cancelled" ELSE "failed")
        /\ UNCHANGED ledger
  /\ UNCHANGED <<live, kind, told, record, inputVars, batchVars, callVars, closeVars>>

(* The deferred ending of executePrepared; a recorded run also writes the  *)
(* drafts that are still open, which may fail.                             *)
Finish(r) ==
  /\ pc[r] = "finish"
  /\ FinishInputs(r)
  /\ Goto(r, IF record[r] = "none" THEN "release" ELSE "save")
  /\ \/ UNCHANGED err
     \/ DiskFaults /\ record[r] # "none" /\ err' = [err EXCEPT ![r] = "failed"]
  /\ UNCHANGED <<live, kind, told, record, batchVars, callVars, closeVars, ledger>>

(* finishRun: the terminal record, then RunEnded if RunStarted was tried.  *)
EndOwed_OnSuccess(r) == told[r] = "started" /\ err[r] = "nil"
EndOwed(r) == told[r] = "started"
SaveEnd(r) ==
  /\ pc[r] = "save"
  /\ Goto(r, IF EndOwed(r) THEN "end" ELSE "release")
  /\ \/ record' = [record EXCEPT ![r] = Status(err[r])] /\ UNCHANGED err
     \/ DiskFaults /\ err' = [err EXCEPT ![r] = "failed"] /\ UNCHANGED record
  /\ UNCHANGED <<live, kind, told, inputVars, batchVars, callVars, closeVars, ledger>>

AnnounceEnd(r) ==
  /\ pc[r] = "end"
  /\ told' = [told EXCEPT ![r] = "ended"]
  /\ Goto(r, "release")
  /\ \/ UNCHANGED err
     \/ "RunEnded" \in Fallible /\ err' = [err EXCEPT ![r] = "failed"]
  /\ UNCHANGED <<live, kind, record, inputVars, batchVars, callVars, closeVars, ledger>>

(* release: by now admission is closed or was never opened, so refusing    *)
(* and freeing the session can be one step.                                *)
Release(r) ==
  /\ pc[r] = "release"
  /\ FinishInputs(r)
  /\ live' = IF live[Home[r]] = r THEN [live EXCEPT ![Home[r]] = NoRun] ELSE live
  /\ Goto(r, "complete")
  /\ UNCHANGED <<kind, err, told, record, batchVars, callVars, closeVars, ledger>>

(* RunHandle.complete and wg.Done. *)
Complete(r) ==
  /\ pc[r] = "complete"
  /\ Goto(r, "done")
  /\ UNCHANGED <<live, kind, err, told, record, inputVars, batchVars, callVars, closeVars, ledger>>

-----------------------------------------------------------------------------
(* Callers: Steer, Receive, Stop, Close *)

(* Steer looks the session's run up; a run other than the expected one is  *)
(* the same refusal whether it is noticed now or under handoff.            *)
SteerLookup(i, r) ==
  /\ call[i] = "idle"
  /\ pc[r] # "new"
  /\ IF live[Home[r]] = r
     THEN /\ call' = [call EXCEPT ![i] = "looked"]
          /\ target' = [target EXCEPT ![i] = r]
     ELSE call' = [call EXCEPT ![i] = "changed"] /\ UNCHANGED target
  /\ UNCHANGED <<offer, admitted, runVars, inputVars, batchVars, closeVars, ledger>>

(* Under handoff and mu: held only while admission is open. *)
SteerAdmit(i) ==
  /\ call[i] = "looked"
  /\ LET r == target[i] IN
     IF Admitting(r)
     THEN /\ pending' = [pending EXCEPT ![r] = Append(@, i)]
          /\ admitted' = [admitted EXCEPT ![r] = Append(@, i)]
          /\ call' = [call EXCEPT ![i] = "waiting"]
     ELSE call' = [call EXCEPT ![i] = "changed"] /\ UNCHANGED <<pending, admitted>>
  /\ UNCHANGED <<offer, target, steering, cancelled, answer, runVars, batchVars, closeVars, ledger>>

SteerReturn(i) ==
  /\ call[i] = "waiting"
  /\ answer[i] # "none"
  /\ call' = [call EXCEPT ![i] = answer[i]]
  /\ UNCHANGED <<offer, target, admitted, runVars, inputVars, batchVars, closeVars, ledger>>

(* The caller's context ends; what it offered stays held. *)
SteerAbandon(i) ==
  /\ call[i] = "waiting"
  /\ call' = [call EXCEPT ![i] = "abandoned"]
  /\ UNCHANGED <<offer, target, admitted, runVars, inputVars, batchVars, closeVars, ledger>>

(* Receive reads the ledger and looks the run up before it takes handoff;  *)
(* without a live run it returns false and changes nothing.                *)
ReceiveLookup(m) ==
  /\ offer[m] = "idle"
  /\ IF InLedger(Home[m], m)
     THEN offer' = [offer EXCEPT ![m] = "delivered"] /\ UNCHANGED target
     ELSE /\ live[Home[m]] # NoRun
          /\ offer' = [offer EXCEPT ![m] = "looked"]
          /\ target' = [target EXCEPT ![m] = live[Home[m]]]
  /\ UNCHANGED <<call, admitted, runVars, inputVars, batchVars, closeVars, ledger>>

(* Under handoff: the ledger and the held inputs are read again. *)
RecordedNow_Stale(m) == FALSE
RecordedNow(m) == InLedger(Home[m], m)
ReceiveAdmit(m) ==
  /\ offer[m] = "looked"
  /\ LET r == target[m]
         recorded == RecordedNow(m)
     IN
     /\ offer' = [offer EXCEPT ![m] = IF recorded THEN "delivered" ELSE "idle"]
     /\ IF ~recorded /\ m \notin Held(r) /\ Admitting(r)
        THEN /\ pending' = [pending EXCEPT ![r] = Append(@, m)]
             /\ admitted' = [admitted EXCEPT ![r] = Append(@, m)]
        ELSE UNCHANGED <<pending, admitted>>
  /\ UNCHANGED <<call, target, steering, cancelled, answer, runVars, batchVars, closeVars, ledger>>

(* Stop and StopRun hold a liveRun they looked up earlier: the run may     *)
(* have ended, or a later one begun, since.                                *)
Stop(r) ==
  /\ pc[r] # "new"
  /\ ~cancelled[r] \/ steering[r] # "closed"
  /\ FinishInputs(r)
  /\ UNCHANGED <<runVars, batchVars, callVars, closeVars, ledger>>

(* The context the run was started with is cancelled: admission stays as   *)
(* it is until the run notices.                                            *)
ContextCancelled(r) ==
  /\ Active(r)
  /\ ~cancelled[r]
  /\ cancelled' = [cancelled EXCEPT ![r] = TRUE]
  /\ UNCHANGED <<steering, pending, answer, runVars, batchVars, callVars, closeVars, ledger>>

RunsToStop_None == {}
RunsToStop == {r \in Runs : live[Home[r]] = r}
CloseBegin ==
  /\ closing = "no"
  /\ closing' = "stopping"
  /\ toStop' = RunsToStop
  /\ UNCHANGED <<runVars, inputVars, batchVars, callVars, ledger>>

CloseStop(r) ==
  /\ r \in toStop
  /\ toStop' = toStop \ {r}
  /\ FinishInputs(r)
  /\ UNCHANGED <<closing, runVars, batchVars, callVars, ledger>>

(* wg counts the runs between begin and Complete. *)
CloseReturn ==
  /\ closing = "stopping"
  /\ toStop = {}
  /\ \A r \in Runs : pc[r] \in {"new", "done"}
  /\ closing' = "closed"
  /\ UNCHANGED <<toStop, runVars, inputVars, batchVars, callVars, ledger>>

-----------------------------------------------------------------------------
RunStep(r) ==
  \/ Prepare(r) \/ AppendPrompt(r) \/ SaveRunning(r) \/ AnnouncePrompt(r)
  \/ OpenSteering(r) \/ AnnounceStarted(r) \/ CheckpointCommit(r)
  \/ AnswerNext(r) \/ FinishBatch(r) \/ CompactReturn(r)
  \/ Finish(r) \/ SaveEnd(r) \/ AnnounceEnd(r) \/ Release(r) \/ Complete(r)

Next ==
  \/ \E r \in Runs : \/ \E k \in {"turn", "compact"} : Begin(r, k)
                     \/ RunStep(r)
                     \/ \E phase \in {"continue", "final"} : CheckpointEmpty(r, phase)
                     \/ LoopReturn(r)
                     \/ Stop(r)
                     \/ ContextCancelled(r)
                     \/ CloseStop(r)
  \/ \E i \in Steers : \/ \E r \in Runs : SteerLookup(i, r)
                       \/ SteerAdmit(i)
                       \/ SteerReturn(i)
                       \/ SteerAbandon(i)
  \/ \E m \in Messages : ReceiveLookup(m) \/ ReceiveAdmit(m)
  \/ CloseBegin
  \/ CloseReturn

Spec == Init /\ [][Next]_vars

(* Goroutines keep running.  A loop may work for ever, with these limits:  *)
(* its model request and its tools end, so it reaches a checkpoint while   *)
(* an input is held, and it returns once its context is cancelled.         *)
Progress(r) ==
  \/ RunStep(r)
  \/ CheckpointEmpty(r, "continue")
  \/ cancelled[r] /\ LoopReturn(r)

Fairness ==
  /\ \A r \in Runs : WF_vars(Progress(r)) /\ WF_vars(CloseStop(r))
  /\ \A i \in Steers : WF_vars(SteerReturn(i))
  /\ WF_vars(CloseReturn)

FairSpec == Spec /\ Fairness

-----------------------------------------------------------------------------
(* Properties *)

RunsTyped ==
  /\ live \in [Sessions -> Runs \cup {NoRun}]
  /\ pc \in [Runs -> Phases]
  /\ kind \in [Runs -> {"turn", "compact"}]
  /\ err \in [Runs -> {"nil", "cancelled", "failed"}]
  /\ told \in [Runs -> {"nothing", "started", "ended"}]
  /\ record \in [Runs -> {"none", "running", "succeeded", "cancelled", "failed"}]

InputsTyped ==
  /\ steering \in [Runs -> {"initializing", "open", "closed"}]
  /\ cancelled \in [Runs -> BOOLEAN]
  /\ pending \in [Runs -> Seq(Inputs)]
  /\ answer \in [Steers -> {"none", "nil", "changed", "failed"}]

BatchesTyped ==
  /\ batch \in [Runs -> Seq(Inputs)]
  /\ good \in [Runs -> Nat]
  /\ faulty \in [Runs -> BOOLEAN]

CallsTyped ==
  /\ call \in [Steers -> {"idle", "looked", "waiting", "nil", "changed", "failed", "abandoned"}]
  /\ offer \in [Messages -> {"idle", "looked", "delivered"}]
  /\ target \in [Inputs -> Runs \cup {NoRun}]
  /\ admitted \in [Runs -> Seq(Inputs)]
  /\ \A i \in Steers : call[i] \notin {"idle", "changed"} => target[i] \in Runs
  /\ \A m \in Messages : offer[m] = "looked" => target[m] \in Runs

TypeOK ==
  /\ RunsTyped /\ InputsTyped /\ BatchesTyped /\ CallsTyped
  /\ ledger \in [Sessions -> Seq(Entries)]
  /\ closing \in {"no", "stopping", "closed"}
  /\ toStop \in SUBSET Runs

(* One session, one live run (README of runner): a run that may still      *)
(* write, in whatever phase, is the one that occupies its session.         *)
OneActiveRun == \A r \in Runs : Active(r) => live[Home[r]] = r

(* Nothing is stranded: inputs are held only while admission is open,      *)
(* which it is not before the prompt has been published and not any more   *)
(* when the session is given back.                                         *)
NothingStranded ==
  \A r \in Runs : /\ pending[r] # <<>> => steering[r] = "open"
                  /\ pc[r] \in {"new", "prepare", "append", "record", "announce", "open"} =>
                       steering[r] # "open"
                  /\ pc[r] \in {"complete", "done"} => steering[r] = "closed"

Nowhere(i) ==
  /\ \A s \in Sessions : ~InLedger(s, i)
  /\ \A r \in Runs : i \notin Held(r)

(* ErrRunChanged means the message did not enter the conversation: a Steer *)
(* refused at admission, by Stop or by the end of the run, is in no ledger *)
(* and is not going to be (conversations resends it as a new turn).        *)
RefusedNeverRecorded ==
  \A i \in Steers : (call[i] = "changed" \/ answer[i] = "changed") => Nowhere(i)

(* A call that has not been admitted is nowhere and has no refusal waiting *)
(* for it; one that is held is held by the run it was addressed to alone,  *)
(* has not been refused, and has not been recorded either.                 *)
SteersInOnePlace ==
  \A i \in Steers :
    /\ call[i] \in {"idle", "looked"} => answer[i] # "changed" /\ Nowhere(i)
    /\ \A r \in Runs : i \in Held(r) =>
         /\ call[i] \notin {"idle", "looked", "changed"}
         /\ target[i] = r
         /\ answer[i] # "changed"
         /\ \A s \in Sessions : ~InLedger(s, i)

(* nil means the message is in the ledger of the run it was addressed to.   *)
(* Any other answer of a checkpoint means that this run gives up: it takes *)
(* no more inputs, so that none is recorded after one that was lost.       *)
AcknowledgedIsRecorded ==
  \A i \in Steers :
    /\ answer[i] = "nil" => \E k \in DOMAIN ledger[Home[target[i]]] :
                              ledger[Home[target[i]]][k] = Entry(target[i], i)
    /\ answer[i] = "failed" => faulty[target[i]] \/ steering[target[i]] = "closed"

(* Inputs enter the ledger in the order in which they were admitted and    *)
(* without gaps, over all the checkpoints of a run: the entry that comes j *)
(* places behind its prompt is the jth input it admitted.  When one could  *)
(* not be appended, nothing admitted after it is (steer.go:142-206).       *)
CommittedInOrder ==
  \A s \in Sessions : \A p, k \in DOMAIN ledger[s] :
    LET r == ledger[s][k].run IN
    (p < k /\ ledger[s][p].run = r /\ ledger[s][p].item \in {"prompt", "summary"}) =>
      k - p \in DOMAIN admitted[r] /\ ledger[s][k].item = admitted[r][k - p]

(* A collaboration message, offered again after every doubt, and a Steer   *)
(* enter the ledger at most once.                                          *)
RecordedOnce ==
  \A s \in Sessions : \A j, k \in DOMAIN ledger[s] :
    (ledger[s][j].item = ledger[s][k].item /\ ledger[s][j].item \in Inputs) => j = k

(* What is recorded of a run's inputs is a prefix of them, in order, and   *)
(* nothing is recorded twice, whatever a checkpoint, a failed append or a  *)
(* repeated message does (steer.go).                                       *)
RecordedInOrder == CommittedInOrder /\ RecordedOnce

(* The entries of a run are one block of the ledger, with its prompt at    *)
(* the head: no input reaches the ledger before the prompt it is steering, *)
(* and none after the next turn has begun.                                 *)
RunsAreBlocks ==
  \A s \in Sessions : \A k \in DOMAIN ledger[s] :
    \/ ledger[s][k].item \in {"prompt", "summary"}
    \/ k > 1 /\ ledger[s][k - 1].run = ledger[s][k].run

(* RunEnded is owed for every RunStarted and is the last word of a run: by *)
(* the time the session is free it has been published, and the record does *)
(* not say running unless it could not be written.                         *)
StartedIsEnded ==
  \A r \in Runs : pc[r] \in {"release", "complete", "done"} =>
    /\ told[r] # "started"
    /\ batch[r] = <<>>
    /\ (record[r] = "running") => err[r] = "failed"

(* Once Close has returned, nothing is written any more. *)
ClosedIsQuiet == [][closing = "closed" => UNCHANGED <<ledger, record, live, told>>]_vars

(* An answer is given once: a second one would block the goroutine of the  *)
(* run on the result channel for ever.                                     *)
AnsweredOnce == [][\A i \in Steers : answer[i] # "none" => answer'[i] = answer[i]]_vars

(* Every caller of Steer gets an answer. *)
WaiterReturns == \A i \in Steers : call[i] = "waiting" ~> call[i] # "waiting"

(* A run that takes no more inputs, because it was stopped or reached its  *)
(* final checkpoint, ends and is waited for.                               *)
ClosedRunEnds == \A r \in Runs : steering[r] = "closed" ~> pc[r] = "done"

(* Close returns: every run it found is stopped and ends. *)
CloseReturns == closing = "stopping" ~> closing = "closed"

(* The runner keeps the promises of InputLog: the queue is what the live   *)
(* run of the session holds.                                               *)
Fate(i) ==
  IF \E s \in Sessions : InLedger(s, i) THEN "logged"
  ELSE IF \E r \in Runs : i \in Held(r) THEN "held"
  ELSE IF i \in Steers /\ \E r \in Runs : i \in ToSet(admitted[r]) THEN "refused"
  ELSE "free"

Promise == INSTANCE InputLog WITH
  Openings <- {"prompt", "summary"},
  log <- [s \in Sessions |-> [k \in DOMAIN ledger[s] |-> ledger[s][k].item]],
  queue <- [s \in Sessions |-> IF live[s] = NoRun THEN <<>> ELSE pending[live[s]]],
  fate <- [i \in Inputs |-> Fate(i)]

KeepsPromise == Promise!Spec

(* A caller of Steer hears one answer, and what a run holds for it is      *)
(* recorded or refused before its session is given back (steer.go, run.go). *)
AnswersHold == AnsweredOnce /\ KeepsPromise
=============================================================================

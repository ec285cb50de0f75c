----------------------------- MODULE ReactLoop -----------------------------
(***************************************************************************)
(* One session's turns as the ReAct loop drives them:                      *)
(* internal/loops/react/react.go, with the ledger it writes through the    *)
(* Runner (emit.go), its checkpoints (steer.go), the compaction of the     *)
(* context (compact.go) and the reading of it (session.go).                *)
(*                                                                         *)
(* An entry of the ledger is its kind, the tool calls an answer issues,    *)
(* the call a result belongs to, and the entries a summary keeps.  Texts,  *)
(* token counts and budgets are choices of the environment.                *)
(***************************************************************************)
EXTENDS Naturals, Sequences, SequencesExt, FiniteSets

CONSTANTS
  Calls,      (* identities of tool calls a model may issue                *)
  MaxBatch,   (* bound: calls of one answer                                *)
  MaxInputs,  (* bound: inputs steered into the session                    *)
  MaxTurns,   (* bound: turns of the session                               *)
  Compacts,   (* whether the context may be over its budget                *)
  DiskFaults, (* whether the ledger, a record or a diff may not be written *)
  Crashes,    (* whether the process may stop in the middle of a turn      *)
  NoCall      (* no call                                                   *)

ASSUME ReactLoopAssumption ==
  /\ IsFiniteSet(Calls) /\ NoCall \notin Calls
  /\ MaxBatch \in Nat /\ MaxInputs \in Nat /\ MaxTurns \in Nat
  /\ {Compacts, DiskFaults, Crashes} \subseteq BOOLEAN

VARIABLES
  ledger,    (* the entries of the session                                 *)
  pc,        (* where the loop is                                          *)
  history,   (* the entries the loop will send, as positions in the ledger *)
  batch,     (* the calls of the last answer that have no result yet       *)
  final,     (* the last answer had no calls                               *)
  retried,   (* this step has been recovered from a full context           *)
  lastHead,  (* liveRun.lastCompactHead, 0 when none                       *)
  draft,     (* text was streamed that no entry holds                      *)
  cancelled, (* the context of the run is cancelled                        *)
  waiting,   (* inputs held for the next checkpoint                        *)
  offered,   (* inputs offered so far                                      *)
  turns      (* turns begun so far                                         *)

loopVars  == <<history, batch, final, retried, lastHead, draft>>
outerVars == <<cancelled, waiting, offered, turns>>
vars == <<ledger, pc, loopVars, outerVars>>

Kinds == {"prompt", "steer", "answer", "partial", "result", "summary"}
IsUser(e) == e.kind \in {"prompt", "steer"}

Entry(k)     == [kind |-> k, calls |-> <<>>, of |-> NoCall, kept |-> <<>>]
Answer(cs)   == [Entry("answer") EXCEPT !.calls = cs]
Result(c)    == [Entry("result") EXCEPT !.of = c]
Summary(ps)  == [Entry("summary") EXCEPT !.kept = ps]

Issued == UNION {ToSet(ledger[k].calls) : k \in DOMAIN ledger}

(* ContextEntries: everything, or the last summary, what it keeps and what *)
(* follows it.                                                             *)
Span(a, b) == [k \in 1..(IF b < a THEN 0 ELSE b - a + 1) |-> a + k - 1]
Latest(ps) == IF ps = {} THEN 0 ELSE CHOOSE k \in ps : \A j \in ps : j <= k
Summaries(l) == {k \in DOMAIN l : l[k].kind = "summary"}
Users(l) == {k \in DOMAIN l : IsUser(l[k])}
Context(l) ==
  LET s == Latest(Summaries(l))
  IN IF s = 0 THEN Span(1, Len(l)) ELSE <<s>> \o l[s].kept \o Span(s + 1, Len(l))

(* compactSelection.  The calls of the first n entries of c still open: *)
OpenCalls(c, n) ==
  (UNION {ToSet(ledger[c[k]].calls) : k \in 1..n}) \ {ledger[c[k]].of : k \in 1..n}
(* a cut never separates a call from its result;                           *)
Boundaries_Anywhere(c) == 2..Len(c)
Boundaries(c) ==
  {n \in 2..Len(c) : OpenCalls(c, n - 1) = {} /\ ledger[c[n]].kind # "result"}
(* and what is kept is the last thing the user said, and all from the cut. *)
Kept_Tail(c, cut) == SubSeq(c, cut, Len(c))
Kept(c, cut) ==
  LET user == Latest({k \in DOMAIN c : IsUser(ledger[c[k]])})
  IN (IF user \in 1..(cut - 1) THEN <<c[user]>> ELSE <<>>) \o SubSeq(c, cut, Len(c))

Init ==
  /\ ledger = <<>>
  /\ pc = "idle"
  /\ history = <<>> /\ batch = <<>>
  /\ final = FALSE /\ retried = FALSE /\ lastHead = 0 /\ draft = FALSE
  /\ cancelled = FALSE /\ waiting = 0 /\ offered = 0 /\ turns = 0

-----------------------------------------------------------------------------
(* Steps of the loop *)

Return == pc' = "finish"

(* What a run has in memory ends with it. *)
Forget ==
  /\ pc' = "idle"
  /\ history' = <<>> /\ batch' = <<>>
  /\ final' = FALSE /\ retried' = FALSE /\ lastHead' = 0 /\ draft' = FALSE
  /\ cancelled' = FALSE /\ waiting' = 0

(* Emit of a message: the ledger first.  A message that cannot be written  *)
(* ends the loop.                                                          *)
Write(e) == ledger' = Append(ledger, e)
WriteFails == DiskFaults /\ Return /\ UNCHANGED ledger

(* executePrepared: the prompt, and the history as the ledger has it. *)
Turn ==
  /\ pc = "idle"
  /\ turns < MaxTurns
  /\ turns' = turns + 1
  /\ Write(Entry("prompt"))
  /\ history' = Context(ledger')
  /\ pc' = "initial"
  /\ UNCHANGED <<batch, final, retried, lastHead, draft, cancelled, waiting, offered>>

(* compactHistory: choose a cut, have the rest summarised, append.  It     *)
(* fails without a cut, when cancelled, and when the model fails.          *)
NothingNew_Never == FALSE
NothingNew == lastHead = Len(ledger)
CompactHistory ==
  \/ /\ ~NothingNew /\ ~cancelled
     /\ LET c == Context(ledger) IN
        /\ OpenCalls(c, Len(c)) = {}
        /\ \E cut \in Boundaries(c) : Write(Summary(Kept(c, cut)))
     /\ lastHead' = Len(ledger')
     /\ history' = Context(ledger')
     /\ pc' = "request" \/ (DiskFaults /\ Return)
  \/ Return /\ UNCHANGED <<ledger, lastHead, history>>

(* manageContext before a request: only when the estimate is over budget. *)
ManageContext ==
  /\ pc = "compact"
  /\ \/ pc' = "request" /\ UNCHANGED <<ledger, lastHead, history>>
     \/ Compacts /\ CompactHistory
  /\ UNCHANGED <<batch, final, retried, draft, outerVars>>

(* The model refused a full context before it said anything: compact and   *)
(* ask once more, once per step.                                           *)
Recover ==
  /\ pc = "recover"
  /\ CompactHistory
  /\ retried' = TRUE
  /\ UNCHANGED <<batch, final, draft, outerVars>>

(* request: the whole answer arrives, and is recorded before any of its    *)
(* calls runs.  Its usage is recorded before it.                           *)
RequestAnswer ==
  /\ pc = "request"
  /\ ~cancelled
  /\ \/ \E n \in 0..MaxBatch : \E cs \in [1..n -> Calls \ Issued] :
          /\ \A j, k \in 1..n : cs[j] = cs[k] => j = k
          /\ Write(Answer(cs))
          /\ history' = Append(history, Len(ledger'))
          /\ batch' = cs
          /\ final' = (n = 0)
          /\ pc' = IF n = 0 THEN "checkpoint" ELSE "tools"
          /\ UNCHANGED draft
     \/ WriteFails /\ draft' = TRUE /\ UNCHANGED <<history, batch, final>>
  /\ UNCHANGED <<retried, lastHead, outerVars>>

(* The stream ends without a word: the loop returns, without checkpoint. *)
RequestEmpty ==
  /\ pc = "request"
  /\ Return
  /\ UNCHANGED <<ledger, loopVars, outerVars>>

(* The stream or the context fails; what was said so far is recorded as a  *)
(* partial answer, without its calls.                                      *)
RequestFails ==
  /\ pc = "request"
  /\ Return
  /\ \/ Write(Entry("partial")) /\ UNCHANGED draft
     \/ UNCHANGED <<ledger, draft>>
     \/ DiskFaults /\ draft' = TRUE /\ UNCHANGED ledger
  /\ UNCHANGED <<history, batch, final, retried, lastHead, outerVars>>

RequestTooLarge ==
  /\ Compacts
  /\ pc = "request"
  /\ pc' = IF retried THEN "finish" ELSE "recover"
  /\ UNCHANGED <<ledger, loopVars, outerVars>>

(* One call after the other.  Before each the loop looks whether it has    *)
(* been cancelled.                                                         *)
StartNext_Continue == IF cancelled THEN "tools" ELSE "running"
StartNext == IF cancelled THEN "unexecuted" ELSE "running"
ToolStart ==
  /\ pc = "tools"
  /\ pc' = StartNext
  /\ UNCHANGED <<ledger, loopVars, outerVars>>

(* execute: a result is recorded whether the tool ends, fails or is        *)
(* interrupted; after it the diff of its files is stored, which may fail.  *)
(* A cancelled loop goes on to the calls it will not execute.              *)
AfterResult_Return(c) == IF c THEN "finish" ELSE IF Len(batch) = 1 THEN "checkpoint" ELSE "tools"
AfterResult(c) ==
  IF c THEN "unexecuted" ELSE IF Len(batch) = 1 THEN "checkpoint" ELSE "tools"
ToolReturn ==
  /\ pc = "running"
  /\ \/ /\ Write(Result(Head(batch)))
        /\ batch' = Tail(batch)
        /\ history' = Append(history, Len(ledger'))
        /\ \/ pc' = AfterResult(FALSE)
           \/ cancelled /\ pc' = AfterResult(TRUE)
           \/ DiskFaults /\ Return
     \/ WriteFails /\ UNCHANGED <<batch, history>>
  /\ UNCHANGED <<final, retried, lastHead, draft, outerVars>>

(* finishUnexecuted *)
Unexecuted_Deferred ==
  /\ pc = "unexecuted"
  /\ IF batch = <<>>
     THEN Return /\ UNCHANGED <<ledger, batch>>
     ELSE Write(Result(Last(batch))) /\ batch' = Front(batch) /\ UNCHANGED pc
  /\ UNCHANGED <<history, final, retried, lastHead, draft, outerVars>>
Unexecuted ==
  /\ pc = "unexecuted"
  /\ IF batch = <<>>
     THEN Return /\ UNCHANGED <<ledger, batch>>
     ELSE \/ Write(Result(Head(batch))) /\ batch' = Tail(batch) /\ UNCHANGED pc
          \/ WriteFails /\ UNCHANGED batch
  /\ UNCHANGED <<history, final, retried, lastHead, draft, outerVars>>

(* Runner.checkpoint, before the first request and after each answer; it   *)
(* is final after an answer without calls.  What is held is recorded and   *)
(* sent with the next request; the loop ends when nothing was said and     *)
(* nothing is held.                                                        *)
CheckpointInputs_Skip(n) == UNCHANGED history
CheckpointInputs_Late(n) == history' = history \o Span(Len(ledger) + 2, Len(ledger) + n + 1)
CheckpointInputs(n) == history' = history \o Span(Len(ledger) + 1, Len(ledger) + n)
Checkpoint ==
  /\ pc \in {"initial", "checkpoint"}
  /\ \/ /\ ledger' = ledger \o [k \in 1..waiting |-> Entry("steer")]
        /\ CheckpointInputs(waiting)
        /\ pc' = IF final /\ waiting = 0 THEN "finish" ELSE "compact"
     \/ \E n \in 0..(waiting - 1) :
          /\ DiskFaults
          /\ ledger' = ledger \o [k \in 1..n |-> Entry("steer")]
          /\ Return
          /\ UNCHANGED history
     \/ pc = "initial" /\ Return /\ UNCHANGED <<ledger, history>>
  /\ waiting' = 0
  /\ retried' = FALSE
  /\ UNCHANGED <<batch, final, lastHead, draft, cancelled, offered, turns>>

(* The deferred ending: inputs are refused, open drafts are recorded. *)
Finish ==
  /\ pc = "finish"
  /\ \/ draft /\ Write(Entry("partial"))
     \/ (draft => DiskFaults) /\ UNCHANGED ledger
  /\ Forget
  /\ UNCHANGED <<offered, turns>>

-----------------------------------------------------------------------------
(* The world around the loop *)

Offer ==
  /\ pc \notin {"idle", "finish"}
  /\ offered < MaxInputs
  /\ offered' = offered + 1
  /\ waiting' = waiting + 1
  /\ UNCHANGED <<ledger, pc, loopVars, cancelled, turns>>

Cancel ==
  /\ pc # "idle"
  /\ ~cancelled
  /\ cancelled' = TRUE
  /\ waiting' = 0
  /\ UNCHANGED <<ledger, pc, loopVars, offered, turns>>

(* Only the ledger survives; the next turn reads it. *)
Crash ==
  /\ Crashes
  /\ pc # "idle"
  /\ Forget
  /\ UNCHANGED <<ledger, offered, turns>>

LoopStep ==
  \/ ManageContext \/ Recover
  \/ RequestAnswer \/ RequestEmpty \/ RequestFails \/ RequestTooLarge
  \/ ToolStart \/ ToolReturn \/ Unexecuted \/ Checkpoint \/ Finish

Next == Turn \/ LoopStep \/ Offer \/ Cancel \/ Crash

(* Requests and tools end, by themselves or because they are cancelled. *)
Spec == Init /\ [][Next]_vars /\ WF_vars(LoopStep)

-----------------------------------------------------------------------------
(* Properties *)

TypeOK ==
  /\ ledger \in Seq([kind : Kinds, calls : Seq(Calls), of : Calls \cup {NoCall}, kept : Seq(Nat)])
  /\ pc \in {"idle", "initial", "compact", "recover", "request", "tools", "running", "unexecuted",
             "checkpoint", "finish"}
  /\ history \in Seq(1..Len(ledger))
  /\ batch \in Seq(Calls)
  /\ {final, retried, draft, cancelled} \subseteq BOOLEAN
  /\ lastHead \in 0..Len(ledger)
  /\ waiting \in 0..MaxInputs /\ offered \in 0..MaxInputs /\ turns \in 0..MaxTurns

(* The results of an answer follow it at once and in the order of its      *)
(* calls: nothing a user steers in comes between a call and its result.    *)
ResultsFollowCalls ==
  \A k \in DOMAIN ledger : ledger[k].kind = "result" =>
    \E j \in 1..(k - 1) :
      /\ k - j \in DOMAIN ledger[j].calls
      /\ ledger[j].calls[k - j] = ledger[k].of
      /\ \A i \in (j + 1)..k : ledger[i].kind = "result"

Answered(c) == \E k \in DOMAIN ledger : ledger[k].of = c

(* Every call that was issued gets a result, also when the run is stopped  *)
(* in the middle of a batch (README of runner and of react): a turn leaves *)
(* no call open.                                                           *)
CallsAreAnswered == pc = "idle" => \A c \in Issued : Answered(c)

(* What the model is asked is what the ledger says: no result, input or    *)
(* summary is recorded but left out, or sent but not recorded.             *)
RequestsTheLedger == pc = "request" => history = Context(ledger)

(* Compaction keeps each result together with its call, and the last words *)
(* of the user.                                                            *)
ContextIsWhole ==
  LET c == Context(ledger) IN
  /\ \A k \in DOMAIN c : ledger[c[k]].kind = "result" =>
       \E j \in 1..(k - 1) : ledger[c[k]].of \in ToSet(ledger[c[j]].calls)
  /\ LET user == Latest(Users(ledger)) IN user # 0 => user \in ToSet(c)

(* Nothing is summarised twice in a row: the loop does not go on           *)
(* compacting a context that has not grown.                                *)
CompactsWhatIsNew ==
  \A k \in DOMAIN ledger :
    (k > 1 /\ ledger[k].kind = "summary") => ledger[k - 1].kind # "summary"

(* A cancelled run ends. *)
CancelledEnds == cancelled ~> pc = "idle"
=============================================================================

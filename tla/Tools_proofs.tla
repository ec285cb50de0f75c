--------------------------- MODULE Tools_proofs -----------------------------
(***************************************************************************)
(* Theorems about what runs work with: the approvals of calls, the         *)
(* connections of MCP servers and their credentials, the files that runs   *)
(* change and the processes they start, the diffs of a run and the clients *)
(* that watch it.  The components do not share state; each has a section,  *)
(* with its inductive invariant.                                           *)
(***************************************************************************)
EXTENDS FiniteSets, Naturals, Sequences, FiniteSetTheorems, SequenceTheorems,
  FunctionTheorems, NaturalsInduction, WellFoundedInduction, TLAPS

CONSTANTS
  Calls, CallKind, Mode, Workspace, Listeners, Workspaces, Runs, MaxStates,
  MaxEdits, Conns, MaxLogins, MaxEpoch, Agents, Editors, Paths, Plans, Original,
  Absent, MaxPatches, MaxWriters, Terminals, Ttys, Interacts, Limit, Capacity,
  MaxOutput, None, DiffRuns, First, Edited, Fresh, MaxFaults, Subs, Own,
  QueueLimit, PendingLimit, MaxEvents

VARIABLES
  stage, said, verdict, answer, ended, ctxDone, pending, listening, unread, known,
  trusted, forgetting, closing, where, plan, at, stopped, states, current, runs,
  saving, file, provider, saved, memory, revoked, generation, epoch, lock, conn,
  task, logins, removal, disk, locks, seen, wrote, completed, exact, patches, diff,
  own, proc, made, pipe, reading, held, got, exited, sent, told, table, exec, call,
  target, busy, session, writing, gone, live, shown, net, status, summary, body,
  reconciled, holder, todo, idle, view, before, torn, changes, faults, link, ctxOpen,
  gate, phase, sender, queue, active, closed, hooked, unhooking, published,
  received, answered, scheduled, waiter, scheduler, runner

-----------------------------------------------------------------------------
(* Approvals                                                                *)

A == INSTANCE Approvals

(* A!Spec without its fairness, which none of the theorems needs. *)
ApprovalBehaviour == A!Init /\ [][A!Next]_(A!approvalVars)

-----------------------------------------------------------------------------
(* The inductive invariant, in named parts.                                *)

(* TypeOK as far as it needs no assumption on the constants. *)
ApprovalTyped ==
  /\ stage \in [Calls -> {"idle", "review", "asking", "waiting", "decided",
                          "saving"} \cup A!Final]
  /\ said \in [Calls -> {"none", "yes", "no"}]
  /\ verdict \in [Calls -> {"none", "yes", "no"}]
  /\ answer \in [Calls -> {"none", "yes", "no"}]
  /\ pending \subseteq Calls
  /\ listening \subseteq Listeners
  /\ unread \in [Listeners -> (SUBSET Calls) \cup {A!Nothing}]
  /\ known \in [Listeners -> (SUBSET Calls) \cup {A!Nothing}]
  /\ closing \in {"open", "closed", "done"}

(* A request is shown while its call waits and nobody has answered it, so  *)
(* no answer is given twice and none to a call that went on.               *)
ShownInv == \A q \in Calls :
  /\ q \in pending => stage[q] = "waiting" /\ answer[q] = "none"
  /\ stage[q] \in {"idle", "review", "asking"} => answer[q] = "none"

(* An answer on its way, and the verdict of a call, are what somebody was  *)
(* told; Close alone refuses without telling anybody, and a call that it   *)
(* refused sees that the service is closed.                                *)
ToldInv == \A q \in Calls :
  /\ answer[q] = "yes" => said[q] = "yes"
  /\ answer[q] = "no" => said[q] = "no" \/ ~A!Open
  /\ stage[q] = "decided" => verdict[q] \in {"yes", "no"}
  /\ stage[q] = "decided" /\ verdict[q] = "yes" => said[q] = "yes"
  /\ stage[q] = "decided" /\ verdict[q] = "no" => said[q] = "no" \/ ~A!Open
  /\ stage[q] = "saving" => said[q] = "yes"

(* A context is cancelled for one of two reasons.                          *)
CancelInv == \A q \in Calls : q \in ctxDone => q \in ended \/ ~A!Open

ApprovalIInv == ApprovalTyped /\ ShownInv /\ ToldInv /\ CancelInv /\ A!DecisionsCount

USE DEF A!Final

-----------------------------------------------------------------------------
(* The variables keep their types: a call moves between the named stages,  *)
(* and a snapshot is a set of calls (service.go, mcp.go).                  *)
LEMMA ApprovalTypedStep == ApprovalTyped /\ [A!Next]_(A!approvalVars) => ApprovalTyped'
<1> SUFFICES ASSUME ApprovalTyped, [A!Next]_(A!approvalVars) PROVE ApprovalTyped'
    OBVIOUS
<1> USE DEF ApprovalTyped
<1>1. CASE UNCHANGED A!approvalVars
      BY <1>1 DEF A!approvalVars
<1>2. ASSUME NEW q \in Calls, A!Call(q) PROVE ApprovalTyped'
      BY <1>2 DEF A!Call, A!Goes
<1>3. ASSUME NEW q \in Calls, A!Review(q) PROVE ApprovalTyped'
      BY <1>3 DEF A!Review, A!Goes, A!Verdicts
<1>4. ASSUME NEW q \in Calls, A!WaitForHuman(q) PROVE ApprovalTyped'
      BY <1>4 DEF A!WaitForHuman, A!Goes, A!Publish
<1>5. ASSUME NEW q \in Calls, A!TakeAnswer(q) PROVE ApprovalTyped'
      BY <1>5 DEF A!TakeAnswer, A!Goes
<1>6. ASSUME NEW q \in Calls, A!TakeCancel(q) PROVE ApprovalTyped'
      BY <1>6 DEF A!TakeCancel, A!Goes, A!Shown, A!Publish
<1>7. ASSUME NEW q \in Calls, A!Decide(q) PROVE ApprovalTyped'
      BY <1>7 DEF A!Decide, A!Goes
<1>8. ASSUME NEW q \in Calls, A!SaveTrust(q) PROVE ApprovalTyped'
      BY <1>8 DEF A!SaveTrust, A!Goes
<1>9. ASSUME NEW q \in Calls, A!CancelReaches(q) \/ A!StopRun(q) PROVE ApprovalTyped'
      BY <1>9 DEF A!CancelReaches, A!StopRun
<1>10. ASSUME NEW q \in Calls, NEW d \in {"yes", "no"}, A!Respond(q, d) PROVE ApprovalTyped'
      BY <1>10 DEF A!Respond, A!Publish, A!Left
<1>11. ASSUME NEW l \in Listeners, A!Subscribe(l) \/ A!ReadSnapshot(l) \/ A!Unsubscribe(l)
       PROVE ApprovalTyped'
      BY <1>11 DEF A!Subscribe, A!ReadSnapshot, A!Unsubscribe
<1>12. ASSUME NEW w \in Workspaces, A!TrustFromSettings(w) \/ A!ForgetReads(w)
       PROVE  ApprovalTyped'
      BY <1>12 DEF A!TrustFromSettings, A!ForgetReads
<1>13. CASE A!ForgetWrites
      BY <1>13 DEF A!ForgetWrites
<1>14. CASE A!Close \/ A!CloseReturns
      BY <1>14 DEF A!Close, A!CloseReturns
<1>. QED
    BY <1>1, <1>2, <1>3, <1>4, <1>5, <1>6, <1>7, <1>8, <1>9, <1>10, <1>11, <1>12, <1>13,
       <1>14 DEF A!Next, A!CallStep

(* Once closed, the service stays closed (service.go:190-212). *)
LEMMA ClosedStays == ApprovalTyped /\ [A!Next]_(A!approvalVars) => (~A!Open => ~A!Open')
<1> SUFFICES ASSUME ApprovalTyped, [A!Next]_(A!approvalVars), ~A!Open PROVE ~A!Open'
    OBVIOUS
<1>1. closing' = closing \/ closing' = "done"
      BY DEF A!approvalVars, A!Next, A!CallStep, A!Call, A!Review, A!WaitForHuman,
         A!TakeAnswer, A!TakeCancel, A!Decide, A!SaveTrust, A!CancelReaches, A!StopRun,
         A!Respond, A!Subscribe, A!ReadSnapshot, A!Unsubscribe, A!TrustFromSettings,
         A!ForgetReads, A!ForgetWrites, A!Close, A!CloseReturns
<1>. QED BY <1>1 DEF A!Open

-----------------------------------------------------------------------------
(* The steps that change no call keep the invariant. *)
LEMMA ApprovalQuietStep ==
  ASSUME ApprovalIInv, [A!Next]_(A!approvalVars),
         UNCHANGED <<stage, said, verdict, answer, ended, ctxDone, pending>>
  PROVE  ShownInv' /\ ToldInv' /\ CancelInv' /\ A!DecisionsCount'
<1>1. ApprovalTyped' /\ (~A!Open => ~A!Open')
      BY ApprovalTypedStep, ClosedStays DEF ApprovalIInv
<1>. QED BY <1>1 DEF ApprovalIInv, ShownInv, ToldInv, CancelInv, A!DecisionsCount,
            A!Forbidden

(* Every step keeps the invariant: one case for each step of a call, of    *)
(* whoever decides, and of whoever stops it.                               *)
LEMMA ApprovalIInvStep == ApprovalIInv /\ [A!Next]_(A!approvalVars) => ApprovalIInv'
<1> SUFFICES ASSUME ApprovalIInv, [A!Next]_(A!approvalVars) PROVE ApprovalIInv'
    OBVIOUS
<1>0. ApprovalTyped /\ ApprovalTyped' /\ (~A!Open => ~A!Open')
      BY ApprovalTypedStep, ClosedStays DEF ApprovalIInv
<1> DEFINE Rest == ShownInv' /\ ToldInv' /\ CancelInv' /\ A!DecisionsCount'
<1> USE DEF ApprovalIInv, ShownInv, ToldInv, CancelInv, A!DecisionsCount, A!Forbidden
<1>1. CASE UNCHANGED A!approvalVars
      BY <1>1, <1>0, ApprovalQuietStep DEF A!approvalVars
<1>2. ASSUME NEW q \in Calls, A!Call(q) PROVE Rest
      BY <1>2, <1>0 DEF A!Call, A!Goes, ApprovalTyped
<1>3. ASSUME NEW q \in Calls, A!Review(q) PROVE Rest
      BY <1>3, <1>0 DEF A!Review, A!Goes, ApprovalTyped, A!Verdicts
<1>4. ASSUME NEW q \in Calls, A!WaitForHuman(q) PROVE Rest
      BY <1>4, <1>0 DEF A!WaitForHuman, A!Goes, ApprovalTyped, A!Publish, A!Ask
<1>5. ASSUME NEW q \in Calls, A!TakeAnswer(q) PROVE Rest
      BY <1>5, <1>0 DEF A!TakeAnswer, A!Goes, ApprovalTyped
<1>6. ASSUME NEW q \in Calls, A!TakeCancel(q) PROVE Rest
      BY <1>6, <1>0 DEF A!TakeCancel, A!Goes, ApprovalTyped, A!Publish, A!Shown
<1>7. ASSUME NEW q \in Calls, A!Decide(q) PROVE Rest
  <2>1. /\ stage[q] = "decided" /\ q \notin pending
        /\ stage' = [stage EXCEPT ![q] = stage'[q]]
        /\ UNCHANGED <<said, answer, ended, ctxDone, pending, closing>>
        /\ \A c \in Calls \ {q} : verdict'[c] = verdict[c]
        BY <1>7, <1>0 DEF A!Decide, A!Goes, ApprovalTyped
  <2>2. \/ stage'[q] = "cancelled" /\ (q \in ctxDone \/ ~A!Open)
        \/ stage'[q] = "refused" /\ verdict[q] = "no" /\ A!Open
        \/ stage'[q] \in {"saving", "granted"} /\ verdict[q] = "yes"
        BY <1>7, <1>0 DEF A!Decide, A!Goes, ApprovalTyped, A!Cancelled
  <2>3. \A c \in Calls \ {q} : stage'[c] = stage[c]
        BY <2>1, <1>0 DEF ApprovalTyped
  <2>4. A!Open' <=> A!Open
        BY <2>1 DEF A!Open
  <2>5. CancelInv' /\ ShownInv'
        BY <2>1, <2>2, <2>3, <2>4
  <2>6. \A c \in Calls : stage'[c] \in {"saving", "granted"} => said'[c] = "yes"
        BY <2>1, <2>2, <2>3
  <2>7. \A c \in Calls : stage'[c] = "decided" => c /= q
        BY <2>2
  <2>8. ToldInv'
        BY <2>1, <2>3, <2>4, <2>6, <2>7
  <2>9. A!DecisionsCount'
        BY <2>1, <2>2, <2>3, <2>4, <2>6
  <2>. QED BY <2>5, <2>8, <2>9
<1>8. ASSUME NEW q \in Calls, A!SaveTrust(q) PROVE Rest
      BY <1>8, <1>0 DEF A!SaveTrust, A!Goes, ApprovalTyped
<1>9. ASSUME NEW q \in Calls, A!CancelReaches(q) \/ A!StopRun(q) PROVE Rest
      BY <1>9, <1>0 DEF A!CancelReaches, A!StopRun, ApprovalTyped
<1>10. ASSUME NEW q \in Calls, NEW d \in {"yes", "no"}, A!Respond(q, d) PROVE Rest
      BY <1>10, <1>0 DEF A!Respond, A!Publish, A!Left, ApprovalTyped
<1>11. ASSUME NEW l \in Listeners, A!Subscribe(l) \/ A!ReadSnapshot(l) \/ A!Unsubscribe(l)
       PROVE Rest
      BY <1>11, <1>0, ApprovalQuietStep DEF A!Subscribe, A!ReadSnapshot, A!Unsubscribe
<1>12. ASSUME NEW w \in Workspaces, A!TrustFromSettings(w) \/ A!ForgetReads(w) PROVE Rest
      BY <1>12, <1>0, ApprovalQuietStep DEF A!TrustFromSettings, A!ForgetReads
<1>13. CASE A!ForgetWrites \/ A!CloseReturns
      BY <1>13, <1>0, ApprovalQuietStep DEF A!ForgetWrites, A!CloseReturns
<1>14. CASE A!Close
      BY <1>14, <1>0 DEF A!Close, A!Open, ApprovalTyped
<1>15. Rest
      BY <1>1, <1>2, <1>3, <1>4, <1>5, <1>6, <1>7, <1>8, <1>9, <1>10, <1>11, <1>12, <1>13,
         <1>14 DEF A!Next, A!CallStep
<1>. QED BY <1>0, <1>15

LEMMA ApprovalIInvInit == A!Init => ApprovalIInv
BY DEF A!Init, ApprovalIInv, ApprovalTyped, ShownInv, ToldInv, CancelInv, A!DecisionsCount

(* Whatever a reviewer, a human, a stop and a Close do at the same time, a *)
(* call ends as somebody was told, or was stopped (service.go:64-148,      *)
(* mcp.go:77-112, 175-205).                                                *)
THEOREM DecisionsCountHolds == ApprovalBehaviour => []A!DecisionsCount
<1>1. ApprovalIInv => A!DecisionsCount
      BY DEF ApprovalIInv
<1>. QED BY <1>1, ApprovalIInvInit, ApprovalIInvStep, PTL DEF ApprovalBehaviour

-----------------------------------------------------------------------------
(* The end of the service.                                                 *)

(* A closed service takes nobody in: no request, no subscriber, and, once  *)
(* Close returned, no call.                                                *)
LEMMA EmptyStep ==
  ASSUME ApprovalTyped, A!ClosedIsEmpty, [A!Next]_(A!approvalVars)
  PROVE  A!ClosedIsEmpty'
<1> USE DEF ApprovalTyped, A!ClosedIsEmpty, A!Working, A!Open
<1>1. CASE UNCHANGED A!approvalVars
      BY <1>1 DEF A!approvalVars
<1>2. ASSUME NEW q \in Calls, A!Call(q) PROVE A!ClosedIsEmpty'
  <2>1. UNCHANGED <<pending, listening, closing>>
        BY <1>2 DEF A!Call
  <2>2. ~A!Open => stage'[q] \in A!Final
        BY <1>2 DEF A!Call, A!Goes
  <2>3. \A c \in Calls \ {q} : stage'[c] = stage[c]
        BY <1>2 DEF A!Call, A!Goes
  <2>. QED BY <2>1, <2>2, <2>3
<1>3. ASSUME NEW q \in Calls, A!Review(q) \/ A!TakeAnswer(q) \/ A!Decide(q) \/ A!SaveTrust(q)
      PROVE A!ClosedIsEmpty'
  <2>1. UNCHANGED <<pending, listening, closing>> /\ q \in A!Working
        BY <1>3 DEF A!Review, A!TakeAnswer, A!Decide, A!SaveTrust
  <2>. QED BY <2>1
<1>4. ASSUME NEW q \in Calls, A!WaitForHuman(q) \/ A!TakeCancel(q) PROVE A!ClosedIsEmpty'
  <2>1. UNCHANGED <<listening, closing>> /\ q \in A!Working
        BY <1>4 DEF A!WaitForHuman, A!TakeCancel
  <2>2. ~A!Open => pending' \subseteq pending
        BY <1>4 DEF A!WaitForHuman, A!TakeCancel, A!Ask, A!Shown, A!Publish
  <2>. QED BY <2>1, <2>2
<1>5. ASSUME NEW q \in Calls, A!CancelReaches(q) \/ A!StopRun(q) PROVE A!ClosedIsEmpty'
      BY <1>5 DEF A!CancelReaches, A!StopRun
<1>6. ASSUME NEW q \in Calls, NEW d \in {"yes", "no"}, A!Respond(q, d) PROVE A!ClosedIsEmpty'
      BY <1>6 DEF A!Respond, A!Publish, A!Left
<1>7. ASSUME NEW l \in Listeners, A!Subscribe(l) \/ A!ReadSnapshot(l) \/ A!Unsubscribe(l)
      PROVE A!ClosedIsEmpty'
      BY <1>7 DEF A!Subscribe, A!ReadSnapshot, A!Unsubscribe
<1>8. ASSUME NEW w \in Workspaces, A!TrustFromSettings(w) \/ A!ForgetReads(w)
      PROVE A!ClosedIsEmpty'
      BY <1>8 DEF A!TrustFromSettings, A!ForgetReads
<1>9. CASE A!ForgetWrites
      BY <1>9 DEF A!ForgetWrites
<1>10. CASE A!Close
      BY <1>10 DEF A!Close
<1>11. CASE A!CloseReturns
      BY <1>11 DEF A!CloseReturns
<1>. QED
    BY <1>1, <1>2, <1>3, <1>4, <1>5, <1>6, <1>7, <1>8, <1>9, <1>10, <1>11 DEF A!Next,
       A!CallStep

LEMMA EmptyInit == A!Init => A!ClosedIsEmpty
BY DEF A!Init, A!ClosedIsEmpty, A!Open

(* Close leaves nothing shown and nobody listening, and when it returns no *)
(* call is in the service and none gets in (service.go:190-212).           *)
THEOREM ClosedIsEmptyHolds == ApprovalBehaviour => []A!ClosedIsEmpty
<1>1. ApprovalIInv => ApprovalTyped
      BY DEF ApprovalIInv
<1>. QED BY <1>1, ApprovalIInvInit, ApprovalIInvStep, EmptyInit, EmptyStep, PTL DEF ApprovalBehaviour

(* After Close no step grants a call or shows a request: the last look at  *)
(* the contexts, and the write of a trust, see the service closed          *)
(* (service.go:139-147, mcp.go:175-205).                                   *)
LEMMA ClosedStep ==
  ASSUME ApprovalTyped, A!ClosedIsEmpty, A!ClosedIsEmpty', [A!Next]_(A!approvalVars)
  PROVE  A!ClosedGrantsNothing
<1> SUFFICES ASSUME ~A!Open
             PROVE /\ \A q \in Calls : stage'[q] = "granted" <=> stage[q] = "granted"
                   /\ pending' = {}
    BY DEF A!ClosedGrantsNothing
<1>1. pending' = {}
      BY ClosedStays DEF A!ClosedIsEmpty
<1>2. CASE \E q \in Calls : A!Call(q) \/ A!CallStep(q)
  <2>1. PICK q \in Calls : A!Call(q) \/ A!CallStep(q)
        BY <1>2
  <2>2. /\ stage[q] \notin {"granted"} \/ UNCHANGED stage
        /\ \A c \in Calls \ {q} : stage'[c] = stage[c]
        BY <2>1 DEF ApprovalTyped, A!Call, A!CallStep, A!Goes, A!Review, A!WaitForHuman,
           A!TakeAnswer, A!TakeCancel, A!Decide, A!SaveTrust, A!CancelReaches
  <2>3. CASE A!Call(q)
    <3>1. stage'[q] \in {"cancelled", "refused", "free"}
          BY <2>3 DEF ApprovalTyped, A!Call, A!Goes
    <3>. QED BY <2>2, <3>1, <1>1
  <2>4. CASE A!Decide(q) \/ A!SaveTrust(q)
    <3>1. stage'[q] = "cancelled"
          BY <2>4 DEF ApprovalTyped, A!Decide, A!SaveTrust, A!Goes, A!Cancelled
    <3>. QED BY <2>2, <2>4, <3>1, <1>1 DEF A!Decide, A!SaveTrust
  <2>5. CASE \/ A!Review(q) \/ A!WaitForHuman(q)
             \/ A!TakeAnswer(q) \/ A!TakeCancel(q) \/ A!CancelReaches(q)
    <3>1. stage'[q] \in {"cancelled", "decided", "asking", "waiting"} \/ UNCHANGED stage
          BY <2>5 DEF ApprovalTyped, A!Review, A!WaitForHuman, A!TakeAnswer, A!TakeCancel,
             A!CancelReaches, A!Goes
    <3>. QED BY <2>2, <3>1, <1>1
  <2>. QED BY <2>1, <2>3, <2>4, <2>5 DEF A!CallStep
<1>3. CASE ~\E q \in Calls : A!Call(q) \/ A!CallStep(q)
  <2>1. UNCHANGED stage
        BY <1>3 DEF A!Next, A!approvalVars, A!StopRun, A!Respond, A!Subscribe,
           A!ReadSnapshot, A!Unsubscribe, A!TrustFromSettings, A!ForgetReads,
           A!ForgetWrites, A!Close, A!CloseReturns
  <2>. QED BY <1>1, <2>1
<1>. QED BY <1>2, <1>3

(* See ClosedGrantsNothing: whatever was on its way, nothing is granted by *)
(* a closed service.                                                       *)
THEOREM ClosedGrantsNothingHolds == ApprovalBehaviour => [][A!ClosedGrantsNothing]_(A!approvalVars)
<1>1. ApprovalIInv => ApprovalTyped
      BY DEF ApprovalIInv
<1>2. ApprovalTyped /\ A!ClosedIsEmpty /\ A!ClosedIsEmpty' /\ [A!Next]_(A!approvalVars)
      => [A!ClosedGrantsNothing]_(A!approvalVars)
      BY ClosedStep
<1>. QED BY <1>1, <1>2, ApprovalIInvInit, ApprovalIInvStep, EmptyInit, EmptyStep, PTL DEF
            ApprovalBehaviour

-----------------------------------------------------------------------------
(* The snapshots.                                                          *)

(* Nothing waits in the channel of a subscription that does not exist.     *)
SilentInv == /\ \A l \in Listeners \ listening : unread[l] = A!Nothing
             /\ A!LatestIsCurrent

LEMMA SilentStep ==
  ASSUME "nothing" \notin Calls, ApprovalTyped, SilentInv, [A!Next]_(A!approvalVars)
  PROVE  SilentInv'
<1> USE DEF ApprovalTyped, SilentInv, A!LatestIsCurrent
<1>1. CASE UNCHANGED <<pending, listening, unread, known>>
      BY <1>1 DEF A!Nothing
<1>2. ASSUME NEW next \in SUBSET Calls, A!Publish(next), UNCHANGED <<listening, known>>
      PROVE SilentInv'
  <2>1. next /= A!Nothing
        BY DEF A!Nothing
  <2>. QED BY <1>2, <2>1 DEF A!Publish
<1>3. ASSUME NEW q \in Calls, A!WaitForHuman(q) \/ A!TakeCancel(q) PROVE SilentInv'
      BY <1>1, <1>2, <1>3 DEF A!WaitForHuman, A!TakeCancel, A!Shown
<1>4. ASSUME NEW q \in Calls, NEW d \in {"yes", "no"}, A!Respond(q, d) PROVE SilentInv'
      BY <1>2, <1>4 DEF A!Respond, A!Left
<1>5. ASSUME NEW l \in Listeners, A!Subscribe(l) PROVE SilentInv'
      BY <1>5 DEF A!Subscribe
<1>6. ASSUME NEW l \in Listeners, A!ReadSnapshot(l) PROVE SilentInv'
      BY <1>6 DEF A!ReadSnapshot
<1>7. ASSUME NEW l \in Listeners, A!Unsubscribe(l) PROVE SilentInv'
      BY <1>7 DEF A!Unsubscribe
<1>8. CASE A!Close
      BY <1>8 DEF A!Close
<1>9. ASSUME NEW q \in Calls, A!Call(q) \/ A!Review(q) \/ A!TakeAnswer(q) \/ A!Decide(q)
                              \/ A!SaveTrust(q) \/ A!CancelReaches(q) \/ A!StopRun(q)
      PROVE SilentInv'
      BY <1>1, <1>9 DEF A!Call, A!Review, A!TakeAnswer, A!Decide, A!SaveTrust,
         A!CancelReaches, A!StopRun
<1>10. ASSUME NEW w \in Workspaces, A!TrustFromSettings(w) \/ A!ForgetReads(w) PROVE SilentInv'
      BY <1>1, <1>10 DEF A!TrustFromSettings, A!ForgetReads
<1>11. CASE A!ForgetWrites \/ A!CloseReturns
      BY <1>1, <1>11 DEF A!ForgetWrites, A!CloseReturns
<1>12. CASE UNCHANGED A!approvalVars
      BY <1>1, <1>12 DEF A!approvalVars
<1>. QED
    BY <1>3, <1>4, <1>5, <1>6, <1>7, <1>8, <1>9, <1>10, <1>11, <1>12 DEF A!Next, A!CallStep

(* However requests come and go between two looks of a subscriber, the one *)
(* snapshot in its channel, or the last it took, is what is pending        *)
(* (service.go:214-240).                                                   *)
THEOREM LatestIsCurrentHolds ==
  ASSUME "nothing" \notin Calls PROVE ApprovalBehaviour => []A!LatestIsCurrent
<1>1. ApprovalIInv => ApprovalTyped
      BY DEF ApprovalIInv
<1>2. A!Init => SilentInv
      BY DEF A!Init, SilentInv, A!LatestIsCurrent
<1>3. ApprovalTyped /\ SilentInv /\ [A!Next]_(A!approvalVars) => SilentInv'
      BY SilentStep
<1>4. SilentInv => A!LatestIsCurrent
      BY DEF SilentInv
<1>. QED BY <1>1, <1>2, <1>3, <1>4, ApprovalIInvInit, ApprovalIInvStep, PTL DEF ApprovalBehaviour

-----------------------------------------------------------------------------
(* The rest of the types: each call has its project. *)
ApprovalRestTyped ==
  /\ ended \subseteq Calls /\ ctxDone \subseteq Calls /\ trusted \subseteq Workspaces
  /\ forgetting.read \subseteq Workspaces

LEMMA ApprovalRestInit == A!Init => ApprovalRestTyped
BY DEF A!Init, ApprovalRestTyped, A!NoForget

LEMMA ApprovalRestStep ==
  ASSUME Workspace \in [Calls -> Workspaces], ApprovalRestTyped, [A!Next]_(A!approvalVars)
  PROVE  ApprovalRestTyped'
<1> USE DEF ApprovalRestTyped
<1>1. CASE UNCHANGED <<ended, ctxDone, trusted, forgetting>>
      BY <1>1
<1>2. ASSUME NEW q \in Calls, A!SaveTrust(q) \/ A!CancelReaches(q) \/ A!StopRun(q)
      PROVE  ApprovalRestTyped'
      BY <1>2 DEF A!SaveTrust, A!CancelReaches, A!StopRun
<1>3. ASSUME NEW w \in Workspaces, A!TrustFromSettings(w) \/ A!ForgetReads(w)
      PROVE  ApprovalRestTyped'
      BY <1>3 DEF A!TrustFromSettings, A!ForgetReads
<1>4. CASE A!ForgetWrites
      BY <1>4 DEF A!ForgetWrites, A!NoForget
<1>5. ASSUME NEW q \in Calls, A!Call(q) \/ A!Review(q) \/ A!WaitForHuman(q) \/ A!TakeAnswer(q)
                              \/ A!TakeCancel(q) \/ A!Decide(q)
      PROVE ApprovalRestTyped'
      BY <1>1, <1>5 DEF A!Call, A!Review, A!WaitForHuman, A!TakeAnswer, A!TakeCancel,
         A!Decide
<1>6. ASSUME NEW q \in Calls, NEW d \in {"yes", "no"}, A!Respond(q, d) PROVE ApprovalRestTyped'
      BY <1>1, <1>6 DEF A!Respond
<1>7. ASSUME NEW l \in Listeners, A!Subscribe(l) \/ A!ReadSnapshot(l) \/ A!Unsubscribe(l)
      PROVE ApprovalRestTyped'
      BY <1>1, <1>7 DEF A!Subscribe, A!ReadSnapshot, A!Unsubscribe
<1>8. CASE A!Close \/ A!CloseReturns \/ UNCHANGED A!approvalVars
      BY <1>1, <1>8 DEF A!Close, A!CloseReturns, A!approvalVars
<1>. QED BY <1>2, <1>3, <1>4, <1>5, <1>6, <1>7, <1>8 DEF A!Next, A!CallStep

(* The calls, the contexts, the snapshots and the trusted projects have    *)
(* the types that Approvals gives them.                                    *)
THEOREM ApprovalsTypeCorrect ==
  ASSUME Workspace \in [Calls -> Workspaces] PROVE ApprovalBehaviour => []A!TypeOK
<1>1. ApprovalIInv /\ ApprovalRestTyped => A!TypeOK
      BY DEF ApprovalIInv, ApprovalTyped, ApprovalRestTyped, A!TypeOK
<1>2. ApprovalRestTyped /\ [A!Next]_(A!approvalVars) => ApprovalRestTyped'
      BY ApprovalRestStep
<1>. QED BY <1>1, <1>2, ApprovalIInvInit, ApprovalIInvStep, ApprovalRestInit, PTL DEF ApprovalBehaviour

-----------------------------------------------------------------------------
(* McpRuntime                                                               *)

M == INSTANCE McpRuntime

(* M!Spec without its fairness, which none of the theorems needs. *)
RuntimeBehaviour == M!Init /\ [][M!Next]_(M!mcpVars)

(* An instance has its own name for the number of elements. *)
LEMMA McpCounts == \A S : M!Cardinality(S) = Cardinality(S)
BY DEF M!Cardinality, Cardinality

-----------------------------------------------------------------------------
(* The inductive invariant, in named parts.                                *)

McpNumbers == 1..MaxStates
McpSteps == {"out", "over", "pinned", "failed"} \cup M!Inside
Workers == {"confirming", "connecting"}
WorkspaceStates ==
  [of : Nat, refs : Nat, building : BOOLEAN, built : BOOLEAN, bad : BOOLEAN,
   retry : BOOLEAN, retired : BOOLEAN, open : BOOLEAN]

RuntimeTyped ==
  /\ where \in [Runs -> McpSteps]
  /\ plan \in [Runs -> Nat]
  /\ at \in [Runs -> 0..MaxStates] /\ stopped \subseteq Runs
  /\ states \in [McpNumbers -> WorkspaceStates]
  /\ \A s \in McpNumbers : states[s].refs \in 0..Cardinality(Runs)
  /\ current \in 0..MaxStates /\ runs \in [Runs -> 0..MaxStates]
  /\ file \in [{"global", "project"} -> 0..MaxEdits]
  /\ saving \in BOOLEAN
  /\ provider \in {"open", "closed", "done"}

(* A run refers to connections from its entry until it leaves with an      *)
(* error or is released.  Provider.runs says the same, until Close forgets *)
(* it; it does so when nobody is inside.                                   *)
PlaceInv ==
  /\ \A u \in Runs : at[u] # 0 <=> where[u] \in {"waiting", "leaving", "pinned"} \cup Workers
  /\ provider # "done" => runs = at
  /\ provider = "done" => /\ \A u \in Runs : runs[u] = 0
                          /\ \A u \in Runs : where[u] \notin M!Inside \ {"planned"}

(* A version is built by one run at a time; those that leave have it built, *)
(* and those that stay with it found it good.                              *)
BuildInv == \A u \in Runs :
  /\ where[u] \in Workers =>
       /\ states[at[u]].building
       /\ \A v \in Runs : at[v] = at[u] /\ where[v] \in Workers => v = u
  /\ where[u] \in {"leaving", "pinned"} => states[at[u]].built
  /\ where[u] = "pinned" => ~states[at[u]].bad

(* A version in the table is being built, by someone, or is built; what is *)
(* good of it is open.  One that is not current is on its way out, and     *)
(* somebody still holds it.                                                *)
StateInv == \A s \in McpNumbers :
  /\ ~(states[s].building /\ states[s].built)
  /\ states[s] = M!Fresh \/ states[s].building \/ states[s].built
  /\ states[s].building => \E u \in Runs : at[u] = s /\ where[u] \in Workers
  /\ states[s].open => states[s].built /\ ~states[s].bad /\ provider # "done"
  /\ states[s].built /\ ~states[s].bad /\ provider # "done" => states[s].open
  /\ s = current => ~states[s].retired /\ states[s] # M!Fresh
  /\ s # current /\ states[s] # M!Fresh /\ provider # "done" =>
       states[s].retired /\ states[s].refs > 0

RuntimeInv == RuntimeTyped /\ PlaceInv /\ BuildInv /\ StateInv /\ M!RefsCount

RuntimeConstants == IsFiniteSet(Runs) /\ MaxStates \in Nat /\ MaxEdits \in Nat

-----------------------------------------------------------------------------
(* The holders of a version.                                               *)
HeldBy(s) == {u \in Runs : at[u] = s}

LEMMA HoldersFinite ==
  ASSUME RuntimeConstants, NEW s
  PROVE  /\ M!Holders(s) = Cardinality(HeldBy(s)) /\ IsFiniteSet(HeldBy(s))
         /\ M!Holders(s) \in 0..Cardinality(Runs) /\ Cardinality(Runs) \in Nat
         /\ \A u \in Runs : at[u] = s => M!Holders(s) > 0
         /\ M!Holders(s) > 0 => \E u \in Runs : at[u] = s
<1>1. HeldBy(s) \subseteq Runs /\ IsFiniteSet(Runs)
      BY DEF HeldBy, RuntimeConstants
<1>2. /\ IsFiniteSet(HeldBy(s)) /\ Cardinality(HeldBy(s)) \in Nat
      /\ Cardinality(Runs) \in Nat /\ Cardinality(HeldBy(s)) <= Cardinality(Runs)
      BY <1>1, FS_Subset, FS_CardinalityType
<1>3. M!Holders(s) = Cardinality(HeldBy(s))
      BY McpCounts DEF M!Holders, HeldBy
<1>4. Cardinality(HeldBy(s)) = 0 <=> HeldBy(s) = {}
      BY <1>2, FS_EmptySet
<1>. QED BY <1>2, <1>3, <1>4 DEF HeldBy

(* The same in the next state. *)
LEMMA HeldAfter ==
  ASSUME RuntimeConstants, NEW s, NEW u \in Runs, at'[u] = s PROVE M!Holders(s)' > 0
<1>1. HeldBy(s)' \subseteq Runs /\ u \in HeldBy(s)' /\ IsFiniteSet(Runs)
      BY DEF HeldBy, RuntimeConstants
<1>2. IsFiniteSet(HeldBy(s)') /\ Cardinality(HeldBy(s)') \in Nat
      BY <1>1, FS_Subset, FS_CardinalityType
<1>3. Cardinality(HeldBy(s)') # 0
      BY <1>1, <1>2, FS_EmptySet
<1>4. M!Holders(s)' = Cardinality(HeldBy(s)')
      BY McpCounts DEF M!Holders, HeldBy
<1>. QED BY <1>2, <1>3, <1>4

LEMMA HoldersSame ==
  ASSUME NEW s, \A u \in Runs : at'[u] = s <=> at[u] = s
  PROVE  M!Holders(s)' = M!Holders(s)
<1>1. {u \in Runs : at'[u] = s} = {u \in Runs : at[u] = s}
      OBVIOUS
<1>. QED BY <1>1 DEF M!Holders

LEMMA HoldersJoin ==
  ASSUME RuntimeConstants, RuntimeTyped, NEW u \in Runs, NEW s \in McpNumbers, at[u] = 0,
         at' = [at EXCEPT ![u] = s]
  PROVE  /\ M!Holders(s)' = M!Holders(s) + 1
         /\ \A t \in McpNumbers \ {s} : M!Holders(t)' = M!Holders(t)
<1>1. HeldBy(s)' = HeldBy(s) \cup {u} /\ u \notin HeldBy(s)
      BY DEF HeldBy, RuntimeTyped, McpNumbers
<1>2. Cardinality(HeldBy(s)') = Cardinality(HeldBy(s)) + 1
      BY <1>1, HoldersFinite, FS_AddElement
<1>3. M!Holders(s)' = Cardinality(HeldBy(s)')
      BY McpCounts DEF M!Holders, HeldBy
<1>4. \A t \in McpNumbers \ {s} : M!Holders(t)' = M!Holders(t)
  <2> TAKE t \in McpNumbers \ {s}
  <2>1. \A v \in Runs : at'[v] = t <=> at[v] = t
        BY DEF RuntimeTyped, McpNumbers
  <2>. QED BY <2>1, HoldersSame
<1>. QED BY <1>2, <1>3, <1>4, HoldersFinite

LEMMA HoldersPart ==
  ASSUME RuntimeConstants, RuntimeTyped, NEW u \in Runs, NEW s \in McpNumbers, at[u] = s,
         at' = [at EXCEPT ![u] = 0]
  PROVE  /\ M!Holders(s)' = M!Holders(s) - 1
         /\ \A t \in McpNumbers \ {s} : M!Holders(t)' = M!Holders(t)
<1>1. HeldBy(s)' = HeldBy(s) \ {u} /\ u \in HeldBy(s)
      BY DEF HeldBy, RuntimeTyped, McpNumbers
<1>2. Cardinality(HeldBy(s)') = Cardinality(HeldBy(s)) - 1
      BY <1>1, HoldersFinite, FS_RemoveElement
<1>3. M!Holders(s)' = Cardinality(HeldBy(s)')
      BY McpCounts DEF M!Holders, HeldBy
<1>4. \A t \in McpNumbers \ {s} : M!Holders(t)' = M!Holders(t)
  <2> TAKE t \in McpNumbers \ {s}
  <2>1. \A v \in Runs : at'[v] = t <=> at[v] = t
        BY DEF RuntimeTyped, McpNumbers
  <2>. QED BY <2>1, HoldersSame
<1>. QED BY <1>2, <1>3, <1>4, HoldersFinite

-----------------------------------------------------------------------------
(* The table of versions.                                                  *)
LEMMA FreshIs ==
  /\ M!Fresh \in WorkspaceStates
  /\ M!Fresh.refs = 0 /\ ~M!Fresh.building /\ ~M!Fresh.built /\ ~M!Fresh.bad /\ ~M!Fresh.open
  /\ ~M!Fresh.retired /\ ~M!Fresh.retry /\ M!Fresh.of = 0
BY DEF M!Fresh, WorkspaceStates

LEMMA StateRecord ==
  ASSUME NEW x \in WorkspaceStates
  PROVE  /\ x.refs \in Nat /\ x.building \in BOOLEAN /\ x.built \in BOOLEAN
         /\ x.bad \in BOOLEAN /\ x.retired \in BOOLEAN /\ x.open \in BOOLEAN
BY DEF WorkspaceStates

LEMMA CollectIs ==
  ASSUME NEW all \in [McpNumbers -> WorkspaceStates], NEW s \in McpNumbers
  PROVE  /\ M!Collect(all, s) \in [McpNumbers -> WorkspaceStates]
         /\ M!Collect(all, s)[s] = IF M!Unused(all[s]) THEN M!Fresh ELSE all[s]
         /\ \A t \in McpNumbers \ {s} : M!Collect(all, s)[t] = all[t]
BY FreshIs DEF M!Collect

LEMMA RetireIs ==
  ASSUME NEW all \in [McpNumbers -> WorkspaceStates], NEW s \in 0..MaxStates
  PROVE  /\ M!Retire(all, s) \in [McpNumbers -> WorkspaceStates]
         /\ s \in McpNumbers => M!Retire(all, s)[s] =
              IF all[s].built /\ all[s].refs = 0 THEN M!Fresh ELSE [all[s] EXCEPT !.retired = TRUE]
         /\ \A t \in McpNumbers \ {s} : M!Retire(all, s)[t] = all[t]
<1>1. CASE s = 0
      BY <1>1 DEF M!Retire, McpNumbers
<1>2. CASE s # 0
  <2>1. s \in McpNumbers
        BY <1>2 DEF McpNumbers
  <2> DEFINE r == [all[s] EXCEPT !.retired = TRUE]
             one == [all EXCEPT ![s] = r]
  <2>2. /\ r \in WorkspaceStates /\ r.retired /\ r.built = all[s].built /\ r.refs = all[s].refs
        BY <2>1 DEF WorkspaceStates
  <2>3. M!Retire(all, s) = M!Collect(one, s)
        BY <1>2 DEF M!Retire
  <2> HIDE DEF r
  <2>4. one \in [McpNumbers -> WorkspaceStates] /\ one[s] = r /\ \A t \in McpNumbers \ {s} : one[t] = all[t]
        BY <2>1, <2>2
  <2> HIDE DEF one
  <2>5. M!Unused(r) <=> all[s].built /\ all[s].refs = 0
        BY <2>2 DEF M!Unused
  <2>6. /\ M!Collect(one, s) \in [McpNumbers -> WorkspaceStates]
        /\ M!Collect(one, s)[s] = IF M!Unused(r) THEN M!Fresh ELSE r
        /\ \A t \in McpNumbers \ {s} : M!Collect(one, s)[t] = all[t]
        BY <2>1, <2>4, CollectIs
  <2>. QED BY <2>3, <2>5, <2>6 DEF r
<1>. QED BY <1>1, <1>2

LEMMA RuntimeInvInit == ASSUME RuntimeConstants, M!Init PROVE RuntimeInv
<1>1. RuntimeTyped
  <2>1. Cardinality(Runs) \in Nat
        BY FS_CardinalityType DEF RuntimeConstants
  <2>2. 0 \in 0..Cardinality(Runs) /\ 0 \in 0..MaxStates /\ 0 \in 0..MaxEdits
        BY <2>1 DEF RuntimeConstants
  <2>3. states \in [McpNumbers -> WorkspaceStates] /\ \A s \in McpNumbers : states[s].refs = 0
        BY FreshIs DEF M!Init, McpNumbers
  <2>. QED BY <2>2, <2>3 DEF M!Init, RuntimeTyped, McpSteps
<1>2. PlaceInv
      BY DEF M!Init, PlaceInv, M!Inside, Workers
<1>3. BuildInv
      BY DEF M!Init, BuildInv, Workers
<1>4. StateInv
      BY FreshIs DEF M!Init, StateInv, McpNumbers
<1>5. M!RefsCount
  <2>1. ASSUME NEW s \in 1..MaxStates PROVE states[s].refs = M!Holders(s)
    <3>1. ~\E u \in Runs : at[u] = s
          BY DEF M!Init
    <3>2. M!Holders(s) = 0
          BY <3>1, HoldersFinite
    <3>. QED BY <3>2, FreshIs DEF M!Init
  <2>. QED BY <2>1 DEF M!RefsCount
<1>. QED BY <1>1, <1>2, <1>3, <1>4, <1>5 DEF RuntimeInv

-----------------------------------------------------------------------------
(* Steps that leave the table and who refers to it as they are.            *)
Apart == {"out", "planned", "failed", "over"}

LEMMA McpQuietStep ==
  ASSUME RuntimeInv, RuntimeTyped', UNCHANGED <<at, states, current, runs>>,
         \A v \in Runs : where'[v] = where[v] \/ {where[v], where'[v]} \subseteq Apart,
         provider' = provider \/ (provider = "open" /\ provider' = "closed")
  PROVE  RuntimeInv'
<1>1. PlaceInv'
  <2>1. Apart \cap ({"waiting", "leaving", "pinned"} \cup Workers) = {}
        /\ Apart \cap (M!Inside \ {"planned"}) = {}
        BY DEF Apart, Workers, M!Inside
  <2>2. \A u \in Runs : at'[u] # 0 <=> where'[u] \in {"waiting", "leaving", "pinned"} \cup Workers
        BY <2>1 DEF RuntimeInv, PlaceInv
  <2>3. provider' = "done" => \A u \in Runs : where'[u] \notin M!Inside \ {"planned"}
        BY <2>1 DEF RuntimeInv, PlaceInv
  <2>. QED BY <2>2, <2>3 DEF RuntimeInv, PlaceInv
<1>2. \A v \in Runs : where'[v] \in {"leaving", "pinned"} \cup Workers \/
                      where[v] \in {"leaving", "pinned"} \cup Workers => where'[v] = where[v]
      BY DEF Apart, Workers
<1>3. BuildInv'
      BY <1>2 DEF RuntimeInv, BuildInv, Workers
<1>4. StateInv'
      BY <1>2 DEF RuntimeInv, StateInv
<1>5. M!RefsCount'
      BY DEF RuntimeInv, M!RefsCount, M!Holders
<1>. QED BY <1>1, <1>3, <1>4, <1>5 DEF RuntimeInv

LEMMA VersionIs == ASSUME RuntimeConstants, RuntimeTyped PROVE M!Version \in Nat
<1>1. file["global"] \in Nat /\ file["project"] \in Nat /\ MaxEdits + 1 \in Nat
      BY DEF RuntimeConstants, RuntimeTyped
<1>2. \A m, n \in Nat : m * n \in Nat
      OBVIOUS
<1>3. (MaxEdits + 1) * file["project"] \in Nat
      BY <1>1, <1>2
<1>. QED BY <1>1, <1>3 DEF M!Version

LEMMA PlanStep ==
  ASSUME RuntimeConstants, RuntimeInv, NEW u \in Runs, M!Plan(u) PROVE RuntimeInv'
<1>1. PICK to \in {"failed", "planned"} : where' = [where EXCEPT ![u] = to]
      BY DEF M!Plan, M!Goes
<1>2. where[u] = "out" /\ UNCHANGED <<at, stopped, states, current, runs, file, saving, provider>>
      BY DEF M!Plan
<1>3. plan' \in [Runs -> Nat]
      BY VersionIs DEF M!Plan, RuntimeInv, RuntimeTyped
<1>4. RuntimeTyped'
      BY <1>1, <1>2, <1>3 DEF RuntimeInv, RuntimeTyped, McpSteps, M!Inside
<1>5. \A v \in Runs : where'[v] = where[v] \/ {where[v], where'[v]} \subseteq Apart
      BY <1>1, <1>2 DEF RuntimeInv, RuntimeTyped, Apart
<1>. QED BY <1>2, <1>4, <1>5, McpQuietStep

LEMMA OutsideStep ==
  ASSUME RuntimeConstants, RuntimeInv,
         (\E r \in Runs : M!StopRun(r)) \/ M!Save \/ M!EditProject \/ M!Close
  PROVE  RuntimeInv'
<1>1. UNCHANGED <<where, plan, at, states, current, runs>>
      BY DEF M!StopRun, M!Save, M!EditProject, M!Close
<1>2. stopped' \subseteq Runs /\ saving' \in BOOLEAN
      BY DEF M!StopRun, M!Save, M!EditProject, M!Close, RuntimeInv, RuntimeTyped
<1>3. file' \in [{"global", "project"} -> 0..MaxEdits]
  <2>1. ASSUME NEW p \in {"global", "project"}, file[p] < MaxEdits
        PROVE  [file EXCEPT ![p] = @ + 1] \in [{"global", "project"} -> 0..MaxEdits]
    <3>1. file[p] + 1 \in 0..MaxEdits
          BY <2>1 DEF RuntimeConstants, RuntimeInv, RuntimeTyped
    <3>. QED BY <3>1 DEF RuntimeInv, RuntimeTyped
  <2>. QED BY <2>1 DEF M!StopRun, M!Save, M!EditProject, M!Close, RuntimeInv, RuntimeTyped
<1>4. provider' = provider \/ (provider = "open" /\ provider' = "closed")
      BY DEF M!StopRun, M!Save, M!EditProject, M!Close
<1>5. RuntimeTyped'
      BY <1>1, <1>2, <1>3, <1>4 DEF RuntimeInv, RuntimeTyped
<1>. QED BY <1>1, <1>4, <1>5, McpQuietStep

(* Whoever refers to a version finds it in the table.                      *)
LEMMA HeldIsThere ==
  ASSUME RuntimeConstants, RuntimeInv, NEW u \in Runs, at[u] # 0, provider # "done"
  PROVE  /\ at[u] \in McpNumbers /\ states[at[u]] # M!Fresh /\ states[at[u]].refs > 0
         /\ states[at[u]] \in WorkspaceStates
<1>1. at[u] \in McpNumbers
      BY DEF RuntimeInv, RuntimeTyped, McpNumbers
<1>2. states[at[u]].refs = M!Holders(at[u]) /\ M!Holders(at[u]) > 0
      BY <1>1, HoldersFinite DEF RuntimeInv, M!RefsCount, McpNumbers
<1>. QED BY <1>1, <1>2, FreshIs DEF RuntimeInv, RuntimeTyped

LEMMA WaitStep ==
  ASSUME RuntimeConstants, RuntimeInv, NEW u \in Runs, M!Wait(u) PROVE RuntimeInv'
<1>1. /\ where[u] = "waiting" /\ ~states[at[u]].building
      /\ where' = [where EXCEPT ![u] = "leaving"]
      /\ UNCHANGED <<plan, at, stopped, states, current, runs, file, saving, provider>>
      BY DEF M!Wait, M!Goes
<1>2. at[u] # 0 /\ provider # "done"
      BY <1>1 DEF RuntimeInv, PlaceInv, M!Inside
<1>3. states[at[u]].built
      BY <1>1, <1>2, HeldIsThere DEF RuntimeInv, StateInv
<1>4. RuntimeTyped'
      BY <1>1 DEF RuntimeInv, RuntimeTyped, McpSteps, M!Inside
<1>5. where'[u] = "leaving" /\ \A v \in Runs \ {u} : where'[v] = where[v]
      BY <1>1 DEF RuntimeInv, RuntimeTyped
<1>6. PlaceInv'
      BY <1>1, <1>2, <1>5 DEF RuntimeInv, PlaceInv
<1>7. BuildInv'
      BY <1>1, <1>3, <1>5 DEF RuntimeInv, BuildInv, Workers
<1>8. StateInv'
      BY <1>1, <1>5 DEF RuntimeInv, StateInv, Workers
<1>9. M!RefsCount'
      BY <1>1 DEF RuntimeInv, M!RefsCount, M!Holders
<1>. QED BY <1>4, <1>6, <1>7, <1>8, <1>9 DEF RuntimeInv

(* The builder goes on, or is through.                                     *)
LEMMA ConnectingStep ==
  ASSUME RuntimeInv, NEW u \in Runs, where[u] = "confirming",
         where' = [where EXCEPT ![u] = "connecting"],
         UNCHANGED <<plan, at, stopped, states, current, runs, file, saving, provider>>
  PROVE  RuntimeInv'
<1>1. RuntimeTyped'
      BY DEF RuntimeInv, RuntimeTyped, McpSteps, M!Inside
<1>2. where'[u] = "connecting" /\ \A v \in Runs \ {u} : where'[v] = where[v]
      BY DEF RuntimeInv, RuntimeTyped
<1>3. PlaceInv'
      BY <1>2 DEF RuntimeInv, PlaceInv, Workers, M!Inside
<1>4. BuildInv'
      BY <1>2 DEF RuntimeInv, BuildInv, Workers
<1>5. StateInv'
      BY <1>2 DEF RuntimeInv, StateInv, Workers
<1>6. M!RefsCount'
      BY DEF RuntimeInv, M!RefsCount, M!Holders
<1>. QED BY <1>1, <1>3, <1>4, <1>5, <1>6 DEF RuntimeInv

LEMMA BuiltStep ==
  ASSUME RuntimeConstants, RuntimeInv, NEW u \in Runs, where[u] \in Workers,
         NEW bad \in BOOLEAN, NEW retry \in BOOLEAN, M!Built(u, bad, retry, ~bad),
         UNCHANGED <<plan, at, stopped, current, runs, file, saving, provider>>
  PROVE  RuntimeInv'
<1> DEFINE s == at[u]
           new == [states[s] EXCEPT !.building = FALSE, !.built = TRUE, !.bad = bad,
                                    !.retry = retry, !.open = ~bad]
<1>1. /\ states' = [states EXCEPT ![s] = new]
      /\ where' = [where EXCEPT ![u] = "leaving"]
      BY DEF M!Built, M!Goes
<1>2. s # 0 /\ provider # "done"
      BY DEF RuntimeInv, PlaceInv, Workers, M!Inside
<1>3. s \in McpNumbers /\ states[s] \in WorkspaceStates /\ states[s] # M!Fresh /\ states[s].refs > 0
      BY <1>2, HeldIsThere
<1>4. /\ new \in WorkspaceStates /\ ~new.building /\ new.built /\ new.bad = bad
      /\ new.open = ~bad /\ new.refs = states[s].refs /\ new.retired = states[s].retired
      BY <1>3 DEF WorkspaceStates
<1> HIDE DEF new, s
<1>5. /\ states' \in [McpNumbers -> WorkspaceStates] /\ states'[s] = new
      /\ \A t \in McpNumbers \ {s} : states'[t] = states[t]
      /\ where'[u] = "leaving" /\ \A v \in Runs \ {u} : where'[v] = where[v]
      BY <1>1, <1>3, <1>4 DEF RuntimeInv, RuntimeTyped
<1>6. RuntimeTyped'
  <2>1. \A t \in McpNumbers : states'[t].refs \in 0..Cardinality(Runs)
        BY <1>3, <1>4, <1>5 DEF RuntimeInv, RuntimeTyped
  <2>. QED BY <1>1, <1>5, <2>1 DEF RuntimeInv, RuntimeTyped, McpSteps, M!Inside
<1>7. PlaceInv'
      BY <1>2, <1>5 DEF RuntimeInv, PlaceInv, Workers, s
<1>8. \A v \in Runs \ {u} : at[v] = s => where[v] \notin Workers
      BY DEF RuntimeInv, BuildInv, s
<1>9. \A v \in Runs : at[v] # 0 => at[v] \in McpNumbers
      BY DEF RuntimeInv, RuntimeTyped, McpNumbers
<1>10. \A v \in Runs : where[v] = "pinned" => at[v] # s
  <2>1. states[s].building
        BY DEF RuntimeInv, BuildInv, s
  <2>2. ~states[s].built
        BY <1>3, <2>1 DEF RuntimeInv, StateInv
  <2>. QED BY <2>2 DEF RuntimeInv, BuildInv
<1>11. BuildInv'
  <2> SUFFICES ASSUME NEW v \in Runs
      PROVE /\ where'[v] \in Workers =>
                 /\ states'[at[v]].building
                 /\ \A x \in Runs : at[x] = at[v] /\ where'[x] \in Workers => x = v
            /\ where'[v] \in {"leaving", "pinned"} => states'[at[v]].built
            /\ where'[v] = "pinned" => ~states'[at[v]].bad
      BY DEF BuildInv
  <2>1. CASE v = u
        BY <2>1, <1>4, <1>5 DEF Workers, s
  <2>2. CASE v # u /\ at[v] = s
        BY <2>2, <1>4, <1>5, <1>8, <1>10
  <2>3. CASE v # u /\ at[v] # s
    <3>1. where[v] \in {"leaving", "pinned"} \cup Workers => at[v] # 0
          BY DEF RuntimeInv, PlaceInv
    <3>2. where[v] \in {"leaving", "pinned"} \cup Workers => states'[at[v]] = states[at[v]]
          BY <2>3, <3>1, <1>5, <1>9
    <3>3. \A x \in Runs : where'[x] \in Workers => where[x] \in Workers
          BY <1>5 DEF Workers
    <3>. QED BY <2>3, <3>2, <3>3, <1>5 DEF RuntimeInv, BuildInv
  <2>. QED BY <2>1, <2>2, <2>3
<1>12. StateInv'
  <2> SUFFICES ASSUME NEW t \in McpNumbers
      PROVE /\ ~(states'[t].building /\ states'[t].built)
            /\ states'[t] = M!Fresh \/ states'[t].building \/ states'[t].built
            /\ states'[t].building => \E v \in Runs : at[v] = t /\ where'[v] \in Workers
            /\ states'[t].open => states'[t].built /\ ~states'[t].bad /\ provider # "done"
            /\ states'[t].built /\ ~states'[t].bad /\ provider # "done" => states'[t].open
            /\ t = current => ~states'[t].retired /\ states'[t] # M!Fresh
            /\ t # current /\ states'[t] # M!Fresh /\ provider # "done" =>
                 states'[t].retired /\ states'[t].refs > 0
      BY DEF StateInv
  <2>1. CASE t = s
    <3>1. new # M!Fresh
          BY <1>4, FreshIs
    <3>2. t = current => ~states[s].retired
          BY <2>1, <1>3 DEF RuntimeInv, StateInv
    <3>3. t # current => states[s].retired
          BY <2>1, <1>2, <1>3 DEF RuntimeInv, StateInv
    <3>. QED BY <2>1, <3>1, <3>2, <3>3, <1>2, <1>3, <1>4, <1>5
  <2>2. CASE t # s
    <3>1. states'[t] = states[t] /\ \A v \in Runs : at[v] = t => v # u
          BY <2>2, <1>5 DEF s
    <3>. QED BY <3>1, <1>5 DEF RuntimeInv, StateInv
  <2>. QED BY <2>1, <2>2
<1>13. M!RefsCount'
  <2>1. \A t \in McpNumbers : states'[t].refs = states[t].refs
        BY <1>4, <1>5
  <2>2. \A t \in McpNumbers : M!Holders(t)' = M!Holders(t)
        BY DEF M!Holders
  <2>. QED BY <2>1, <2>2, <1>2 DEF RuntimeInv, M!RefsCount, McpNumbers
<1>. QED BY <1>6, <1>7, <1>11, <1>12, <1>13 DEF RuntimeInv

LEMMA ConfirmStep ==
  ASSUME RuntimeConstants, RuntimeInv, NEW u \in Runs, M!Confirm(u) PROVE RuntimeInv'
<1>1. where[u] = "confirming" /\ where[u] \in Workers
      /\ UNCHANGED <<plan, at, stopped, current, runs, file, saving, provider>>
      BY DEF M!Confirm, Workers
<1>2. \/ where' = [where EXCEPT ![u] = "connecting"] /\ UNCHANGED states
      \/ M!Built(u, FALSE, TRUE, TRUE)
      \/ M!Built(u, TRUE, TRUE, FALSE)
      BY DEF M!Confirm, M!Goes
<1>3. ~FALSE = TRUE /\ ~TRUE = FALSE
      OBVIOUS
<1>4. CASE where' = [where EXCEPT ![u] = "connecting"] /\ UNCHANGED states
      BY <1>1, <1>4, ConnectingStep
<1>5. CASE M!Built(u, FALSE, TRUE, TRUE)
  <2>1. M!Built(u, FALSE, TRUE, ~FALSE)
        BY <1>3, <1>5
  <2>. QED BY <2>1, <1>1, BuiltStep
<1>6. CASE M!Built(u, TRUE, TRUE, FALSE)
  <2>1. M!Built(u, TRUE, TRUE, ~TRUE)
        BY <1>3, <1>6
  <2>. QED BY <2>1, <1>1, BuiltStep
<1>. QED BY <1>2, <1>4, <1>5, <1>6

LEMMA ConnectStep ==
  ASSUME RuntimeConstants, RuntimeInv, NEW u \in Runs, M!Connect(u) PROVE RuntimeInv'
<1>1. where[u] \in Workers
      /\ UNCHANGED <<plan, at, stopped, current, runs, file, saving, provider>>
      BY DEF M!Connect, Workers
<1>2. \E retry \in BOOLEAN : M!Built(u, FALSE, retry, TRUE) \/ M!Built(u, TRUE, retry, FALSE)
      BY DEF M!Connect
<1>3. ~FALSE = TRUE /\ ~TRUE = FALSE
      OBVIOUS
<1>4. PICK retry \in BOOLEAN : M!Built(u, FALSE, retry, ~FALSE) \/ M!Built(u, TRUE, retry, ~TRUE)
      BY <1>2, <1>3
<1>. QED BY <1>1, <1>4, BuiltStep

(* A run gives its reference back: the last one to leave a replaced        *)
(* version closes it.                                                      *)
LEMMA PartStep ==
  ASSUME RuntimeConstants, RuntimeInv, NEW u \in Runs, where[u] \in {"leaving", "pinned"},
         provider # "done", NEW to \in {"failed", "over"},
         where' = [where EXCEPT ![u] = to],
         states' = M!Collect([states EXCEPT ![at[u]].refs = @ - 1], at[u]),
         at' = [at EXCEPT ![u] = 0],
         runs' \in [Runs -> 0..MaxStates],
         \A v \in Runs : runs'[v] = IF v = u THEN 0 ELSE runs[v],
         plan' \in [Runs -> Nat],
         UNCHANGED <<stopped, current, file, saving, provider>>
  PROVE  RuntimeInv'
<1>0. PICK s : s = at[u]
      OBVIOUS
<1>1. at[u] # 0
      BY DEF RuntimeInv, PlaceInv
<1>2. s \in McpNumbers /\ states[s] \in WorkspaceStates /\ states[s].refs > 0
      BY <1>0, <1>1, HeldIsThere
<1>3. M!Holders(s)' = M!Holders(s) - 1 /\ \A t \in McpNumbers \ {s} : M!Holders(t)' = M!Holders(t)
      BY <1>0, <1>2, HoldersPart DEF RuntimeInv
<1> DEFINE less == [states[s] EXCEPT !.refs = @ - 1]
           all == [states EXCEPT ![s] = less]
<1>4. states' = M!Collect(all, s)
      BY <1>0
<1>5. /\ less \in WorkspaceStates /\ less.refs = states[s].refs - 1
      /\ less.building = states[s].building /\ less.built = states[s].built
      /\ less.bad = states[s].bad /\ less.open = states[s].open
      /\ less.retired = states[s].retired
      BY <1>2 DEF WorkspaceStates
<1> HIDE DEF less
<1>6. all \in [McpNumbers -> WorkspaceStates] /\ all[s] = less
      /\ \A t \in McpNumbers \ {s} : all[t] = states[t]
      BY <1>2, <1>5 DEF RuntimeInv, RuntimeTyped
<1> HIDE DEF all
<1>7. /\ states' \in [McpNumbers -> WorkspaceStates]
      /\ states'[s] = IF M!Unused(less) THEN M!Fresh ELSE less
      /\ \A t \in McpNumbers \ {s} : states'[t] = states[t]
  <2>1. /\ M!Collect(all, s) \in [McpNumbers -> WorkspaceStates]
        /\ M!Collect(all, s)[s] = IF M!Unused(all[s]) THEN M!Fresh ELSE all[s]
        /\ \A t \in McpNumbers \ {s} : M!Collect(all, s)[t] = all[t]
        BY ONLY <1>2, <1>6, CollectIs
  <2>. QED BY <1>4, <1>6, <2>1
<1>8. states'[s].refs = states[s].refs - 1
      BY <1>5, <1>7, FreshIs DEF M!Unused
<1>9. M!RefsCount'
  <2>1. ASSUME NEW t \in McpNumbers PROVE states'[t].refs = M!Holders(t)'
    <3>1. states[t].refs = M!Holders(t)
          BY DEF RuntimeInv, M!RefsCount, McpNumbers
    <3>. QED BY <3>1, <1>3, <1>7, <1>8
  <2>. QED BY <2>1 DEF M!RefsCount, McpNumbers
<1>10. /\ where'[u] = to /\ \A v \in Runs \ {u} : where'[v] = where[v]
       /\ at'[u] = 0 /\ \A v \in Runs \ {u} : at'[v] = at[v]
       BY DEF RuntimeInv, RuntimeTyped
<1>11. RuntimeTyped'
  <2>1. ASSUME NEW t \in McpNumbers PROVE states'[t].refs \in 0..Cardinality(Runs)
    <3>1. states[t].refs \in 0..Cardinality(Runs) /\ Cardinality(Runs) \in Nat
          BY HoldersFinite DEF RuntimeInv, RuntimeTyped
    <3>2. CASE t = s
          BY <3>1, <3>2, <1>2, <1>8
    <3>3. CASE t # s
          BY <3>1, <3>3, <1>7
    <3>. QED BY <3>2, <3>3
  <2>2. 0 \in 0..MaxStates
        BY DEF RuntimeConstants
  <2>. QED BY <2>1, <2>2, <1>7 DEF RuntimeInv, RuntimeTyped, McpSteps
<1>12. PlaceInv'
  <2>1. runs' = at'
    <3>1. runs = at
          BY DEF RuntimeInv, PlaceInv
    <3>2. \A v \in Runs : runs'[v] = at'[v]
          BY <3>1, <1>10
    <3>. QED BY <3>2 DEF RuntimeInv, RuntimeTyped
  <2>. QED BY <2>1, <1>10 DEF RuntimeInv, PlaceInv, Workers
<1>13. \A v \in Runs \ {u} : where[v] \in {"leaving", "pinned"} \cup Workers /\ at[v] = s
         => states'[s] = less
  <2> SUFFICES ASSUME NEW v \in Runs \ {u}, at[v] = s PROVE states'[s] = less
      OBVIOUS
  <2>1. M!Holders(s)' > 0
        BY <1>10, HeldAfter
  <2>2. states'[s].refs = M!Holders(s)'
        BY <1>2, <1>9 DEF M!RefsCount, McpNumbers
  <2>3. states'[s].refs > 0
        BY <2>1, <2>2
  <2>4. states'[s] # M!Fresh
        BY <2>3, FreshIs
  <2>. QED BY <2>4, <1>7
<1>14. BuildInv'
  <2> SUFFICES ASSUME NEW v \in Runs
      PROVE /\ where'[v] \in Workers =>
                 /\ states'[at'[v]].building
                 /\ \A x \in Runs : at'[x] = at'[v] /\ where'[x] \in Workers => x = v
            /\ where'[v] \in {"leaving", "pinned"} => states'[at'[v]].built
            /\ where'[v] = "pinned" => ~states'[at'[v]].bad
      BY DEF BuildInv
  <2>1. CASE v = u
        BY <2>1, <1>10 DEF Workers
  <2>2. CASE v # u
    <3>1. at'[v] = at[v] /\ where'[v] = where[v]
          BY <2>2, <1>10
    <3>2. ASSUME where[v] \in {"leaving", "pinned"} \cup Workers
          PROVE  /\ states'[at[v]].building = states[at[v]].building
                 /\ states'[at[v]].built = states[at[v]].built
                 /\ states'[at[v]].bad = states[at[v]].bad
      <4>1. at[v] \in McpNumbers
            BY <3>2 DEF RuntimeInv, PlaceInv, RuntimeTyped, McpNumbers
      <4>2. CASE at[v] = s
            BY <4>2, <3>2, <2>2, <1>13, <1>5
      <4>3. CASE at[v] # s
            BY <4>3, <4>1, <1>7
      <4>. QED BY <4>2, <4>3
    <3>3. \A x \in Runs : where'[x] \in Workers => where[x] \in Workers /\ at'[x] = at[x]
          BY <1>10 DEF Workers
    <3>. QED BY <3>1, <3>2, <3>3 DEF RuntimeInv, BuildInv
  <2>. QED BY <2>1, <2>2
<1>15. StateInv'
  <2> SUFFICES ASSUME NEW t \in McpNumbers
      PROVE /\ ~(states'[t].building /\ states'[t].built)
            /\ states'[t] = M!Fresh \/ states'[t].building \/ states'[t].built
            /\ states'[t].building => \E v \in Runs : at'[v] = t /\ where'[v] \in Workers
            /\ states'[t].open => states'[t].built /\ ~states'[t].bad /\ provider # "done"
            /\ states'[t].built /\ ~states'[t].bad /\ provider # "done" => states'[t].open
            /\ t = current => ~states'[t].retired /\ states'[t] # M!Fresh
            /\ t # current /\ states'[t] # M!Fresh /\ provider # "done" =>
                 states'[t].retired /\ states'[t].refs > 0
      BY DEF StateInv
  <2>1. CASE t = s
    <3>1. states[s].built /\ ~states[s].building
          BY <1>0, <1>2 DEF RuntimeInv, BuildInv, StateInv
    <3>2. CASE M!Unused(less)
      <4>1. s # current
            BY <3>2, <1>5, <2>1 DEF M!Unused, RuntimeInv, StateInv
      <4>. QED BY <3>2, <4>1, <2>1, <1>7, FreshIs
    <3>3. CASE ~M!Unused(less)
      <4>1. states'[t] = less
            BY <3>3, <2>1, <1>7
      <4>2. s # current => states[s].retired
            BY <1>2, <2>1, FreshIs DEF RuntimeInv, StateInv
      <4>3. s # current => less.refs > 0
            BY <4>2, <3>1, <3>3, <1>5, <1>2, StateRecord DEF M!Unused
      <4>4. less # M!Fresh
            BY <3>1, <1>5, FreshIs
      <4>. QED BY <4>1, <4>2, <4>3, <4>4, <3>1, <2>1, <1>5, <1>2 DEF RuntimeInv, StateInv
    <3>. QED BY <3>2, <3>3
  <2>2. CASE t # s
    <3>1. states'[t] = states[t] /\ \A v \in Runs : at[v] = t => v # u
          BY <2>2, <1>0, <1>7
    <3>. QED BY <3>1, <1>10 DEF RuntimeInv, StateInv
  <2>. QED BY <2>1, <2>2
<1>. QED BY <1>9, <1>11, <1>12, <1>14, <1>15 DEF RuntimeInv

LEMMA LeaveStep ==
  ASSUME RuntimeConstants, RuntimeInv, NEW u \in Runs, M!Leave(u) PROVE RuntimeInv'
<1>1. /\ where[u] = "leaving"
      /\ plan' = [plan EXCEPT ![u] = 0]
      /\ UNCHANGED <<stopped, current, file, saving, provider>>
      BY DEF M!Leave
<1>2. plan' \in [Runs -> Nat]
      BY <1>1 DEF RuntimeInv, RuntimeTyped
<1>3. provider # "done"
      BY <1>1 DEF RuntimeInv, PlaceInv, M!Inside
<1>4. CASE M!Keeps(u)
  <2>1. where' = [where EXCEPT ![u] = "pinned"] /\ UNCHANGED <<at, states, runs>>
        BY <1>4 DEF M!Leave, M!Goes
  <2>2. where'[u] = "pinned" /\ \A v \in Runs \ {u} : where'[v] = where[v]
        BY <2>1 DEF RuntimeInv, RuntimeTyped
  <2>3. RuntimeTyped'
        BY <1>1, <1>2, <2>1 DEF RuntimeInv, RuntimeTyped, McpSteps
  <2>4. PlaceInv'
        BY <1>1, <1>3, <2>1, <2>2 DEF RuntimeInv, PlaceInv
  <2>5. BuildInv'
        BY <1>1, <1>4, <2>1, <2>2 DEF RuntimeInv, BuildInv, Workers, M!Keeps
  <2>6. StateInv'
        BY <1>1, <2>1, <2>2 DEF RuntimeInv, StateInv, Workers
  <2>7. M!RefsCount'
        BY <1>1, <2>1 DEF RuntimeInv, M!RefsCount, M!Holders
  <2>. QED BY <2>3, <2>4, <2>5, <2>6, <2>7 DEF RuntimeInv
<1>5. CASE ~M!Keeps(u)
  <2>1. /\ states' = M!Collect([states EXCEPT ![at[u]].refs = @ - 1], at[u])
        /\ runs' = [r \in Runs |-> IF r = u THEN 0 ELSE runs[r]]
        /\ at' = [at EXCEPT ![u] = 0]
        /\ where' = [where EXCEPT ![u] = "failed"]
        BY <1>5 DEF M!Leave, M!Goes
  <2>2. 0 \in 0..MaxStates
        BY DEF RuntimeConstants
  <2>3. runs' \in [Runs -> 0..MaxStates]
        BY <2>1, <2>2 DEF RuntimeInv, RuntimeTyped
  <2>4. \A v \in Runs : runs'[v] = IF v = u THEN 0 ELSE runs[v]
        BY <2>1
  <2>. QED BY <1>1, <1>2, <1>3, <2>1, <2>3, <2>4, PartStep
<1>. QED BY <1>4, <1>5

LEMMA ReleaseStep ==
  ASSUME RuntimeConstants, RuntimeInv, NEW u \in Runs, M!ReleaseRun(u) PROVE RuntimeInv'
<1>1. /\ where[u] = "pinned" /\ where' = [where EXCEPT ![u] = "over"]
      /\ at' = [at EXCEPT ![u] = 0]
      /\ UNCHANGED <<plan, stopped, current, file, saving, provider>>
      BY DEF M!ReleaseRun, M!Goes
<1>2. 0 \in 0..MaxStates
      BY DEF RuntimeConstants
<1>3. plan' \in [Runs -> Nat]
      BY <1>1 DEF RuntimeInv, RuntimeTyped
<1>4. CASE provider # "done"
  <2>1. runs = at /\ at[u] # 0
        BY <1>1, <1>4 DEF RuntimeInv, PlaceInv
  <2>2. /\ states' = M!Collect([states EXCEPT ![at[u]].refs = @ - 1], at[u])
        /\ runs' = [runs EXCEPT ![u] = 0]
        BY <2>1 DEF M!ReleaseRun
  <2>3. runs' \in [Runs -> 0..MaxStates]
        BY <2>2, <1>2 DEF RuntimeInv, RuntimeTyped
  <2>4. \A v \in Runs : runs'[v] = IF v = u THEN 0 ELSE runs[v]
        BY <2>2 DEF RuntimeInv, RuntimeTyped
  <2>. QED BY <1>1, <1>3, <1>4, <2>2, <2>3, <2>4, PartStep
<1>5. CASE provider = "done"
  <2>1. runs[u] = 0
        BY <1>5 DEF RuntimeInv, PlaceInv
  <2>2. UNCHANGED <<runs, states>>
        BY <2>1 DEF M!ReleaseRun
  <2>3. /\ where'[u] = "over" /\ \A v \in Runs \ {u} : where'[v] = where[v]
        /\ at'[u] = 0 /\ \A v \in Runs \ {u} : at'[v] = at[v]
        BY <1>1 DEF RuntimeInv, RuntimeTyped
  <2>4. RuntimeTyped'
        BY <1>1, <1>2, <2>2 DEF RuntimeInv, RuntimeTyped, McpSteps
  <2>5. PlaceInv'
        BY <1>1, <1>5, <2>2, <2>3 DEF RuntimeInv, PlaceInv, Workers, M!Inside
  <2>6. BuildInv'
        BY <1>1, <2>2, <2>3 DEF RuntimeInv, BuildInv, Workers
  <2>7. StateInv'
        BY <1>1, <1>5, <2>2, <2>3 DEF RuntimeInv, StateInv, Workers
  <2>8. M!RefsCount'
        BY <1>1, <1>5 DEF M!RefsCount
  <2>. QED BY <2>4, <2>5, <2>6, <2>7, <2>8 DEF RuntimeInv
<1>. QED BY <1>4, <1>5

(* The current version is replaced: it is closed, or on its way out.       *)
LEMMA RetiredIs ==
  ASSUME RuntimeConstants, RuntimeInv, provider # "done", NEW freed, freed = M!Retire(states, current)
  PROVE  /\ freed \in [McpNumbers -> WorkspaceStates]
         /\ \A s \in McpNumbers :
              /\ freed[s].refs = states[s].refs
              /\ freed[s] # M!Fresh => /\ freed[s].retired /\ freed[s].refs > 0
                                    /\ freed[s].building = states[s].building
                                    /\ freed[s].built = states[s].built
                                    /\ freed[s].bad = states[s].bad
                                    /\ freed[s].open = states[s].open
                                    /\ states[s] # M!Fresh
              /\ states[s].refs > 0 /\ states[s] # M!Fresh => freed[s] # M!Fresh
<1>1. /\ freed \in [McpNumbers -> WorkspaceStates]
      /\ current \in McpNumbers => freed[current] =
           IF states[current].built /\ states[current].refs = 0 THEN M!Fresh
           ELSE [states[current] EXCEPT !.retired = TRUE]
      /\ \A t \in McpNumbers \ {current} : freed[t] = states[t]
      BY RetireIs DEF RuntimeInv, RuntimeTyped
<1> SUFFICES ASSUME NEW s \in McpNumbers
    PROVE /\ freed[s].refs = states[s].refs
          /\ freed[s] # M!Fresh => /\ freed[s].retired /\ freed[s].refs > 0
                                      /\ freed[s].building = states[s].building
                                      /\ freed[s].built = states[s].built
                                      /\ freed[s].bad = states[s].bad
                                      /\ freed[s].open = states[s].open
                                      /\ states[s] # M!Fresh
          /\ states[s].refs > 0 /\ states[s] # M!Fresh => freed[s] # M!Fresh
    BY <1>1
<1>2. CASE s # current
      BY <1>1, <1>2 DEF RuntimeInv, StateInv
<1>3. CASE s = current
  <2>1. states[s] \in WorkspaceStates /\ states[s] # M!Fresh /\ states[s].refs \in Nat
        BY <1>3, StateRecord DEF RuntimeInv, RuntimeTyped, StateInv
  <2> DEFINE x == [states[s] EXCEPT !.retired = TRUE]
  <2>2. /\ x.retired /\ x.refs = states[s].refs /\ x.building = states[s].building
        /\ x.built = states[s].built /\ x.bad = states[s].bad /\ x.open = states[s].open
        BY <2>1 DEF WorkspaceStates
  <2>3. freed[s] = IF states[s].built /\ states[s].refs = 0 THEN M!Fresh ELSE x
        BY <1>1, <1>3
  <2> HIDE DEF x
  <2>4. x # M!Fresh
        BY <2>2, FreshIs
  <2>5. ASSUME ~states[s].built PROVE states[s].refs > 0
    <3>1. states[s].building
          BY <2>1, <2>5 DEF RuntimeInv, StateInv
    <3>2. PICK u \in Runs : at[u] = s
          BY <3>1 DEF RuntimeInv, StateInv
    <3>3. M!Holders(s) > 0
          BY <3>2, HoldersFinite
    <3>. QED BY <3>3 DEF RuntimeInv, M!RefsCount, McpNumbers
  <2>. QED BY <2>1, <2>2, <2>3, <2>4, <2>5, FreshIs
<1>. QED BY <1>2, <1>3

LEMMA InvalidateStep ==
  ASSUME RuntimeConstants, RuntimeInv, M!Invalidate PROVE RuntimeInv'
<1>1. /\ saving' = FALSE /\ current' = 0
      /\ UNCHANGED <<where, plan, at, stopped, runs, file, provider>>
      BY DEF M!Invalidate
<1>2. 0 \in 0..MaxStates /\ 0 \notin McpNumbers
      BY DEF RuntimeConstants, McpNumbers
<1>3. CASE provider = "done"
  <2>1. states' = states
        BY <1>3 DEF M!Invalidate
  <2>2. RuntimeTyped'
        BY <1>1, <1>2, <2>1 DEF RuntimeInv, RuntimeTyped
  <2>3. PlaceInv' /\ BuildInv'
        BY <1>1, <2>1 DEF RuntimeInv, PlaceInv, BuildInv
  <2>4. StateInv'
        BY <1>1, <1>2, <1>3, <2>1 DEF RuntimeInv, StateInv
  <2>5. M!RefsCount'
        BY <1>1, <1>3 DEF M!RefsCount
  <2>. QED BY <2>2, <2>3, <2>4, <2>5 DEF RuntimeInv
<1>4. CASE provider # "done"
  <2>1. states' = M!Retire(states, current)
        BY <1>4 DEF M!Invalidate
  <2>2. /\ states' \in [McpNumbers -> WorkspaceStates]
        /\ \A s \in McpNumbers :
              /\ states'[s].refs = states[s].refs
              /\ states'[s] # M!Fresh => /\ states'[s].retired /\ states'[s].refs > 0
                                    /\ states'[s].building = states[s].building
                                    /\ states'[s].built = states[s].built
                                    /\ states'[s].bad = states[s].bad
                                    /\ states'[s].open = states[s].open
                                    /\ states[s] # M!Fresh
              /\ states[s].refs > 0 /\ states[s] # M!Fresh => states'[s] # M!Fresh
        BY <1>4, <2>1, RetiredIs
  <2>3. RuntimeTyped'
        BY <1>1, <1>2, <2>2 DEF RuntimeInv, RuntimeTyped
  <2>4. PlaceInv'
        BY <1>1 DEF RuntimeInv, PlaceInv
  <2>5. ASSUME NEW u \in Runs, at[u] # 0
        PROVE  /\ states'[at[u]].building = states[at[u]].building
               /\ states'[at[u]].built = states[at[u]].built
               /\ states'[at[u]].bad = states[at[u]].bad
        BY <1>4, <2>2, <2>5, HeldIsThere
  <2>6. BuildInv'
        BY <1>1, <2>5 DEF RuntimeInv, BuildInv, PlaceInv
  <2>7. StateInv'
        BY <1>1, <1>2, <2>2, FreshIs DEF RuntimeInv, StateInv
  <2>8. M!RefsCount'
    <3>1. ASSUME NEW s \in McpNumbers PROVE states'[s].refs = M!Holders(s)'
          BY <1>1, <1>4, <2>2 DEF RuntimeInv, M!RefsCount, M!Holders, McpNumbers
    <3>. QED BY <3>1 DEF M!RefsCount, McpNumbers
  <2>. QED BY <2>3, <2>4, <2>6, <2>7, <2>8 DEF RuntimeInv
<1>. QED BY <1>3, <1>4

(* Close has waited for everybody inside, and closes what there is. *)
LEMMA CloseReturnsStep ==
  ASSUME RuntimeConstants, RuntimeInv, M!CloseReturns PROVE RuntimeInv'
<1>1. /\ provider = "closed" /\ provider' = "done" /\ current' = 0
      /\ \A u \in Runs : where[u] \notin M!Inside \ {"planned"}
      /\ states' = [s \in 1..MaxStates |->
                      IF s \in M!Referenced THEN [states[s] EXCEPT !.open = FALSE] ELSE states[s]]
      /\ runs' = [r \in Runs |-> 0]
      /\ UNCHANGED <<where, plan, at, stopped, file, saving>>
      BY DEF M!CloseReturns
<1>2. 0 \in 0..MaxStates /\ 0 \notin McpNumbers
      BY DEF RuntimeConstants, McpNumbers
<1>3. ASSUME NEW s \in McpNumbers
      PROVE  /\ states'[s] \in WorkspaceStates /\ states'[s].refs = states[s].refs
             /\ states'[s].building = states[s].building /\ states'[s].built = states[s].built
             /\ states'[s].bad = states[s].bad /\ ~states'[s].open
             /\ states[s] = M!Fresh => states'[s] = M!Fresh
  <2>1. states[s] \in WorkspaceStates
        BY DEF RuntimeInv, RuntimeTyped
  <2> DEFINE x == [states[s] EXCEPT !.open = FALSE]
  <2>2. /\ x \in WorkspaceStates /\ ~x.open /\ x.refs = states[s].refs
        /\ x.building = states[s].building /\ x.built = states[s].built /\ x.bad = states[s].bad
        BY <2>1 DEF WorkspaceStates
  <2>3. ASSUME states[s] = M!Fresh PROVE x = M!Fresh
    <3>1. ~states[s].open /\ states[s].open \in BOOLEAN
          BY <2>3, FreshIs DEF WorkspaceStates
    <3>2. states[s].open = FALSE
          BY ONLY <3>1
    <3>3. x = states[s]
          BY ONLY <2>1, <3>2 DEF WorkspaceStates, x
    <3>. QED BY ONLY <2>3, <3>3
  <2>4. states'[s] = IF s \in M!Referenced THEN x ELSE states[s]
        BY <1>1 DEF McpNumbers
  <2> HIDE DEF x
  <2>5. ASSUME s \notin M!Referenced PROVE ~states[s].open
    <3>1. s # current /\ \A r \in Runs : at[r] # s
          BY <2>5, <1>1 DEF M!Referenced, RuntimeInv, PlaceInv
    <3>2. ~(M!Holders(s) > 0)
          BY <3>1, HoldersFinite
    <3>3. ~(states[s].refs > 0)
          BY <3>2, <1>1 DEF RuntimeInv, M!RefsCount, McpNumbers
    <3>4. states[s] = M!Fresh
          BY <3>1, <3>3, <1>1 DEF RuntimeInv, StateInv
    <3>. QED BY <3>4, FreshIs
  <2>. QED BY <2>1, <2>2, <2>3, <2>4, <2>5
<1>4. RuntimeTyped'
  <2>1. states' \in [McpNumbers -> WorkspaceStates]
        BY <1>1, <1>3 DEF McpNumbers
  <2>2. \A s \in McpNumbers : states'[s].refs \in 0..Cardinality(Runs)
        BY <1>3 DEF RuntimeInv, RuntimeTyped
  <2>3. runs' \in [Runs -> 0..MaxStates]
        BY <1>1, <1>2
  <2>. QED BY <2>1, <2>2, <2>3, <1>1, <1>2 DEF RuntimeInv, RuntimeTyped
<1>5. PlaceInv'
      BY <1>1 DEF RuntimeInv, PlaceInv
<1>6. \A u \in Runs : where[u] \notin Workers /\ where[u] # "leaving"
      BY <1>1 DEF M!Inside, Workers
<1>7. BuildInv'
  <2>1. \A u \in Runs : where[u] = "pinned" => at[u] \in McpNumbers
        BY DEF RuntimeInv, PlaceInv, RuntimeTyped, McpNumbers
  <2>. QED BY <2>1, <1>1, <1>3, <1>6 DEF RuntimeInv, BuildInv
<1>8. StateInv'
  <2>1. \A s \in McpNumbers : ~states[s].building
        BY <1>6 DEF RuntimeInv, StateInv
  <2>. QED BY <2>1, <1>1, <1>2, <1>3 DEF RuntimeInv, StateInv
<1>9. M!RefsCount'
      BY <1>1 DEF M!RefsCount
<1>. QED BY <1>4, <1>5, <1>7, <1>8, <1>9 DEF RuntimeInv

(* A run enters: the current connections serve it, or it begins new ones   *)
(* in place of them.                                                       *)
LEMMA FreeIs ==
  ASSUME RuntimeConstants, NEW freed, {x \in 1..MaxStates : freed[x] = M!Fresh} # {},
         NEW s, s = CHOOSE x \in {z \in 1..MaxStates : freed[z] = M!Fresh} :
                      \A y \in {z \in 1..MaxStates : freed[z] = M!Fresh} : x <= y
  PROVE  s \in McpNumbers /\ freed[s] = M!Fresh
<1> DEFINE free == {x \in 1..MaxStates : freed[x] = M!Fresh}
           R == OpToRel(<, Nat)
<1>1. free \subseteq Nat /\ free # {}
      BY DEF RuntimeConstants
<1>2. IsWellFoundedOn(R, Nat)
      BY NatLessThanWellFounded
<1>3. \E x \in free : \A y \in free : <<y, x>> \notin R
      BY ONLY <1>1, <1>2, WFMin
<1>4. \A x, y \in Nat : <<y, x>> \in R <=> y < x
      BY DEF OpToRel
<1>5. \E x \in free : \A y \in free : x <= y
  <2> HIDE DEF free, R
  <2>1. PICK x \in free : \A y \in free : <<y, x>> \notin R
        BY <1>3
  <2>2. \A y \in free : x <= y
    <3> TAKE y \in free
    <3>1. x \in Nat /\ y \in Nat
          BY ONLY <1>1, x \in free, y \in free
    <3>2. ~(y < x)
          BY ONLY <2>1, <1>4, <3>1, y \in free
    <3>. QED BY ONLY <3>1, <3>2
  <2>. QED BY <2>2
<1>6. s = CHOOSE x \in free : \A y \in free : x <= y
      OBVIOUS
<1> HIDE DEF free
<1>7. s \in free
      BY <1>5, <1>6
<1>. QED BY <1>7 DEF free, McpNumbers

Entered(u, s, to) ==
  /\ where' = [where EXCEPT ![u] = to]
  /\ runs' = [r \in Runs |-> IF r = u THEN s ELSE runs[r]]
  /\ at' = [at EXCEPT ![u] = s] /\ current' = s
  /\ UNCHANGED <<plan, stopped, file, saving, provider>>

\* What becomes of the table when a run enters version s.
Tabled(s, to) ==
  /\ states' \in [McpNumbers -> WorkspaceStates]
  /\ states'[s].refs = states[s].refs + 1 /\ ~states'[s].retired /\ states'[s] # M!Fresh
  /\ \/ /\ to = "waiting" /\ states[s] # M!Fresh
        /\ states'[s].building = states[s].building /\ states'[s].built = states[s].built
        /\ states'[s].bad = states[s].bad /\ states'[s].open = states[s].open
     \/ /\ to = "confirming" /\ states[s].refs = 0
        /\ states'[s].building /\ ~states'[s].built /\ ~states'[s].open
  /\ \A t \in McpNumbers \ {s} :
       /\ states'[t].refs = states[t].refs
       /\ states'[t] # M!Fresh => /\ states'[t].retired /\ states'[t].refs > 0
                                  /\ states'[t].building = states[t].building
                                  /\ states'[t].built = states[t].built
                                  /\ states'[t].bad = states[t].bad
                                  /\ states'[t].open = states[t].open
                                  /\ states[t] # M!Fresh
       /\ states[t].refs > 0 /\ states[t] # M!Fresh => states'[t] # M!Fresh

LEMMA TableStep ==
  ASSUME RuntimeConstants, RuntimeInv, NEW u \in Runs, at[u] = 0, provider = "open",
         NEW s \in McpNumbers, NEW to \in {"waiting", "confirming"},
         Entered(u, s, to), Tabled(s, to)
  PROVE  RuntimeInv'
<1> USE DEF Entered, Tabled
<1>1. M!Holders(s)' = M!Holders(s) + 1 /\ \A t \in McpNumbers \ {s} : M!Holders(t)' = M!Holders(t)
      BY HoldersJoin DEF RuntimeInv
<1>2. \A t \in McpNumbers : states[t].refs = M!Holders(t)
      BY DEF RuntimeInv, M!RefsCount, McpNumbers
<1>3. \A t \in McpNumbers : states'[t].refs = M!Holders(t)'
  <2> TAKE t \in McpNumbers
  <2>1. CASE t = s
        BY <2>1, <1>1, <1>2
  <2>2. CASE t # s
        BY <2>2, <1>1, <1>2
  <2>. QED BY <2>1, <2>2
<1>4. M!RefsCount'
      BY <1>3 DEF M!RefsCount, McpNumbers
<1>5. /\ where'[u] = to /\ \A v \in Runs \ {u} : where'[v] = where[v]
      /\ at'[u] = s /\ \A v \in Runs \ {u} : at'[v] = at[v]
      BY DEF RuntimeInv, RuntimeTyped
<1>6. s \in 0..MaxStates /\ s # 0
      BY DEF McpNumbers
<1>7. RuntimeTyped'
  <2>1. \A t \in McpNumbers : states'[t].refs \in 0..Cardinality(Runs)
    <3>1. \A t \in McpNumbers : M!Holders(t)' \in 0..Cardinality(Runs)
      <4> TAKE t \in McpNumbers
      <4>1. {v \in Runs : at'[v] = t} \subseteq Runs /\ IsFiniteSet(Runs)
            BY DEF RuntimeConstants
      <4>. QED BY <4>1, McpCounts, FS_Subset, FS_CardinalityType DEF M!Holders
    <3>. QED BY <3>1, <1>3
  <2>2. where' \in [Runs -> McpSteps] /\ at' \in [Runs -> 0..MaxStates]
        BY <1>6 DEF RuntimeInv, RuntimeTyped, McpSteps, M!Inside
  <2>3. runs' \in [Runs -> 0..MaxStates]
        BY <1>6 DEF RuntimeInv, RuntimeTyped
  <2>. QED BY <2>1, <2>2, <2>3, <1>6 DEF RuntimeInv, RuntimeTyped
<1>8. PlaceInv'
  <2>1. runs' = at'
    <3>1. runs = at
          BY DEF RuntimeInv, PlaceInv
    <3>2. \A v \in Runs : runs'[v] = at'[v]
          BY <3>1, <1>5
    <3>. QED BY <3>2 DEF RuntimeInv, RuntimeTyped
  <2>2. ASSUME NEW v \in Runs
        PROVE  at'[v] # 0 <=> where'[v] \in {"waiting", "leaving", "pinned"} \cup Workers
    <3>1. CASE v = u
          BY <3>1, <1>5, <1>6 DEF Workers
    <3>2. CASE v # u
          BY <3>2, <1>5 DEF RuntimeInv, PlaceInv
    <3>. QED BY <3>1, <3>2
  <2>. QED BY <2>1, <2>2 DEF PlaceInv
<1>9. ASSUME NEW v \in Runs, v # u, at[v] # 0
      PROVE  /\ states'[at[v]].building = states[at[v]].building
             /\ states'[at[v]].built = states[at[v]].built
             /\ states'[at[v]].bad = states[at[v]].bad
             /\ to = "confirming" => at[v] # s
  <2>1. at[v] \in McpNumbers /\ states[at[v]] # M!Fresh /\ states[at[v]].refs > 0
        BY <1>9, HeldIsThere
  <2>2. CASE at[v] = s
        BY <2>1, <2>2
  <2>3. CASE at[v] # s
        BY <2>1, <2>3
  <2>. QED BY <2>2, <2>3
<1>10. BuildInv'
  <2> SUFFICES ASSUME NEW v \in Runs
      PROVE /\ where'[v] \in Workers =>
                 /\ states'[at'[v]].building
                 /\ \A x \in Runs : at'[x] = at'[v] /\ where'[x] \in Workers => x = v
            /\ where'[v] \in {"leaving", "pinned"} => states'[at'[v]].built
            /\ where'[v] = "pinned" => ~states'[at'[v]].bad
      BY DEF BuildInv
  <2>1. \A x \in Runs : where[x] \in {"leaving", "pinned"} \cup Workers => at[x] # 0
        BY DEF RuntimeInv, PlaceInv
  <2>2. CASE v = u
    <3>1. \A x \in Runs \ {u} : where[x] \in Workers /\ to = "confirming" => at[x] # s
          BY <2>1, <1>9
    <3>2. to = "waiting" => to \notin Workers
          BY DEF Workers
    <3>. QED BY <2>2, <3>1, <3>2, <1>5
  <2>3. CASE v # u
    <3>1. \A x \in Runs : at'[x] = at'[v] /\ where'[x] \in Workers /\ where[v] \in Workers => x = v
      <4> SUFFICES ASSUME NEW x \in Runs, at'[x] = at'[v], where'[x] \in Workers,
                          where[v] \in Workers
                   PROVE  x = v
          OBVIOUS
      <4>1. at[v] # 0 /\ at'[v] = at[v]
            BY <2>1, <2>3, <1>5
      <4>2. x # u
            BY <4>1, <1>5, <1>9, <2>3 DEF Workers
      <4>. QED BY <4>1, <4>2, <1>5 DEF RuntimeInv, BuildInv
    <3>. QED BY <2>1, <2>3, <3>1, <1>5, <1>9 DEF RuntimeInv, BuildInv
  <2>. QED BY <2>2, <2>3
<1>11. StateInv'
  <2> SUFFICES ASSUME NEW t \in McpNumbers
      PROVE /\ ~(states'[t].building /\ states'[t].built)
            /\ states'[t] = M!Fresh \/ states'[t].building \/ states'[t].built
            /\ states'[t].building => \E v \in Runs : at'[v] = t /\ where'[v] \in Workers
            /\ states'[t].open => states'[t].built /\ ~states'[t].bad /\ provider # "done"
            /\ states'[t].built /\ ~states'[t].bad /\ provider # "done" => states'[t].open
            /\ t = s => ~states'[t].retired /\ states'[t] # M!Fresh
            /\ t # s /\ states'[t] # M!Fresh /\ provider # "done" =>
                 states'[t].retired /\ states'[t].refs > 0
      BY DEF StateInv
  <2>1. ASSUME states[t].building, t = s => to = "waiting"
        PROVE \E v \in Runs : at'[v] = t /\ where'[v] \in Workers
    <3>1. PICK v \in Runs : at[v] = t /\ where[v] \in Workers
          BY <2>1 DEF RuntimeInv, StateInv
    <3>2. v # u
          BY <3>1 DEF McpNumbers
    <3>. QED BY <3>1, <3>2, <1>5
  <2>2. CASE t = s /\ to = "waiting"
        BY <2>1, <2>2 DEF RuntimeInv, StateInv
  <2>3. CASE t = s /\ to = "confirming"
    <3>1. at'[u] = t /\ where'[u] \in Workers
          BY <2>3, <1>5 DEF Workers
    <3>. QED BY <2>3, <3>1
  <2>4. CASE t # s
    <3>1. CASE states'[t] = M!Fresh
          BY <3>1, <2>4, FreshIs
    <3>2. CASE states'[t] # M!Fresh
          BY <3>2, <2>1, <2>4 DEF RuntimeInv, StateInv
    <3>. QED BY <3>1, <3>2
  <2>. QED BY <2>2, <2>3, <2>4
<1>. QED BY <1>4, <1>7, <1>8, <1>10, <1>11 DEF RuntimeInv

LEMMA JoinStep ==
  ASSUME RuntimeConstants, RuntimeInv, NEW u \in Runs, at[u] = 0, provider = "open",
         NEW s \in McpNumbers, s = current,
         Entered(u, s, "waiting"), states' = [states EXCEPT ![s].refs = @ + 1]
  PROVE  RuntimeInv'
<1> DEFINE more == [states[s] EXCEPT !.refs = @ + 1]
<1>1. states[s] \in WorkspaceStates /\ states[s] # M!Fresh /\ ~states[s].retired
      BY DEF RuntimeInv, RuntimeTyped, StateInv
<1>2. /\ more \in WorkspaceStates /\ more.refs = states[s].refs + 1
      /\ more.building = states[s].building /\ more.built = states[s].built
      /\ more.bad = states[s].bad /\ more.open = states[s].open
      /\ more.retired = states[s].retired
      BY <1>1 DEF WorkspaceStates
<1>3. states' = [states EXCEPT ![s] = more]
      OBVIOUS
<1> HIDE DEF more
<1>4. /\ states' \in [McpNumbers -> WorkspaceStates] /\ states'[s] = more
      /\ \A t \in McpNumbers \ {s} : states'[t] = states[t]
      BY <1>2, <1>3 DEF RuntimeInv, RuntimeTyped
<1>5. more # M!Fresh
  <2>1. more.refs # 0
        BY <1>1, <1>2, StateRecord
  <2>. QED BY <2>1, FreshIs
<1>6. \A t \in McpNumbers \ {s} : states[t] # M!Fresh => states[t].retired /\ states[t].refs > 0
      BY DEF RuntimeInv, StateInv
<1>7. states[s].refs \in Nat
      BY <1>1, StateRecord
<1>8. ASSUME NEW t \in McpNumbers \ {s}, states[t] # M!Fresh
      PROVE  states'[t].retired /\ states'[t].refs > 0
      BY ONLY <1>8, <1>4, <1>6
<1>9. Tabled(s, "waiting")
      BY ONLY <1>1, <1>2, <1>4, <1>5, <1>8 DEF Tabled
<1>. QED BY <1>9, TableStep

LEMMA OpenStep ==
  ASSUME RuntimeConstants, RuntimeInv, NEW u \in Runs, at[u] = 0, provider = "open",
         NEW freed, freed = M!Retire(states, current),
         NEW s \in McpNumbers, freed[s] = M!Fresh, NEW n \in Nat,
         Entered(u, s, "confirming"),
         states' = [[freed EXCEPT ![s] = [M!Fresh EXCEPT !.of = n, !.building = TRUE]]
                      EXCEPT ![s].refs = @ + 1]
  PROVE  RuntimeInv'
<1> DEFINE begun == [M!Fresh EXCEPT !.of = n, !.building = TRUE]
           first == [begun EXCEPT !.refs = @ + 1]
<1>1. begun \in WorkspaceStates /\ begun.refs = 0 /\ begun.building
      /\ ~begun.built /\ ~begun.open /\ ~begun.retired
      BY DEF M!Fresh, WorkspaceStates
<1> HIDE DEF begun
<1>2. first \in WorkspaceStates /\ first.refs = 1 /\ first.building
      /\ ~first.built /\ ~first.open /\ ~first.retired
      BY <1>1 DEF WorkspaceStates
<1>3. /\ freed \in [McpNumbers -> WorkspaceStates]
      /\ \A t \in McpNumbers :
              /\ freed[t].refs = states[t].refs
              /\ freed[t] # M!Fresh => /\ freed[t].retired /\ freed[t].refs > 0
                                    /\ freed[t].building = states[t].building
                                    /\ freed[t].built = states[t].built
                                    /\ freed[t].bad = states[t].bad
                                    /\ freed[t].open = states[t].open
                                    /\ states[t] # M!Fresh
              /\ states[t].refs > 0 /\ states[t] # M!Fresh => freed[t] # M!Fresh
      BY RetiredIs
<1>4. states' = [[freed EXCEPT ![s] = begun] EXCEPT ![s].refs = @ + 1]
      BY DEF begun
<1>5. states' = [freed EXCEPT ![s] = first]
      BY <1>3, <1>4
<1> HIDE DEF first
<1>6. /\ states' \in [McpNumbers -> WorkspaceStates] /\ states'[s] = first
      /\ \A t \in McpNumbers \ {s} : states'[t] = freed[t]
      BY ONLY <1>2, <1>3, <1>5, s \in McpNumbers
<1>7. states[s].refs = 0 /\ first # M!Fresh
  <2>1. freed[s].refs = states[s].refs /\ M!Fresh.refs = 0
        BY <1>3, FreshIs
  <2>2. first.refs # M!Fresh.refs
        BY ONLY <2>1, <1>2
  <2>. QED BY <2>1, <2>2
<1>8. Tabled(s, "confirming")
  <2>1. states'[s].refs = states[s].refs + 1
        BY ONLY <1>2, <1>6, <1>7
  <2>. QED BY ONLY <2>1, <1>2, <1>3, <1>6, <1>7 DEF Tabled
<1>. QED BY <1>8, TableStep

LEMMA EnterStep ==
  ASSUME RuntimeConstants, RuntimeInv, NEW u \in Runs, M!Enter(u) PROVE RuntimeInv'
<1>1. where[u] = "planned" /\ UNCHANGED <<plan, stopped, file, saving, provider>>
      BY DEF M!Enter
<1>2. at[u] = 0
      BY <1>1 DEF RuntimeInv, PlaceInv, Workers
<1>3. CASE provider # "open"
  <2>1. where' = [where EXCEPT ![u] = "failed"] /\ UNCHANGED <<at, states, current, runs>>
        BY <1>3 DEF M!Enter, M!Goes
  <2>2. RuntimeTyped'
        BY <1>1, <2>1 DEF RuntimeInv, RuntimeTyped, McpSteps
  <2>3. \A v \in Runs : where'[v] = where[v] \/ {where[v], where'[v]} \subseteq Apart
        BY <1>1, <2>1 DEF RuntimeInv, RuntimeTyped, Apart
  <2>. QED BY <1>1, <2>1, <2>2, <2>3, McpQuietStep
<1>4. CASE provider = "open" /\ M!Serves(current, u)
  <2>1. /\ where' = [where EXCEPT ![u] = "waiting"]
        /\ states' = [states EXCEPT ![current].refs = @ + 1]
        /\ runs' = [r \in Runs |-> IF r = u THEN current ELSE runs[r]]
        /\ at' = [at EXCEPT ![u] = current] /\ current' = current
        BY <1>4 DEF M!Enter, M!Goes
  <2>2. PICK s : s = current
        OBVIOUS
  <2>3. s \in McpNumbers
        BY <1>4, <2>2 DEF M!Serves, RuntimeInv, RuntimeTyped, McpNumbers
  <2>4. Entered(u, s, "waiting")
        BY <1>1, <2>1, <2>2 DEF Entered
  <2>5. states' = [states EXCEPT ![s].refs = @ + 1]
        BY <2>1, <2>2
  <2>. QED BY <1>2, <1>4, <2>2, <2>3, <2>4, <2>5, JoinStep
<1>5. CASE provider = "open" /\ ~M!Serves(current, u)
  <2>1. PICK freed : freed = M!Retire(states, current)
        OBVIOUS
  <2> DEFINE free == {x \in 1..MaxStates : freed[x] = M!Fresh}
  <2>2. PICK s : s = CHOOSE x \in free : \A y \in free : x <= y
        OBVIOUS
  <2>3. /\ where' = [where EXCEPT ![u] = "confirming"]
        /\ states' = [[freed EXCEPT ![s] = [M!Fresh EXCEPT !.of = plan[u], !.building = TRUE]]
                      EXCEPT ![s].refs = @ + 1]
        /\ runs' = [r \in Runs |-> IF r = u THEN s ELSE runs[r]]
        /\ at' = [at EXCEPT ![u] = s] /\ current' = s
        /\ free # {}
        BY <1>5, <2>1, <2>2 DEF M!Enter, M!Goes
  <2>4. s \in McpNumbers /\ freed[s] = M!Fresh
        BY <2>2, <2>3, FreeIs
  <2>5. PICK n \in Nat : n = plan[u]
        BY DEF RuntimeInv, RuntimeTyped
  <2>6. states' = [[freed EXCEPT ![s] = [M!Fresh EXCEPT !.of = n, !.building = TRUE]]
                      EXCEPT ![s].refs = @ + 1]
        BY <2>3, <2>5
  <2>7. Entered(u, s, "confirming")
        BY <1>1, <2>3 DEF Entered
  <2>. QED BY <1>2, <1>5, <2>1, <2>4, <2>5, <2>6, <2>7, OpenStep
<1>. QED BY <1>3, <1>4, <1>5

LEMMA RuntimeInvStep ==
  ASSUME RuntimeConstants, RuntimeInv, [M!Next]_(M!mcpVars) PROVE RuntimeInv'
<1>1. CASE UNCHANGED M!mcpVars
  <2>1. RuntimeTyped'
        BY <1>1 DEF M!mcpVars, RuntimeInv, RuntimeTyped
  <2>. QED BY <1>1, <2>1, McpQuietStep DEF M!mcpVars
<1>2. ASSUME NEW u \in Runs, M!Plan(u) \/ M!Step(u) PROVE RuntimeInv'
      BY <1>2, PlanStep, EnterStep, ConfirmStep, ConnectStep, WaitStep, LeaveStep DEF M!Step
<1>3. ASSUME NEW r \in Runs, M!StopRun(r) \/ M!ReleaseRun(r) PROVE RuntimeInv'
      BY <1>3, OutsideStep, ReleaseStep
<1>4. CASE M!Save \/ M!Invalidate \/ M!EditProject \/ M!Close \/ M!CloseReturns
      BY <1>4, OutsideStep, InvalidateStep, CloseReturnsStep
<1>. QED BY <1>1, <1>2, <1>3, <1>4 DEF M!Next

LEMMA RuntimeInvHolds == ASSUME RuntimeConstants PROVE RuntimeBehaviour => []RuntimeInv
<1>1. M!Init => RuntimeInv
      BY RuntimeInvInit
<1>2. RuntimeInv /\ [M!Next]_(M!mcpVars) => RuntimeInv'
      BY RuntimeInvStep
<1>. QED BY <1>1, <1>2, PTL DEF RuntimeBehaviour

-----------------------------------------------------------------------------
(* The calls, the sets of connections and the provider have the types that *)
(* McpRuntime gives them.                                                  *)
THEOREM RuntimeTypeCorrect == ASSUME RuntimeConstants PROVE RuntimeBehaviour => []M!TypeOK
<1>1. RuntimeInv => M!TypeOK
      BY McpCounts DEF RuntimeInv, RuntimeTyped, M!TypeOK, McpSteps, McpNumbers
<1>. QED BY <1>1, RuntimeInvHolds, PTL

(* The connections that a run is pinned to stay open, whatever is saved,   *)
(* invalidated and rebuilt meanwhile, until the provider is closed         *)
(* (mcp/runtime.go:366-410).                                               *)
THEOREM PinnedStaysOpenHolds == ASSUME RuntimeConstants PROVE RuntimeBehaviour => []M!PinnedStaysOpen
<1>1. RuntimeInv => M!PinnedStaysOpen
  <2> SUFFICES ASSUME RuntimeInv, NEW r \in Runs, where[r] = "pinned", provider # "done"
               PROVE  states[at[r]].open
      BY DEF M!PinnedStaysOpen
  <2>1. at[r] \in McpNumbers
        BY DEF RuntimeInv, PlaceInv, RuntimeTyped, McpNumbers
  <2>2. states[at[r]].built /\ ~states[at[r]].bad
        BY DEF RuntimeInv, BuildInv
  <2>. QED BY <2>1, <2>2 DEF RuntimeInv, StateInv
<1>. QED BY <1>1, RuntimeInvHolds, PTL

(* A set of connections that is open is the current one, pinned or held by *)
(* a call that is about to release it, and none is once Close returned     *)
(* (mcp/runtime.go:140-153, 404-455).                                      *)
THEOREM NothingLeaksHolds == ASSUME RuntimeConstants PROVE RuntimeBehaviour => []M!NothingLeaks
<1>1. RuntimeInv => M!NothingLeaks
  <2> SUFFICES ASSUME RuntimeInv, NEW s \in McpNumbers, states[s].open
               PROVE  /\ s \in M!Referenced \/ M!Holders(s) > 0
                      /\ provider # "done"
      BY DEF M!NothingLeaks, McpNumbers
  <2>1. provider # "done" /\ states[s] # M!Fresh
        BY FreshIs DEF RuntimeInv, StateInv
  <2>2. CASE s = current
        BY <2>1, <2>2 DEF M!Referenced
  <2>3. CASE s # current
        BY <2>1, <2>3 DEF RuntimeInv, StateInv, M!RefsCount, McpNumbers
  <2>. QED BY <2>2, <2>3
<1>. QED BY <1>1, RuntimeInvHolds, PTL

(* The reference count of a set of connections is the number of calls and  *)
(* runs that hold it (mcp/runtime.go:130, 146, 373).                       *)
THEOREM RefsCountHolds == ASSUME RuntimeConstants PROVE RuntimeBehaviour => []M!RefsCount
<1>1. RuntimeInv => M!RefsCount
      BY DEF RuntimeInv
<1>. QED BY <1>1, RuntimeInvHolds, PTL

-----------------------------------------------------------------------------
(* Credentials                                                              *)

K == INSTANCE Credentials

(* An instance has its own name for the number of elements. *)
LEMMA LoginCounts == \A S : K!Cardinality(S) = Cardinality(S)
BY DEF K!Cardinality, Cardinality

-----------------------------------------------------------------------------
(* The inductive invariant, in named parts.                                *)

ConnPlaces == {"out", "opening", "found", "ready", "locking"} \cup K!Held
TaskPlaces == {"none", "starting", "waiting", "issuing", "checking", "connecting", "leaving"}
Mutexes == 1..(Cardinality(Conns) + 1)
ConnStates == [at : ConnPlaces, version : 0..1, epoch : 0..MaxEpoch, record : 0..MaxLogins,
               mutex : 0..(Cardinality(Conns) + 1)]
TaskStates == [at : TaskPlaces, prior : 0..MaxLogins, version : 0..1, epoch : 0..MaxEpoch,
               issued : BOOLEAN, cancelled : BOOLEAN]

CredTyped ==
  /\ saved \in 0..MaxLogins /\ memory \in 0..MaxLogins /\ revoked \in BOOLEAN
  /\ generation \in 0..1 /\ epoch \in 0..MaxEpoch
  /\ lock \in 0..(Cardinality(Conns) + 1)
  /\ conn \in [Conns -> ConnStates] /\ task \in TaskStates
  /\ logins \in 1..MaxLogins /\ removal \in {"none", "retired", "written"}

(* No credential is newer than the last login. *)
KnownLogins ==
  /\ saved <= logins /\ memory <= logins /\ task.prior <= logins
  /\ \A c \in Conns : conn[c].record <= logins

(* Two token sources that hold the mutex of the server hold different      *)
(* ones: a logout or a retirement makes the server forget its mutex.       *)
Exclusive == \A c, d \in Conns :
  conn[c].at \in K!Held /\ conn[d].at \in K!Held /\ conn[c].mutex = conn[d].mutex => c = d

Current(c) == conn[c].epoch = epoch /\ conn[c].version = generation

(* One that may still save has the server's own mutex, and when it asks    *)
(* for a token it starts from a credential that is not older than the one  *)
(* in the store.                                                           *)
CurrentOf(c) ==
  /\ conn[c].epoch <= epoch /\ conn[c].version <= generation
  /\ Current(c) /\ conn[c].at \in {"locking"} \cup K!Held => conn[c].mutex = lock /\ lock # 0
  /\ Current(c) /\ conn[c].at = "asking" => K!Read <= conn[c].record

CredInv == CredTyped /\ KnownLogins /\ Exclusive /\ \A c \in Conns : CurrentOf(c)

CredConstants == IsFiniteSet(Conns) /\ MaxLogins \in Nat \ {0} /\ MaxEpoch \in Nat
-----------------------------------------------------------------------------
(* Facts about the parts of the state.                                     *)
LEMMA Bounds ==
  ASSUME CredConstants
  PROVE  /\ Cardinality(Conns) \in Nat /\ 0..MaxLogins \subseteq Nat /\ 0..MaxEpoch \subseteq Nat
         /\ 1..MaxLogins \subseteq 0..MaxLogins /\ 0 \in 0..MaxLogins /\ 0 \in 0..MaxEpoch
         /\ 0 \in 0..(Cardinality(Conns) + 1) /\ Mutexes \subseteq 0..(Cardinality(Conns) + 1)
         /\ 0 \notin Mutexes
<1>1. Cardinality(Conns) \in Nat
      BY FS_CardinalityType DEF CredConstants
<1>. QED BY <1>1 DEF CredConstants, Mutexes

LEMMA ConnFields ==
  ASSUME NEW r \in ConnStates
  PROVE  /\ r.at \in ConnPlaces /\ r.version \in 0..1 /\ r.epoch \in 0..MaxEpoch
         /\ r.record \in 0..MaxLogins /\ r.mutex \in 0..(Cardinality(Conns) + 1)
BY DEF ConnStates

LEMMA ReadIs ==
  ASSUME CredConstants, CredTyped
  PROVE  /\ K!Read \in 0..MaxLogins /\ K!Read \in Nat
         /\ KnownLogins => K!Read <= logins
BY Bounds DEF CredTyped, KnownLogins, K!Read

LEMMA ReadSame == ASSUME UNCHANGED <<saved, memory, revoked>> PROVE K!Read' = K!Read
BY DEF K!Read

LEMMA SetIs ==
  ASSUME CredTyped, NEW c \in Conns, NEW r \in ConnStates, K!Set(c, r)
  PROVE  /\ conn' \in [Conns -> ConnStates] /\ conn'[c] = r
         /\ \A d \in Conns \ {c} : conn'[d] = conn[d]
BY DEF K!Set, CredTyped

LEMMA NoConnIs ==
  ASSUME CredConstants
  PROVE  /\ K!NoConn \in ConnStates /\ K!NoConn.at = "out" /\ K!NoConn.version = 0 /\ K!NoConn.epoch = 0
         /\ K!NoConn.record = 0 /\ K!NoConn.mutex = 0
BY Bounds DEF K!NoConn, ConnStates, ConnPlaces

LEMMA NoTaskIs == ASSUME CredConstants PROVE K!NoTask \in TaskStates /\ K!NoTask.prior = 0
BY Bounds DEF K!NoTask, TaskStates, TaskPlaces

LEMMA CredInvInit == ASSUME CredConstants, K!Init PROVE CredInv
<1>1. CredTyped
  <2>1. /\ 1 \in 0..MaxLogins /\ 1 \in 1..MaxLogins /\ 0 \in 0..MaxLogins /\ 0 \in 0..MaxEpoch
        /\ 0 \in 0..(Cardinality(Conns) + 1) /\ 0 \in 0..1
        BY Bounds DEF CredConstants
  <2>2. conn \in [Conns -> ConnStates] /\ task \in TaskStates
        BY NoConnIs, NoTaskIs DEF K!Init
  <2>. QED BY <2>1, <2>2 DEF K!Init, CredTyped
<1>2. KnownLogins
      BY NoConnIs, NoTaskIs DEF K!Init, KnownLogins
<1>3. \A c \in Conns : conn[c] = K!NoConn
      BY DEF K!Init
<1>4. Exclusive
      BY <1>3, NoConnIs DEF Exclusive, K!Held
<1>5. ASSUME NEW c \in Conns PROVE CurrentOf(c)
      BY <1>3, NoConnIs DEF K!Init, CurrentOf, K!Held
<1>. QED BY <1>1, <1>2, <1>4, <1>5 DEF CredInv

-----------------------------------------------------------------------------
(* Steps by what they change: one connection ...                           *)
Fits(c, r) ==
  /\ r.record <= logins /\ r.epoch <= epoch /\ r.version <= generation
  /\ r.at \in K!Held => \A d \in Conns \ {c} : conn[d].at \in K!Held => conn[d].mutex # r.mutex
  /\ r.epoch = epoch /\ r.version = generation =>
       /\ r.at \in {"locking"} \cup K!Held => r.mutex = lock' /\ lock' # 0
       /\ r.at = "asking" => K!Read <= r.record

LEMMA ConnMoves ==
  ASSUME CredConstants, CredInv, NEW c \in Conns, NEW r \in ConnStates, K!Set(c, r), Fits(c, r),
         lock' \in 0..(Cardinality(Conns) + 1), lock' = lock \/ lock = 0,
         UNCHANGED <<saved, memory, revoked, generation, epoch, task, logins, removal>>
  PROVE  CredInv'
<1>1. /\ conn' \in [Conns -> ConnStates] /\ conn'[c] = r
      /\ \A d \in Conns \ {c} : conn'[d] = conn[d]
      BY SetIs DEF CredInv
<1>2. CredTyped'
      BY <1>1 DEF CredInv, CredTyped
<1>3. KnownLogins'
      BY <1>1 DEF CredInv, KnownLogins, Fits
<1>4. Exclusive'
      BY <1>1 DEF CredInv, Exclusive, Fits
<1>5. K!Read' = K!Read
      BY ReadSame
<1>6. CurrentOf(c)'
      BY <1>1, <1>5 DEF Fits, CurrentOf, Current
<1>7. ASSUME NEW d \in Conns \ {c} PROVE CurrentOf(d)'
      BY <1>1, <1>5 DEF CredInv, CurrentOf, Current
<1>. QED BY <1>2, <1>3, <1>4, <1>6, <1>7 DEF CredInv

(* ... the login task or the withdrawal only ...                           *)
LEMMA TaskMoves ==
  ASSUME CredConstants, CredInv, task' \in TaskStates, task'.prior <= logins,
         removal' \in {"none", "retired", "written"}, UNCHANGED <<K!storeVars, conn, logins>>
  PROVE  CredInv'
<1>1. CredTyped'
      BY DEF CredInv, CredTyped, K!storeVars
<1>2. KnownLogins' /\ Exclusive'
      BY DEF CredInv, KnownLogins, Exclusive, K!storeVars
<1>3. ASSUME NEW c \in Conns PROVE CurrentOf(c)'
      BY ReadSame DEF CredInv, CurrentOf, Current, K!storeVars
<1>. QED BY <1>1, <1>2, <1>3 DEF CredInv

(* ... or the store, in a new epoch or generation.                         *)
LEMMA StoreMoves ==
  ASSUME CredConstants, CredInv, UNCHANGED conn,
         saved' \in 0..MaxLogins, memory' \in 0..MaxLogins, revoked' \in BOOLEAN,
         saved' <= logins', memory' <= logins', task'.prior <= logins',
         logins' \in 1..MaxLogins, logins <= logins', task' \in TaskStates,
         lock' \in 0..(Cardinality(Conns) + 1), removal' \in {"none", "retired", "written"},
         \/ epoch' = epoch + 1 /\ epoch' \in 0..MaxEpoch /\ generation' = generation
         \/ generation' = generation + 1 /\ generation' \in 0..1 /\ epoch' = epoch
  PROVE  CredInv'
<1>1. CredTyped'
      BY DEF CredInv, CredTyped
<1>2. ASSUME NEW c \in Conns PROVE conn[c].record <= logins'
  <2>1. conn[c].record \in Nat /\ logins \in Nat /\ logins' \in Nat
        BY Bounds, ConnFields DEF CredInv, CredTyped
  <2>. QED BY <2>1 DEF CredInv, KnownLogins
<1>3. KnownLogins'
      BY <1>2 DEF KnownLogins
<1>4. Exclusive'
      BY DEF CredInv, Exclusive
<1>5. ASSUME NEW c \in Conns PROVE CurrentOf(c)'
  <2>1. conn[c].epoch \in Nat /\ conn[c].version \in Nat /\ epoch \in Nat /\ generation \in Nat
        BY Bounds, ConnFields DEF CredInv, CredTyped
  <2>2. conn[c].epoch <= epoch /\ conn[c].version <= generation
        BY DEF CredInv, CurrentOf
  <2>3. conn[c].epoch <= epoch' /\ conn[c].version <= generation' /\ ~Current(c)'
        BY <2>1, <2>2 DEF Current
  <2>. QED BY <2>3 DEF CurrentOf
<1>. QED BY <1>1, <1>3, <1>4, <1>5 DEF CredInv

-----------------------------------------------------------------------------
(* The token sources.                                                      *)
LEMMA HandlerStep ==
  ASSUME CredConstants, CredInv, NEW c \in Conns,
         K!HandlerVersion(c) \/ K!HandlerRecord(c) \/ K!HandlerEpoch(c) \/ K!Disconnect(c)
  PROVE  CredInv'
<1>1. /\ conn[c].at \in {"out", "opening", "found", "ready"}
      /\ UNCHANGED <<K!storeVars, task, logins, removal>>
      BY DEF K!HandlerVersion, K!HandlerRecord, K!HandlerEpoch, K!Disconnect
<1>2. /\ conn[c] \in ConnStates /\ conn[c].record <= logins /\ conn[c].version <= generation
      /\ generation \in 0..1 /\ epoch \in 0..MaxEpoch /\ logins \in Nat /\ epoch \in Nat
      /\ conn[c].epoch <= epoch /\ K!Read \in 0..MaxLogins /\ K!Read <= logins /\ generation \in Nat
      BY ReadIs, Bounds DEF CredInv, CredTyped, KnownLogins, CurrentOf
<1>3. ASSUME NEW r \in ConnStates, K!Set(c, r), r.at \in {"out", "opening", "found", "ready"},
             r.record <= logins, r.epoch <= epoch, r.version <= generation
      PROVE  CredInv'
  <2>1. Fits(c, r)
        BY <1>3 DEF Fits, K!Held
  <2>2. lock \in 0..(Cardinality(Conns) + 1)
        BY DEF CredInv, CredTyped
  <2>. QED BY <1>1, <1>3, <2>1, <2>2, ConnMoves DEF K!storeVars
<1>4. CASE K!Set(c, K!NoConn)
      BY <1>2, <1>3, <1>4, NoConnIs
<1>5. CASE K!HandlerVersion(c)
  <2> DEFINE r == [K!NoConn EXCEPT !.at = "opening", !.version = generation]
  <2>1. /\ r \in ConnStates /\ r.at = "opening" /\ r.version = generation
        /\ r.record = 0 /\ r.epoch = 0
        BY <1>2, NoConnIs DEF ConnStates, ConnPlaces
  <2>2. K!Set(c, r)
        BY <1>5 DEF K!HandlerVersion
  <2> HIDE DEF r
  <2>. QED BY <1>2, <1>3, <2>1, <2>2
<1>6. CASE K!Set(c, [conn[c] EXCEPT !.at = "found", !.record = K!Read])
  <2> DEFINE r == [conn[c] EXCEPT !.at = "found", !.record = K!Read]
  <2>1. /\ r \in ConnStates /\ r.at = "found" /\ r.version = conn[c].version
        /\ r.record = K!Read /\ r.epoch = conn[c].epoch
        BY <1>2 DEF ConnStates, ConnPlaces
  <2>2. K!Set(c, r)
        BY <1>6
  <2> HIDE DEF r
  <2>. QED BY <1>2, <1>3, <2>1, <2>2
<1>7. CASE K!HandlerEpoch(c)
  <2> DEFINE r == [conn[c] EXCEPT !.at = "ready", !.epoch = epoch]
  <2>1. /\ r \in ConnStates /\ r.at = "ready" /\ r.version = conn[c].version
        /\ r.record = conn[c].record /\ r.epoch = epoch
        BY <1>2 DEF ConnStates, ConnPlaces
  <2>2. K!Set(c, r)
        BY <1>7 DEF K!HandlerEpoch
  <2> HIDE DEF r
  <2>. QED BY <1>2, <1>3, <2>1, <2>2
<1>. QED BY <1>4, <1>5, <1>6, <1>7 DEF K!HandlerRecord, K!Disconnect

(* There is always a mutex that no connection has. *)
LEMMA FreshLockIs ==
  ASSUME CredConstants, CredTyped PROVE K!FreshLock \in Mutexes
<1> DEFINE f == [c \in Conns |-> conn[c].mutex]
           R == {conn[c].mutex : c \in Conns}
<1>1. f \in Surjection(Conns, R)
      BY DEF Surjection
<1>2. IsFiniteSet(R) /\ Cardinality(R) <= Cardinality(Conns) /\ Cardinality(R) \in Nat
      BY <1>1, FS_Surjection, FS_CardinalityType DEF CredConstants
<1>3. IsFiniteSet(Mutexes) /\ Cardinality(Mutexes) = Cardinality(Conns) + 1
  <2>1. 1 \in Int /\ Cardinality(Conns) + 1 \in Int /\ Cardinality(Conns) \in Nat
        BY Bounds
  <2>2. IsFiniteSet(1..(Cardinality(Conns) + 1))
        BY ONLY <2>1, FS_Interval
  <2>3. Cardinality(1..(Cardinality(Conns) + 1)) =
          IF 1 > Cardinality(Conns) + 1 THEN 0 ELSE (Cardinality(Conns) + 1) - 1 + 1
        BY ONLY <2>1, FS_Interval
  <2>. QED BY <2>1, <2>2, <2>3 DEF Mutexes
<1>4. ~(Mutexes \subseteq R)
  <2> SUFFICES ASSUME Mutexes \subseteq R PROVE FALSE
      OBVIOUS
  <2>1. Cardinality(Mutexes) <= Cardinality(R)
        BY <1>2, FS_Subset
  <2>. QED BY <1>2, <1>3, <2>1, Bounds
<1>5. \E l \in Mutexes : \A c \in Conns : conn[c].mutex # l
      BY <1>4
<1>. QED BY <1>5, LoginCounts DEF K!FreshLock, Mutexes

LEMMA ExpireStep ==
  ASSUME CredConstants, CredInv, NEW c \in Conns, K!Expire(c) PROVE CredInv'
<1>1. UNCHANGED <<saved, memory, revoked, generation, epoch, task, logins, removal>>
      BY DEF K!Expire
<1>2. /\ conn[c] \in ConnStates /\ conn[c].record <= logins /\ conn[c].version <= generation
      /\ conn[c].epoch <= epoch /\ logins \in Nat /\ epoch \in Nat /\ generation \in Nat
      /\ lock \in 0..(Cardinality(Conns) + 1)
      BY Bounds DEF CredInv, CredTyped, KnownLogins, CurrentOf
<1>3. CASE conn[c].version # generation
  <2>1. K!Set(c, K!NoConn) /\ lock' = lock
        BY <1>3 DEF K!Expire
  <2>2. Fits(c, K!NoConn)
        BY <1>2, NoConnIs DEF Fits, K!Held
  <2>. QED BY <1>1, <1>2, <2>1, <2>2, NoConnIs, ConnMoves
<1>4. CASE conn[c].version = generation
  <2>1. PICK l : l = (IF lock = 0 THEN K!FreshLock ELSE lock)
        OBVIOUS
  <2>2. l \in Mutexes
        BY <1>2, <2>1, FreshLockIs DEF CredInv, Mutexes
  <2> DEFINE r == [conn[c] EXCEPT !.at = "locking", !.mutex = l]
  <2>3. lock' = l /\ K!Set(c, r)
        BY <1>4, <2>1 DEF K!Expire
  <2>4. /\ r \in ConnStates /\ r.at = "locking" /\ r.version = conn[c].version
        /\ r.record = conn[c].record /\ r.epoch = conn[c].epoch /\ r.mutex = l
        BY <1>2, <2>2, Bounds DEF ConnStates, ConnPlaces
  <2> HIDE DEF r
  <2>5. Fits(c, r)
        BY <1>2, <2>2, <2>3, <2>4, Bounds DEF Fits, K!Held
  <2>6. lock' \in 0..(Cardinality(Conns) + 1) /\ (lock' = lock \/ lock = 0)
        BY <2>1, <2>2, <2>3, Bounds
  <2>. QED BY <1>1, <2>3, <2>4, <2>5, <2>6, ConnMoves
<1>. QED BY <1>3, <1>4

LEMMA LoginLockStep ==
  ASSUME CredConstants, CredInv, NEW c \in Conns, K!Lock(c) PROVE CredInv'
<1>1. /\ UNCHANGED <<K!storeVars, task, logins, removal>> /\ conn[c].at = "locking"
      /\ \A d \in Conns : ~(conn[d].at \in K!Held /\ conn[d].mutex = conn[c].mutex)
      BY DEF K!Lock
<1>2. /\ conn[c] \in ConnStates /\ conn[c].record <= logins /\ conn[c].version <= generation
      /\ conn[c].epoch <= epoch /\ logins \in Nat /\ epoch \in Nat /\ generation \in Nat
      /\ lock \in 0..(Cardinality(Conns) + 1) /\ CurrentOf(c)
      BY Bounds DEF CredInv, CredTyped, KnownLogins, CurrentOf
<1>3. CASE conn[c].version # generation
  <2>1. K!Set(c, K!NoConn)
        BY <1>3 DEF K!Lock
  <2>2. Fits(c, K!NoConn)
        BY <1>2, NoConnIs DEF Fits, K!Held
  <2>. QED BY <1>1, <1>2, <2>1, <2>2, NoConnIs, ConnMoves DEF K!storeVars
<1>4. CASE conn[c].version = generation
  <2>1. PICK to \in {"reading", "asking"} :
          to = IF conn[c].epoch = epoch THEN "reading" ELSE "asking"
        OBVIOUS
  <2> DEFINE r == [conn[c] EXCEPT !.at = to]
  <2>2. K!Set(c, r)
        BY <1>4, <2>1 DEF K!Lock
  <2>3. /\ r \in ConnStates /\ r.at = to /\ r.version = conn[c].version
        /\ r.record = conn[c].record /\ r.epoch = conn[c].epoch /\ r.mutex = conn[c].mutex
        BY <1>2 DEF ConnStates, ConnPlaces, K!Held
  <2> HIDE DEF r
  <2>4. Fits(c, r)
        BY <1>1, <1>2, <2>1, <2>3 DEF Fits, CurrentOf, Current, K!storeVars
  <2>. QED BY <1>1, <1>2, <2>2, <2>3, <2>4, ConnMoves DEF K!storeVars
<1>. QED BY <1>3, <1>4

LEMMA ReadLatestStep ==
  ASSUME CredConstants, CredInv, NEW c \in Conns, K!ReadLatest(c) PROVE CredInv'
<1>1. UNCHANGED <<K!storeVars, task, logins, removal>> /\ conn[c].at = "reading"
      BY DEF K!ReadLatest
<1>2. /\ conn[c] \in ConnStates /\ conn[c].record <= logins /\ conn[c].version <= generation
      /\ conn[c].epoch <= epoch /\ lock \in 0..(Cardinality(Conns) + 1) /\ CurrentOf(c)
      /\ K!Read \in 0..MaxLogins /\ K!Read <= logins /\ K!Read \in Nat /\ conn[c].record \in Nat
      BY ReadIs, ConnFields, Bounds DEF CredInv, CredTyped, KnownLogins, CurrentOf
<1>3. CASE K!Read # 0 /\ K!Set(c, K!Unlocked(c, K!Read))
  <2>1. /\ K!Unlocked(c, K!Read) \in ConnStates /\ K!Unlocked(c, K!Read).at = "ready"
        /\ K!Unlocked(c, K!Read).version = conn[c].version
        /\ K!Unlocked(c, K!Read).record = K!Read /\ K!Unlocked(c, K!Read).epoch = conn[c].epoch
        BY <1>2, Bounds DEF K!Unlocked, ConnStates, ConnPlaces
  <2>2. Fits(c, K!Unlocked(c, K!Read))
        BY <1>2, <2>1 DEF Fits, K!Held
  <2>. QED BY <1>1, <1>2, <1>3, <2>1, <2>2, ConnMoves DEF K!storeVars
<1>4. CASE K!Set(c, [conn[c] EXCEPT !.at = "asking", !.record = IF K!Read = 0 THEN @ ELSE K!Read])
  <2>1. PICK n : n = (IF K!Read = 0 THEN conn[c].record ELSE K!Read)
        OBVIOUS
  <2>2. n \in 0..MaxLogins /\ n <= logins /\ K!Read <= n
        BY <1>2, <2>1, ConnFields
  <2> DEFINE r == [conn[c] EXCEPT !.at = "asking", !.record = n]
  <2>3. K!Set(c, r)
        BY <1>4, <2>1
  <2>4. /\ r \in ConnStates /\ r.at = "asking" /\ r.version = conn[c].version
        /\ r.record = n /\ r.epoch = conn[c].epoch /\ r.mutex = conn[c].mutex
        BY <1>2, <2>2 DEF ConnStates, ConnPlaces, K!Held
  <2> HIDE DEF r
  <2>5. ASSUME NEW d \in Conns \ {c}, conn[d].at \in K!Held PROVE conn[d].mutex # r.mutex
        BY <1>1, <2>4, <2>5 DEF CredInv, Exclusive, K!Held
  <2>6. Current(c) => conn[c].mutex = lock /\ lock # 0
        BY <1>1, <1>2 DEF CurrentOf, K!Held
  <2>7. Fits(c, r)
        BY <1>1, <1>2, <2>2, <2>4, <2>5, <2>6 DEF Fits, Current, K!storeVars
  <2>. QED BY <1>1, <1>2, <2>3, <2>4, <2>7, ConnMoves DEF K!storeVars
<1>. QED BY <1>3, <1>4 DEF K!ReadLatest

(* The answer, which only a current source may save; no other current one  *)
(* asks meanwhile.                                                         *)
LEMMA AnswerStep ==
  ASSUME CredConstants, CredInv, NEW c \in Conns, K!Answer(c) PROVE CredInv'
<1>1. UNCHANGED <<generation, epoch, lock, task, logins, removal>> /\ conn[c].at = "asking"
      BY DEF K!Answer
<1>2. /\ conn[c] \in ConnStates /\ conn[c].record <= logins /\ conn[c].version <= generation
      /\ conn[c].epoch <= epoch /\ lock \in 0..(Cardinality(Conns) + 1) /\ CurrentOf(c)
      /\ conn[c].record \in 0..MaxLogins
      BY ConnFields, Bounds DEF CredInv, CredTyped, KnownLogins, CurrentOf
<1>3. PICK r \in ConnStates : /\ K!Set(c, r) /\ r.at \in {"out", "ready"} /\ r.record <= logins
                              /\ r.epoch <= epoch /\ r.version <= generation
  <2> DEFINE u == K!Unlocked(c, conn[c].record)
  <2>1. /\ u \in ConnStates /\ u.at = "ready" /\ u.version = conn[c].version
        /\ u.record = conn[c].record /\ u.epoch = conn[c].epoch
        BY <1>2, Bounds DEF K!Unlocked, ConnStates, ConnPlaces
  <2>2. K!Set(c, u) \/ K!Set(c, K!NoConn)
        BY DEF K!Answer
  <2> HIDE DEF u
  <2>3. CASE K!Set(c, u)
        BY <1>2, <2>1, <2>3
  <2>4. CASE K!Set(c, K!NoConn)
    <3>1. logins \in Nat /\ epoch \in Nat /\ generation \in Nat
          BY Bounds DEF CredInv, CredTyped
    <3>. QED BY <2>4, <3>1, NoConnIs
  <2>. QED BY <2>2, <2>3, <2>4
<1>4. \/ UNCHANGED <<saved, memory, revoked>>
      \/ /\ Current(c) /\ saved' \in 0..MaxLogins /\ memory' \in 0..MaxLogins
         /\ revoked' \in BOOLEAN /\ saved' <= logins /\ memory' <= logins
  <2>1. /\ 0 \in 0..MaxLogins /\ 0 <= logins /\ saved \in 0..MaxLogins /\ revoked \in BOOLEAN
        /\ saved <= logins
        BY Bounds DEF CredInv, CredTyped, KnownLogins
  <2>2. CASE K!StillIn(c) /\ K!MaySave(c) /\ K!Save(conn[c].record)
    <3>1. /\ saved' = conn[c].record /\ memory' = 0 /\ revoked' = FALSE
          /\ Current(c)
          BY <2>2 DEF K!StillIn, K!MaySave, K!Save, Current
    <3>. QED BY <1>2, <2>1, <3>1
  <2>3. CASE K!StillIn(c) /\ K!MaySave(c) /\ memory' = conn[c].record /\ UNCHANGED <<saved, revoked>>
        BY <1>2, <2>1, <2>3 DEF K!StillIn, K!MaySave, Current
  <2>. QED BY <2>2, <2>3 DEF K!Answer
<1>5. /\ conn' \in [Conns -> ConnStates] /\ conn'[c] = r
      /\ \A d \in Conns \ {c} : conn'[d] = conn[d]
      BY <1>3, SetIs DEF CredInv
<1>6. CredTyped'
      BY <1>1, <1>4, <1>5 DEF CredInv, CredTyped
<1>7. KnownLogins'
      BY <1>1, <1>3, <1>4, <1>5 DEF CredInv, KnownLogins
<1>8. Exclusive'
      BY <1>3, <1>5 DEF CredInv, Exclusive, K!Held
<1>9. CurrentOf(c)'
      BY <1>1, <1>3, <1>5 DEF CurrentOf, K!Held
<1>10. ASSUME NEW d \in Conns \ {c} PROVE CurrentOf(d)'
  <2>1. CurrentOf(d)
        BY DEF CredInv
  <2>2. CASE UNCHANGED <<saved, memory, revoked>>
        BY <1>1, <1>5, <2>1, <2>2, ReadSame DEF CurrentOf, Current
  <2>3. CASE Current(c)
    <3>1. ~(Current(d) /\ conn[d].at = "asking")
          BY <1>1, <1>2, <2>1, <2>3 DEF CurrentOf, CredInv, Exclusive, K!Held
    <3>. QED BY <1>1, <1>5, <2>1, <3>1 DEF CurrentOf, Current
  <2>. QED BY <1>4, <2>2, <2>3
<1>. QED BY <1>6, <1>7, <1>8, <1>9, <1>10 DEF CredInv

-----------------------------------------------------------------------------
(* The login task and the settings.                                        *)
LEMMA TaskIs ==
  ASSUME CredConstants, CredInv
  PROVE  /\ task \in TaskStates /\ task.prior <= logins /\ task.prior \in 0..MaxLogins
         /\ logins \in Nat /\ logins \in 1..MaxLogins /\ epoch \in 0..MaxEpoch /\ epoch \in Nat
         /\ task.epoch \in 0..MaxEpoch
BY Bounds DEF CredInv, CredTyped, KnownLogins, TaskStates

LEMMA TaskStep ==
  ASSUME CredConstants, CredInv,
         K!StartLogin \/ K!LoginVersion \/ K!LoginAnswered \/ K!LoginConnects \/ K!CancelLogin \/ K!WriteConfig
  PROVE  CredInv'
<1>1. UNCHANGED <<K!storeVars, conn, logins>> /\ removal' \in {"none", "retired", "written"}
      BY DEF K!StartLogin, K!LoginVersion, K!LoginAnswered, K!LoginConnects, K!CancelLogin,
         K!WriteConfig, CredInv, CredTyped
<1>2. task' \in TaskStates /\ task'.prior <= logins
  <2>1. CASE K!StartLogin
        BY <2>1, NoTaskIs, ReadIs DEF K!StartLogin, TaskStates, TaskPlaces, CredInv
  <2>2. CASE K!LoginVersion
        BY <2>2, TaskIs DEF K!LoginVersion, TaskStates, TaskPlaces, CredInv, CredTyped
  <2>3. CASE K!LoginAnswered
        BY <2>3, TaskIs DEF K!LoginAnswered, TaskStates, TaskPlaces
  <2>4. CASE K!LoginConnects
        BY <2>4, TaskIs, NoTaskIs DEF K!LoginConnects, TaskStates, TaskPlaces
  <2>5. CASE K!CancelLogin
        BY <2>5, TaskIs DEF K!CancelLogin, TaskStates
  <2>6. CASE K!WriteConfig
        BY <2>6, TaskIs DEF K!WriteConfig
  <2>. QED BY <2>1, <2>2, <2>3, <2>4, <2>5, <2>6
<1>. QED BY <1>1, <1>2, TaskMoves

LEMMA IssueStep == ASSUME CredConstants, CredInv, K!Issue PROVE CredInv'
<1>1. CASE UNCHANGED <<saved, memory, revoked, logins, epoch>>
  <2>1. UNCHANGED <<K!storeVars, conn, logins, removal>>
        BY <1>1 DEF K!Issue, K!storeVars
  <2>2. task' \in TaskStates /\ task'.prior <= logins
        BY <1>1, TaskIs DEF K!Issue, TaskStates, TaskPlaces
  <2>3. removal' \in {"none", "retired", "written"}
        BY <2>1 DEF CredInv, CredTyped
  <2>. QED BY <2>1, <2>2, <2>3, TaskMoves
<1>2. CASE /\ logins < MaxLogins /\ epoch < MaxEpoch /\ K!Save(logins + 1) /\ logins' = logins + 1
           /\ epoch' = epoch + 1
           /\ task' = [task EXCEPT !.at = "checking", !.issued = TRUE, !.epoch = epoch + 1]
  <2>1. epoch + 1 \in 0..MaxEpoch /\ logins + 1 \in 1..MaxLogins /\ logins <= logins + 1
        BY <1>2, TaskIs DEF CredConstants
  <2>2. task' \in TaskStates /\ task'.prior = task.prior
        BY <1>2, <2>1, TaskIs DEF TaskStates, TaskPlaces
  <2>3. UNCHANGED <<generation, lock, conn, removal>>
        BY DEF K!Issue
  <2>4. task.prior <= logins + 1
    <3>1. task.prior \in Nat
          BY TaskIs, Bounds
    <3>. QED BY <3>1, TaskIs
  <2>5. /\ saved' \in 0..MaxLogins /\ memory' \in 0..MaxLogins /\ revoked' \in BOOLEAN
        /\ saved' <= logins' /\ memory' <= logins'
    <3>1. saved' = logins + 1 /\ memory' = 0 /\ revoked' = FALSE /\ logins' = logins + 1
          BY <1>2 DEF K!Save
    <3>2. logins + 1 \in 0..MaxLogins /\ 0 \in 0..MaxLogins /\ 0 <= logins + 1
      <4>1. logins + 1 \in 0..MaxLogins
            BY ONLY <2>1, logins + 1 \in 1..MaxLogins
      <4>2. 0 <= logins + 1
            BY TaskIs
      <4>3. 0 \in 0..MaxLogins
            BY Bounds
      <4>. QED BY ONLY <4>1, <4>2, <4>3
    <3>3. logins \in Nat
          BY TaskIs
    <3>4. saved' <= logins' /\ memory' <= logins'
          BY ONLY <3>1, <3>2, <3>3
    <3>. QED BY ONLY <3>1, <3>2, <3>4
  <2>6. /\ lock' \in 0..(Cardinality(Conns) + 1) /\ removal' \in {"none", "retired", "written"}
        BY <2>3 DEF CredInv, CredTyped
  <2>. QED BY <1>2, <2>1, <2>2, <2>3, <2>4, <2>5, <2>6, StoreMoves
<1>. QED BY <1>1, <1>2 DEF K!Issue

(* A step that drops the credential, or puts the prior one in its place.   *)
LEMMA DropStep ==
  ASSUME CredConstants, CredInv, K!Drop \/ (K!Save(task.prior) /\ UNCHANGED lock),
         UNCHANGED <<conn, logins>>, task' \in TaskStates, task'.prior <= logins,
         removal' \in {"none", "retired", "written"},
         \/ epoch' = epoch + 1 /\ epoch < MaxEpoch /\ generation' = generation
         \/ generation' = 1 /\ generation = 0 /\ epoch' = epoch
  PROVE  CredInv'
<1>1. /\ saved' \in 0..MaxLogins /\ memory' \in 0..MaxLogins /\ revoked' \in BOOLEAN
      /\ saved' <= logins /\ memory' <= logins /\ lock' \in 0..(Cardinality(Conns) + 1)
  <2>1. /\ 0 \in 0..MaxLogins /\ 0 <= logins /\ 0 \in 0..(Cardinality(Conns) + 1)
        /\ lock \in 0..(Cardinality(Conns) + 1)
        BY Bounds, TaskIs DEF CredInv, CredTyped
  <2>2. CASE K!Drop
    <3>1. saved' = 0 /\ memory' = 0 /\ revoked' = TRUE /\ lock' = 0
          BY <2>2 DEF K!Drop
    <3>. QED BY <2>1, <3>1
  <2>3. CASE K!Save(task.prior) /\ UNCHANGED lock
    <3>1. saved' = task.prior /\ memory' = 0 /\ revoked' = FALSE
          BY <2>3 DEF K!Save
    <3>. QED BY <2>1, <2>3, <3>1, TaskIs
  <2>. QED BY <2>2, <2>3
<1>2. \/ epoch' = epoch + 1 /\ epoch' \in 0..MaxEpoch /\ generation' = generation
      \/ generation' = generation + 1 /\ generation' \in 0..1 /\ epoch' = epoch
      BY TaskIs DEF CredConstants
<1>3. logins' \in 1..MaxLogins /\ logins <= logins' /\ logins' = logins
      BY TaskIs
<1>. QED BY <1>1, <1>2, <1>3, StoreMoves

LEMMA LoginCheckedStep == ASSUME CredConstants, CredInv, K!LoginChecked PROVE CredInv'
<1>1. UNCHANGED <<conn, logins, removal>> /\ removal' \in {"none", "retired", "written"}
      BY DEF K!LoginChecked, CredInv, CredTyped
<1>2. task' \in TaskStates /\ task'.prior <= logins
  <2>1. PICK to \in {"connecting", "leaving"} : task' = [task EXCEPT !.at = to]
        BY DEF K!LoginChecked
  <2>. QED BY <2>1, TaskIs DEF TaskStates, TaskPlaces
<1>3. CASE UNCHANGED K!storeVars
      BY <1>1, <1>2, <1>3, TaskMoves
<1>4. CASE epoch < MaxEpoch /\ K!Drop /\ epoch' = epoch + 1 /\ UNCHANGED generation
      BY <1>1, <1>2, <1>4, DropStep
<1>. QED BY <1>3, <1>4 DEF K!LoginChecked

LEMMA LoginLeavesStep == ASSUME CredConstants, CredInv, K!LoginLeaves PROVE CredInv'
<1>1. UNCHANGED <<conn, logins, removal>> /\ removal' \in {"none", "retired", "written"}
      BY DEF K!LoginLeaves, CredInv, CredTyped
<1>2. task' \in TaskStates /\ task'.prior <= logins
      BY NoTaskIs, TaskIs DEF K!LoginLeaves
<1>3. CASE UNCHANGED K!storeVars
      BY <1>1, <1>2, <1>3, TaskMoves
<1>4. CASE /\ epoch < MaxEpoch /\ epoch' = epoch + 1 /\ UNCHANGED generation
           /\ K!Drop \/ (K!Save(task.prior) /\ UNCHANGED lock)
      BY <1>1, <1>2, <1>4, DropStep
<1>. QED BY <1>3, <1>4 DEF K!LoginLeaves

LEMMA SettingsStep == ASSUME CredConstants, CredInv, K!Logout \/ K!Retire PROVE CredInv'
<1>1. /\ K!Drop /\ UNCHANGED <<conn, logins>> /\ removal' \in {"none", "retired", "written"}
      /\ \/ epoch' = epoch + 1 /\ epoch < MaxEpoch /\ generation' = generation
         \/ generation' = 1 /\ generation = 0 /\ epoch' = epoch
      BY DEF K!Logout, K!Retire, CredInv, CredTyped
<1>2. task' \in TaskStates /\ task'.prior <= logins
      BY TaskIs DEF K!Logout, K!Retire, TaskStates
<1>. QED BY <1>1, <1>2, DropStep

-----------------------------------------------------------------------------
LEMMA CredInvStep == ASSUME CredConstants, CredInv, [K!Next]_(K!credVars) PROVE CredInv'
<1>1. CASE UNCHANGED K!credVars
  <2>1. UNCHANGED <<K!storeVars, conn, logins>> /\ task' = task /\ removal' = removal
        BY <1>1 DEF K!credVars, K!storeVars
  <2>. QED BY <2>1, TaskIs, TaskMoves DEF CredInv, CredTyped
<1>2. ASSUME NEW c \in Conns, K!HandlerVersion(c) \/ K!ConnStep(c) \/ K!Disconnect(c)
      PROVE  CredInv'
      BY <1>2, HandlerStep, ExpireStep, LoginLockStep, ReadLatestStep, AnswerStep DEF
         K!ConnStep
<1>3. CASE \/ K!StartLogin \/ K!LoginVersion \/ K!LoginAnswered
           \/ K!LoginConnects \/ K!CancelLogin \/ K!WriteConfig
      BY <1>3, TaskStep
<1>4. CASE K!Issue \/ K!LoginChecked \/ K!LoginLeaves \/ K!Logout \/ K!Retire
      BY <1>4, IssueStep, LoginCheckedStep, LoginLeavesStep, SettingsStep
<1>. QED BY <1>1, <1>2, <1>3, <1>4 DEF K!Next

LEMMA CredInvHolds == ASSUME CredConstants PROVE K!Spec => []CredInv
<1>1. K!Init => CredInv
      BY CredInvInit
<1>2. CredInv /\ [K!Next]_(K!credVars) => CredInv'
      BY CredInvStep
<1>. QED BY <1>1, <1>2, PTL DEF K!Spec

-----------------------------------------------------------------------------
(* The state of the model keeps its types: no credential is of a login     *)
(* that never was (mcp/oauth_store.go).                                    *)
THEOREM CredentialsTypeCorrect == ASSUME CredConstants PROVE K!Spec => []K!TypeOK
<1>1. CredInv => K!TypeOK
  <2> SUFFICES ASSUME CredInv PROVE K!TypeOK
      OBVIOUS
  <2>1. \A c \in Conns : conn[c].record \in 0..MaxLogins
        BY ConnFields DEF CredInv, CredTyped
  <2>. QED BY <2>1, TaskIs, LoginCounts DEF CredInv, CredTyped, K!TypeOK
<1>. QED BY <1>1, CredInvHolds, PTL

(* What a login has issued is replaced by a newer login, taken back when   *)
(* it is cancelled, or removed: no refresh of an older connection puts an  *)
(* older credential over it (mcp/oauth_store.go:160-176).                  *)
THEOREM NewLoginStaysHolds ==
  ASSUME CredConstants
  PROVE  K!Spec => [][K!NewLoginStays]_(K!credVars)
<1>1. CredInv /\ [K!Next]_(K!credVars) => [K!NewLoginStays]_(K!credVars)
  <2> SUFFICES ASSUME CredInv, K!Next PROVE K!NewLoginStays
      OBVIOUS
  <2>1. K!Read \in Nat /\ K!Read <= logins /\ logins \in Nat
        BY ReadIs, TaskIs DEF CredInv
  <2>2. CASE UNCHANGED <<saved, memory, revoked>>
        BY <2>1, <2>2, ReadSame DEF K!NewLoginStays
  <2>3. CASE K!Drop
        BY <2>3 DEF K!Drop, K!Read, K!NewLoginStays
  <2>4. ASSUME NEW c \in Conns, K!Answer(c), ~UNCHANGED <<saved, memory, revoked>>
        PROVE  K!NewLoginStays
    <3>1. Current(c) /\ conn[c].at = "asking"
          BY <2>4 DEF K!Answer, K!MaySave, K!StillIn, Current
    <3>2. K!Read <= conn[c].record /\ conn[c].record \in Nat
          BY <3>1, ConnFields, Bounds DEF CredInv, CredTyped, CurrentOf
    <3>3. CASE K!Save(conn[c].record)
          BY <2>1, <3>2, <3>3 DEF K!Save, K!Read, K!NewLoginStays
    <3>4. CASE memory' = conn[c].record /\ UNCHANGED <<saved, revoked>>
      <4>1. CASE conn[c].record = 0
            BY <2>1, <3>2, <3>4, <4>1 DEF K!Read, K!NewLoginStays, CredInv, CredTyped
      <4>2. CASE conn[c].record # 0
            BY <2>1, <3>2, <3>4, <4>2 DEF K!Read, K!NewLoginStays
      <4>. QED BY <4>1, <4>2
    <3>. QED BY <2>4, <3>3, <3>4 DEF K!Answer
  <2>5. CASE K!Issue /\ K!Save(logins + 1)
        BY <2>1, <2>5 DEF K!Save, K!Read, K!NewLoginStays
  <2>6. CASE K!LoginLeaves
        BY <2>6 DEF K!LoginLeaves, K!NoTask, K!NewLoginStays
  <2>7. \/ UNCHANGED <<saved, memory, revoked>> \/ K!Drop
        \/ \E c \in Conns : K!Answer(c) /\ ~UNCHANGED <<saved, memory, revoked>>
        \/ (K!Issue /\ K!Save(logins + 1)) \/ K!LoginLeaves
        BY DEF K!Next, K!ConnStep, K!HandlerVersion, K!HandlerRecord, K!HandlerEpoch,
           K!Expire, K!Lock, K!ReadLatest, K!Disconnect, K!StartLogin, K!LoginVersion,
           K!LoginAnswered, K!Issue, K!LoginChecked, K!LoginConnects, K!CancelLogin,
           K!Logout, K!Retire, K!WriteConfig, K!storeVars
  <2>. QED BY <2>2, <2>3, <2>4, <2>5, <2>6, <2>7
<1>. QED BY <1>1, CredInvHolds, PTL DEF K!Spec

(* A refresh changes the store only in the generation its connection was   *)
(* opened in: after a logout no connection brings a credential back        *)
(* (mcp/oauth_credential.go:117-139, 191-196).                             *)
THEOREM LoggedOutIsOutHolds ==
  ASSUME CredConstants
  PROVE  K!Spec => [][K!LoggedOutIsOut]_(K!credVars)
<1>1. CredInv /\ [K!Next]_(K!credVars) => [K!LoggedOutIsOut]_(K!credVars)
  <2> SUFFICES ASSUME CredInv, K!Next, NEW c \in Conns, conn[c].at = "asking", conn'[c].at = "ready",
                      K!Read' # K!Read
               PROVE  conn[c].version = generation
      BY DEF K!LoggedOutIsOut
  <2>1. ~UNCHANGED <<saved, memory, revoked>> /\ conn' # conn
        BY ReadSame
  <2>2. PICK d \in Conns : K!Answer(d)
        BY <2>1 DEF K!Next, K!ConnStep, K!HandlerVersion, K!HandlerRecord, K!HandlerEpoch,
           K!Expire, K!Lock, K!ReadLatest, K!Disconnect, K!StartLogin, K!LoginVersion,
           K!LoginAnswered, K!Issue, K!LoginChecked, K!LoginConnects, K!LoginLeaves,
           K!CancelLogin, K!Logout, K!Retire, K!WriteConfig, K!storeVars
  <2>3. d = c
        BY <2>2 DEF K!Answer, K!Set, CredInv, CredTyped
  <2>. QED BY <2>1, <2>2, <2>3 DEF K!Answer, K!StillIn
<1>. QED BY <1>1, CredInvHolds, PTL DEF K!Spec

-----------------------------------------------------------------------------
(* FileChanges                                                              *)

F == INSTANCE FileChanges

(* F!Spec without its fairness, which none of the theorems needs. *)
FileBehaviour == F!Init /\ [][F!Next]_(F!fileVars)

-----------------------------------------------------------------------------
(* The inductive invariant, in named parts.                                *)

Stages == {"idle", "reading", "asking", "locking", "checking", "writing",
           "reporting", "unlocking", "applying"}
Entries == [baseline : F!Contents \cup {F!Unset}, current : F!Contents \cup {F!Unset}]
Trackers == [exact : BOOLEAN, files : [Paths -> Entries]]

FilesTyped ==
  /\ disk \in [Paths -> F!Contents]
  /\ locks \in [Paths -> F!Writers \cup {F!Unset}]
  /\ stage \in [F!Writers -> Stages]
  /\ plan \in [F!Writers -> Seq(Paths \X F!Contents)]
  /\ seen \in [F!Writers -> [Paths -> F!Contents \cup {F!Unset}]]
  /\ wrote \in [F!Writers -> Nat] /\ completed \in [F!Writers -> Nat]
  /\ exact \in [F!Writers -> BOOLEAN]
  /\ diff \in [Agents -> Trackers]
  /\ own \in [Agents -> [Paths -> Entries]]

(* How far a writer is.  What its helper has made and what it has reported *)
(* are the same except between the two, and after a failure or a stop, when *)
(* the result is not called exact.                                         *)
CountOf(w) ==
  /\ completed[w] <= wrote[w] /\ wrote[w] <= Len(plan[w])
  /\ stage[w] \in {"idle", "reading", "asking", "locking"} => wrote[w] = 0
  /\ stage[w] \in {"checking", "writing"} => completed[w] = wrote[w] /\ wrote[w] < Len(plan[w])
  /\ stage[w] = "reporting" => wrote[w] = completed[w] + 1
  /\ stage[w] \in {"unlocking", "applying"} /\ exact[w] => completed[w] = wrote[w]

(* A helper that makes changes holds the locks of all its paths; what it   *)
(* has just checked is still there.                                        *)
HoldOf(w) == stage[w] \in {"checking", "writing", "reporting"} =>
  \A i \in DOMAIN plan[w] : locks[plan[w][i][1]] = w
CheckedOf(w) == stage[w] = "writing" => disk[F!Current(w)[1]] = seen[w][F!Current(w)[1]]

WriterInv(w) == CountOf(w) /\ HoldOf(w) /\ CheckedOf(w)

(* The tracker of a run, taken through the changes its helper has made so  *)
(* far, agrees with what the run has really done, unless it is not exact.  *)
Shown(entry) == IF entry.baseline = entry.current THEN F!NoFile ELSE entry
Follow(f, a, n) == \A i \in 1..n :
  f[i] = F!ApplyChange(f[i - 1], plan[a][i][1], seen[a][plan[a][i][1]], plan[a][i][2])
FileSteps(a, n) == {f \in [0..n -> Trackers] : f[0] = diff[a] /\ Follow(f, a, n)}
Agrees(d, a) == d.exact => \A p \in Paths : d.files[p] = Shown(own[a][p])
TrackInv == \A a \in Agents : \E f \in FileSteps(a, wrote[a]) : Agrees(f[wrote[a]], a)

FilesInv == FilesTyped /\ (\A w \in F!Writers : WriterInv(w)) /\ TrackInv

(* What the constants are: every path has a content, and what a patch      *)
(* writes are contents of paths.                                           *)
FilesConstants ==
  /\ Original \in [Paths -> F!Contents]
  /\ \A w \in F!Writers : Plans[w] \subseteq Seq(Paths \X F!Contents)
  /\ F!Unset \notin F!Writers

-----------------------------------------------------------------------------
(* The next change of a writer that is about to make one.                  *)
LEMMA CurrentIs ==
  ASSUME FilesTyped, NEW w \in F!Writers, wrote[w] < Len(plan[w])
  PROVE  /\ wrote[w] + 1 \in DOMAIN plan[w]
         /\ F!Current(w) \in Paths \X F!Contents
         /\ F!Current(w) = plan[w][wrote[w] + 1]
         /\ F!Current(w)[1] \in Paths /\ F!Current(w)[2] \in F!Contents
<1>1. plan[w] \in Seq(Paths \X F!Contents) /\ wrote[w] \in Nat
      BY DEF FilesTyped
<1>2. wrote[w] + 1 \in 1..Len(plan[w]) /\ DOMAIN plan[w] = 1..Len(plan[w])
      BY <1>1
<1>. QED BY <1>1, <1>2 DEF F!Current

LEMMA EntryOf ==
  /\ F!NoFile \in Entries /\ F!NoFile.baseline = F!NoFile.current
  /\ \A b, c \in F!Contents \cup {F!Unset} : /\ [baseline |-> b, current |-> c] \in Entries
                                        /\ [baseline |-> b, current |-> c].baseline = b
                                        /\ [baseline |-> b, current |-> c].current = c
  /\ \A e \in Entries : /\ e.baseline \in F!Contents \cup {F!Unset}
                        /\ e.current \in F!Contents \cup {F!Unset}
BY DEF F!NoFile, Entries

(* One change of the tracker gives a tracker. *)
LEMMA ApplyType ==
  ASSUME NEW d \in Trackers, NEW p \in Paths, NEW old \in F!Contents \cup {F!Unset},
         NEW new \in F!Contents
  PROVE  F!ApplyChange(d, p, old, new) \in Trackers
<1>1. d.exact \in BOOLEAN /\ d.files \in [Paths -> Entries]
      BY DEF Trackers
<1>2. F!Broken \in Trackers
      BY EntryOf DEF F!Broken, Trackers
<1> DEFINE prior == d.files[p]
           baseline == IF prior = F!NoFile THEN old ELSE prior.baseline
           entry == IF baseline = new THEN F!NoFile ELSE [baseline |-> baseline, current |-> new]
<1>3. prior \in Entries
      BY <1>1
<1>4. baseline \in F!Contents \cup {F!Unset}
      BY <1>3, EntryOf
<1>5. entry \in Entries
      BY <1>4, EntryOf
<1>6. F!ApplyChange(d, p, old, new) = IF ~d.exact \/ ~F!Follows(prior, old) THEN F!Broken
                                    ELSE [d EXCEPT !.files[p] = entry]
      BY DEF F!ApplyChange
<1> HIDE DEF entry, baseline, prior
<1>7. [d EXCEPT !.files[p] = entry] \in Trackers
      BY <1>5 DEF Trackers
<1>. QED BY <1>2, <1>6, <1>7

(* A tracker that agrees with what a run has done goes on to agree when    *)
(* the run changes a path whose content is what it read.                   *)
LEMMA ApplyAgrees ==
  ASSUME FilesTyped, NEW a \in Agents, NEW d \in Trackers, Agrees(d, a),
         NEW p \in Paths, NEW c \in F!Contents,
         own'[a][p] = [baseline |-> F!Found(a, p), current |-> c],
         \A r \in Paths \ {p} : own'[a][r] = own[a][r],
         F!ApplyChange(d, p, disk[p], c).exact,
         NEW q \in Paths
  PROVE  F!ApplyChange(d, p, disk[p], c).files[q] = Shown(own'[a][q])
<1> DEFINE prior == d.files[p]
           old == disk[p]
           baseline == IF prior = F!NoFile THEN old ELSE prior.baseline
           entry == IF baseline = c THEN F!NoFile ELSE [baseline |-> baseline, current |-> c]
           now == [baseline |-> F!Found(a, p), current |-> c]
<1>1. d.exact \in BOOLEAN /\ d.files \in [Paths -> Entries] /\ own[a] \in [Paths -> Entries]
      BY DEF Trackers, FilesTyped
<1>2. F!ApplyChange(d, p, old, c) = IF ~d.exact \/ ~F!Follows(prior, old) THEN F!Broken
                                  ELSE [d EXCEPT !.files[p] = entry]
      BY DEF F!ApplyChange
<1>3. ~F!Broken.exact
      BY DEF F!Broken
<1>4. d.exact /\ F!Follows(prior, old) /\ F!ApplyChange(d, p, old, c) = [d EXCEPT !.files[p] = entry]
      BY <1>2, <1>3
<1>5. /\ [d EXCEPT !.files[p] = entry].files[p] = entry
      /\ \A r \in Paths \ {p} : [d EXCEPT !.files[p] = entry].files[r] = d.files[r]
      BY <1>1 DEF Trackers
<1>6. own'[a][p] = now /\ \A r \in Paths \ {p} : own'[a][r] = own[a][r]
      OBVIOUS
<1>7. prior = Shown(own[a][p])
      BY <1>4 DEF Agrees
<1>8. now.baseline = F!Found(a, p) /\ now.current = c
      OBVIOUS
<1>9. baseline = F!Found(a, p)
  <2>1. own[a][p] \in Entries /\ old \in F!Contents
        BY <1>1 DEF FilesTyped
  <2>2. CASE own[a][p].baseline = own[a][p].current
    <3>1. prior = F!NoFile
          BY <2>2, <1>7 DEF Shown
    <3>. QED BY <3>1, <2>2 DEF F!Found
  <2>3. CASE own[a][p].baseline # own[a][p].current
    <3>1. prior = own[a][p] /\ prior # F!NoFile
          BY <2>3, <1>7, EntryOf DEF Shown
    <3>2. prior.current = old
          BY <3>1, <1>4 DEF F!Follows
    <3>. QED BY <3>1, <3>2 DEF F!Found
  <2>. QED BY <2>2, <2>3
<1>10. Shown(now) = entry
       BY <1>8, <1>9 DEF Shown
<1>11. CASE q = p
       BY <1>11, <1>4, <1>5, <1>6, <1>10
<1>12. CASE q # p
       BY <1>12, <1>4, <1>5, <1>6 DEF Agrees
<1>. QED BY <1>11, <1>12

(* What the tracker becomes is decided by what it was and by the changes.  *)
LEMMA StepsUnique ==
  ASSUME NEW a, NEW n \in Nat, NEW f, NEW g,
         f[0] = g[0], Follow(f, a, n), Follow(g, a, n)
  PROVE  f[n] = g[n]
<1> SUFFICES ASSUME f[n] # g[n] PROVE FALSE
    OBVIOUS
<1> DEFINE T == {i \in Nat : i <= n /\ f[i] # g[i]}
           R == OpToRel(<, Nat)
<1>1. IsWellFoundedOn(R, Nat)
      BY NatLessThanWellFounded
<1>2. T \subseteq Nat /\ T # {}
      OBVIOUS
<1>3. \E x \in T : \A y \in T : <<y, x>> \notin R
      BY ONLY <1>1, <1>2, WFMin
<1>4. PICK j \in T : \A y \in T : <<y, j>> \notin R
      BY <1>3
<1>5. \A x, y \in Nat : <<y, x>> \in R <=> y < x
      BY DEF OpToRel
<1>6. j \in Nat /\ j <= n /\ f[j] # g[j]
      OBVIOUS
<1>7. j # 0
      BY <1>6
<1>8. j - 1 \in Nat /\ j - 1 < j /\ j \in 1..n
      BY <1>6, <1>7
<1>9. j - 1 \notin T
      BY <1>4, <1>5, <1>8, <1>6
<1>10. f[j - 1] = g[j - 1]
       BY <1>9, <1>8, <1>6
<1>11. /\ f[j] = F!ApplyChange(f[j - 1], plan[a][j][1], seen[a][plan[a][j][1]], plan[a][j][2])
       /\ g[j] = F!ApplyChange(g[j - 1], plan[a][j][1], seen[a][plan[a][j][1]], plan[a][j][2])
       BY <1>8 DEF Follow
<1>. QED BY <1>6, <1>10, <1>11

(* The tracker after the reported changes, where all that was made was     *)
(* reported, is the one the invariant speaks of.                           *)
LEMMA NetIs ==
  ASSUME NEW a \in Agents, FilesTyped, completed[a] = wrote[a],
         NEW f \in FileSteps(a, wrote[a])
  PROVE  F!After(a)[completed[a]] = f[wrote[a]]
<1> DEFINE n == completed[a]
           Rec(g) == [i \in 0..n |-> IF i = 0 THEN diff[a]
                        ELSE F!ApplyChange(g[i - 1], plan[a][i][1],
                                         seen[a][plan[a][i][1]], plan[a][i][2])]
<1>1. n \in Nat /\ wrote[a] = n
      BY DEF FilesTyped, F!Writers
<1>2. f \in [0..n -> Trackers] /\ f[0] = diff[a] /\ Follow(f, a, n)
      BY <1>1 DEF FileSteps
<1>3. f = Rec(f)
  <2>1. \A i \in 0..n : i = 0 \/ i \in 1..n
        BY <1>1
  <2>2. \A i \in 0..n : f[i] = IF i = 0 THEN diff[a]
                        ELSE F!ApplyChange(f[i - 1], plan[a][i][1],
                                         seen[a][plan[a][i][1]], plan[a][i][2])
        BY <1>2, <2>1 DEF Follow
  <2>3. f = [i \in 0..n |-> f[i]]
        BY <1>2
  <2>. QED BY <2>2, <2>3
<1>4. F!After(a) = CHOOSE g : g = Rec(g)
      BY DEF F!After
<1> DEFINE g == F!After(a)
<1>5. g = Rec(g)
      BY <1>3, <1>4
<1>a. F!After(a)[completed[a]] = g[n]
      OBVIOUS
<1> HIDE DEF g, n
<1>6. g[0] = diff[a] /\ Follow(g, a, n)
  <2>1. \A i \in 0..n : g[i] = IF i = 0 THEN diff[a]
                        ELSE F!ApplyChange(g[i - 1], plan[a][i][1],
                                         seen[a][plan[a][i][1]], plan[a][i][2])
        BY <1>5
  <2>2. 0 \in 0..n /\ \A i \in 1..n : i \in 0..n /\ i # 0
        BY <1>1
  <2>. QED BY <2>1, <2>2 DEF Follow
<1>7. f[n] = g[n]
      BY ONLY <1>1, <1>2, <1>6, StepsUnique
<1>. QED BY <1>1, <1>7, <1>a

(* A run about which nothing changes that the tracker depends on.          *)
LEMMA TrackSame ==
  ASSUME TrackInv, NEW a \in Agents,
         diff'[a] = diff[a], plan'[a] = plan[a], seen'[a] = seen[a],
         wrote'[a] = wrote[a], own'[a] = own[a]
  PROVE  \E f \in FileSteps(a, wrote[a])' : Agrees(f[wrote[a]], a)'
<1>1. PICK f \in FileSteps(a, wrote[a]) : Agrees(f[wrote[a]], a)
      BY DEF TrackInv
<1>2. f \in FileSteps(a, wrote[a])'
      BY DEF FileSteps, Follow
<1>3. Agrees(f[wrote[a]], a)'
      BY <1>1 DEF Agrees
<1>. QED BY <1>2, <1>3

(* A run that has changed nothing yet. *)
LEMMA TrackStart ==
  ASSUME NEW a \in Agents, wrote'[a] = 0, diff'[a] \in Trackers,
         diff'[a].exact => \A p \in Paths : diff'[a].files[p] = Shown(own'[a][p])
  PROVE  \E f \in FileSteps(a, wrote[a])' : Agrees(f[wrote[a]], a)'
<1>0. PICK f : f = [i \in 0..0 |-> diff'[a]]
      OBVIOUS
<1>1. f \in [0..0 -> Trackers] /\ f[0] = diff'[a]
      BY <1>0
<1>2. 1..0 = {}
      OBVIOUS
<1>3. f \in FileSteps(a, wrote[a])'
      BY <1>1, <1>2 DEF FileSteps, Follow
<1>4. Agrees(f[wrote[a]], a)'
      BY <1>1 DEF Agrees
<1>. QED BY <1>3, <1>4

LEMMA TrackBegins ==
  ASSUME TrackInv, NEW a \in Agents, wrote[a] = 0
  PROVE  diff[a].exact => \A p \in Paths : diff[a].files[p] = Shown(own[a][p])
BY DEF TrackInv, Agrees, FileSteps

-----------------------------------------------------------------------------
(* A step of one writer, as the others see it.                             *)
LEMMA OthersKept ==
  ASSUME FilesInv, NEW v \in F!Writers,
         stage'[v] = stage[v], plan'[v] = plan[v], seen'[v] = seen[v],
         wrote'[v] = wrote[v], completed'[v] = completed[v], exact'[v] = exact[v],
         \A p \in Paths : locks[p] = v => locks'[p] = v /\ disk'[p] = disk[p]
  PROVE  WriterInv(v)'
<1>1. WriterInv(v)
      BY DEF FilesInv
<1>2. CountOf(v)'
      BY <1>1 DEF WriterInv, CountOf
<1>3. \A i \in DOMAIN plan[v] : plan[v][i] \in Paths \X F!Contents
      BY DEF FilesInv, FilesTyped
<1>4. HoldOf(v)'
      BY <1>1, <1>3 DEF WriterInv, HoldOf
<1>5. CheckedOf(v)'
  <2> SUFFICES ASSUME stage[v] = "writing"
               PROVE  disk'[F!Current(v)'[1]] = seen'[v][F!Current(v)'[1]]
      BY DEF CheckedOf
  <2>1. wrote[v] < Len(plan[v]) /\ disk[F!Current(v)[1]] = seen[v][F!Current(v)[1]]
        BY <1>1 DEF WriterInv, CountOf, CheckedOf
  <2>2. F!Current(v)' = F!Current(v)
        BY DEF F!Current
  <2>3. locks[F!Current(v)[1]] = v /\ F!Current(v)[1] \in Paths
        BY <1>1, <2>1, CurrentIs DEF WriterInv, HoldOf, FilesInv
  <2>. QED BY <2>1, <2>2, <2>3
<1>. QED BY <1>2, <1>4, <1>5 DEF WriterInv

(* What a step of a writer has to be shown to do, when it changes no file. *)
LEMMA WriterStep ==
  ASSUME FilesInv, FilesTyped', NEW w \in F!Writers, WriterInv(w)',
         \A v \in F!Writers \ {w} :
           /\ stage'[v] = stage[v] /\ plan'[v] = plan[v] /\ seen'[v] = seen[v]
           /\ wrote'[v] = wrote[v] /\ completed'[v] = completed[v] /\ exact'[v] = exact[v],
         \A v \in F!Writers \ {w}, p \in Paths : locks[p] = v => locks'[p] = v,
         UNCHANGED <<disk, diff, own>>,
         \/ wrote[w] = 0 /\ wrote'[w] = 0
         \/ plan'[w] = plan[w] /\ seen'[w] = seen[w] /\ wrote'[w] = wrote[w]
  PROVE  FilesInv'
<1>1. ASSUME NEW v \in F!Writers PROVE WriterInv(v)'
      BY OthersKept
<1>2. TrackInv'
  <2> SUFFICES ASSUME NEW a \in Agents
               PROVE  \E f \in FileSteps(a, wrote[a])' : Agrees(f[wrote[a]], a)'
      BY DEF TrackInv
  <2>1. CASE plan'[a] = plan[a] /\ seen'[a] = seen[a] /\ wrote'[a] = wrote[a]
        BY <2>1, TrackSame DEF FilesInv
  <2>2. CASE ~(plan'[a] = plan[a] /\ seen'[a] = seen[a] /\ wrote'[a] = wrote[a])
    <3>1. a = w /\ wrote[w] = 0 /\ wrote'[w] = 0
          BY <2>2 DEF F!Writers
    <3>2. diff'[a] \in Trackers
          BY DEF FilesTyped
    <3>. QED BY <3>1, <3>2, TrackStart, TrackBegins DEF FilesInv
  <2>. QED BY <2>1, <2>2
<1>. QED BY <1>1, <1>2 DEF FilesInv

LEMMA BeginStep ==
  ASSUME FilesConstants, FilesInv, NEW w \in F!Writers, F!Begin(w) PROVE FilesInv'
<1>1. PICK q \in Plans[w] : plan' = [plan EXCEPT ![w] = q]
      BY DEF F!Begin
<1>2. q \in Seq(Paths \X F!Contents)
      BY <1>1 DEF FilesConstants
<1>3. /\ stage[w] = "idle" /\ stage' = [stage EXCEPT ![w] = "reading"]
      /\ UNCHANGED <<disk, locks, seen, wrote, completed, exact, diff, own>>
      BY DEF F!Begin, F!Goes
<1>4. FilesTyped'
      BY <1>1, <1>2, <1>3 DEF FilesInv, FilesTyped, Stages
<1>5. wrote[w] = 0 /\ completed[w] = 0
  <2>1. CountOf(w)
        BY DEF FilesInv, WriterInv
  <2>. QED BY <2>1, <1>3 DEF CountOf, FilesInv, FilesTyped
<1>6. WriterInv(w)'
  <2>1. plan'[w] = q /\ stage'[w] = "reading" /\ Len(q) \in Nat
        BY <1>1, <1>2, <1>3 DEF FilesInv, FilesTyped
  <2>2. CountOf(w)'
        BY <2>1, <1>3, <1>5 DEF CountOf
  <2>. QED BY <2>1, <2>2 DEF WriterInv, HoldOf, CheckedOf
<1>. QED BY <1>1, <1>3, <1>4, <1>5, <1>6, WriterStep DEF FilesInv, FilesTyped

LEMMA ReadStep ==
  ASSUME FilesInv, NEW w \in F!Writers, F!Read(w) PROVE FilesInv'
<1>1. PICK p \in F!Unread(w), to \in {"unlocking", "reading", "asking"} :
        /\ seen' = [seen EXCEPT ![w][p] = disk[p]]
        /\ stage' = [stage EXCEPT ![w] = to]
      BY DEF F!Read, F!Goes
<1>2. p \in Paths
      BY DEF F!Unread, F!PathsOf, FilesInv, FilesTyped
<1>3. /\ stage[w] = "reading"
      /\ UNCHANGED <<disk, locks, plan, wrote, completed, exact, diff, own>>
      BY DEF F!Read
<1>4. FilesTyped'
      BY <1>1, <1>2, <1>3 DEF FilesInv, FilesTyped, Stages
<1>5. wrote[w] = 0 /\ completed[w] = 0
  <2>1. CountOf(w)
        BY DEF FilesInv, WriterInv
  <2>. QED BY <2>1, <1>3 DEF CountOf, FilesInv, FilesTyped
<1>6. WriterInv(w)'
  <2>1. stage'[w] = to /\ Len(plan[w]) \in Nat
        BY <1>1 DEF FilesInv, FilesTyped
  <2>2. CountOf(w)'
        BY <2>1, <1>1, <1>3, <1>5 DEF CountOf
  <2>. QED BY <2>1, <2>2 DEF WriterInv, HoldOf, CheckedOf
<1>. QED BY <1>1, <1>3, <1>4, <1>5, <1>6, WriterStep DEF FilesInv, FilesTyped

(* The steps before the locks. *)
LEMMA AskStep ==
  ASSUME FilesInv, NEW w \in F!Writers, F!Allow(w) \/ F!Deny(w) PROVE FilesInv'
<1>1. PICK to \in {"unlocking", "locking"} : stage' = [stage EXCEPT ![w] = to]
      BY DEF F!Allow, F!Deny, F!Goes
<1>2. /\ stage[w] = "asking"
      /\ UNCHANGED <<disk, locks, plan, seen, wrote, completed, exact, diff, own>>
      BY DEF F!Allow, F!Deny
<1>3. FilesTyped'
      BY <1>1, <1>2 DEF FilesInv, FilesTyped, Stages
<1>4. wrote[w] = 0 /\ completed[w] = 0
  <2>1. CountOf(w)
        BY DEF FilesInv, WriterInv
  <2>. QED BY <2>1, <1>2 DEF CountOf, FilesInv, FilesTyped
<1>5. WriterInv(w)'
  <2>1. stage'[w] = to /\ Len(plan[w]) \in Nat
        BY <1>1 DEF FilesInv, FilesTyped
  <2>2. CountOf(w)'
        BY <2>1, <1>2, <1>4 DEF CountOf
  <2>. QED BY <2>1, <2>2 DEF WriterInv, HoldOf, CheckedOf
<1>. QED BY <1>1, <1>2, <1>3, <1>4, <1>5, WriterStep DEF FilesInv, FilesTyped

(* A writer goes on to make changes only with the last of its locks. *)
LEMMA FileLockStep ==
  ASSUME FilesConstants, FilesInv, NEW w \in F!Writers, F!Lock(w) PROVE FilesInv'
<1> DEFINE q == F!LockOrder(w)
           to == IF F!PathsOf(w) \ F!Held(w) = {q} THEN "checking" ELSE "locking"
<1>1. /\ stage[w] = "locking" /\ locks[q] = F!Unset
      /\ locks' = [locks EXCEPT ![q] = w]
      /\ stage' = [stage EXCEPT ![w] = to]
      /\ UNCHANGED <<disk, plan, seen, wrote, completed, exact, diff, own>>
      BY DEF F!Lock, F!MayLock, F!Goes
<1> HIDE DEF q
<1>2. to \in {"checking", "locking"}
      OBVIOUS
<1>3. FilesTyped'
      BY <1>1, <1>2 DEF FilesInv, FilesTyped, Stages
<1>4. wrote[w] = 0 /\ completed[w] = 0
  <2>1. CountOf(w)
        BY DEF FilesInv, WriterInv
  <2>. QED BY <2>1, <1>1 DEF CountOf, FilesInv, FilesTyped
<1>5. stage'[w] = to /\ plan'[w] = plan[w] /\ plan[w] \in Seq(Paths \X F!Contents)
      BY <1>1 DEF FilesInv, FilesTyped
<1>6. ASSUME to = "checking" PROVE \A i \in DOMAIN plan[w] : locks'[plan[w][i][1]] = w
  <2>1. F!PathsOf(w) \ F!Held(w) = {q}
        BY <1>6
  <2> TAKE i \in DOMAIN plan[w]
  <2>2. plan[w][i][1] \in F!PathsOf(w) /\ plan[w][i][1] \in Paths
        BY <1>5 DEF F!PathsOf
  <2>3. plan[w][i][1] \in F!Held(w) \/ plan[w][i][1] = q
        BY <2>1, <2>2
  <2>. QED BY <2>2, <2>3, <1>1 DEF F!Held, FilesInv, FilesTyped
<1>7. ASSUME to = "checking" PROVE 0 < Len(plan[w])
  <2>1. q \in F!PathsOf(w)
        BY <1>7
  <2>2. PICK i \in DOMAIN plan[w] : q = plan[w][i][1]
        BY <2>1 DEF F!PathsOf
  <2>. QED BY <2>2, <1>5
<1>8. Len(plan[w]) \in Nat
      BY <1>5
<1>9. WriterInv(w)'
  <2>1. CountOf(w)'
        BY <1>1, <1>2, <1>4, <1>5, <1>7, <1>8 DEF CountOf
  <2>2. HoldOf(w)'
        BY <1>1, <1>2, <1>5, <1>6 DEF HoldOf
  <2>. QED BY <2>1, <2>2, <1>5, <1>2 DEF WriterInv, CheckedOf
<1>10. \A v \in F!Writers \ {w}, p \in Paths : locks[p] = v => locks'[p] = v
       BY <1>1 DEF FilesConstants, FilesInv, FilesTyped
<1>11. \A v \in F!Writers \ {w} : stage'[v] = stage[v]
       BY <1>1 DEF FilesInv, FilesTyped
<1>. QED BY <1>1, <1>3, <1>4, <1>9, <1>10, <1>11, WriterStep

LEMMA CheckStep ==
  ASSUME FilesInv, NEW w \in F!Writers, F!Check(w) PROVE FilesInv'
<1> DEFINE p == F!Current(w)[1]
           same == disk[p] = seen[w][p]
           to == IF same THEN "writing" ELSE "unlocking"
<1>1. /\ stage[w] = "checking" /\ stage' = [stage EXCEPT ![w] = to]
      /\ UNCHANGED <<disk, locks, plan, seen, wrote, completed, diff, own>>
      /\ exact' = exact \/ \E b \in BOOLEAN : exact' = [exact EXCEPT ![w] = b]
      BY DEF F!Check, F!Goes
<1>2. CountOf(w) /\ HoldOf(w)
      BY DEF FilesInv, WriterInv
<1>3. to \in {"writing", "unlocking"}
      OBVIOUS
<1>4. FilesTyped'
      BY <1>1, <1>3 DEF FilesInv, FilesTyped, Stages
<1>5. stage'[w] = to /\ \A v \in F!Writers \ {w} : stage'[v] = stage[v] /\ exact'[v] = exact[v]
      BY <1>1 DEF FilesInv, FilesTyped
<1>6. WriterInv(w)'
  <2>1. CountOf(w)'
        BY <1>1, <1>2, <1>3, <1>5 DEF CountOf
  <2>2. HoldOf(w)'
        BY <1>1, <1>2, <1>3, <1>5 DEF HoldOf
  <2>3. F!Current(w)' = F!Current(w)
        BY <1>1 DEF F!Current
  <2>4. CheckedOf(w)'
        BY <1>1, <1>5, <2>3 DEF CheckedOf
  <2>. QED BY <2>1, <2>2, <2>4 DEF WriterInv
<1>. QED BY <1>1, <1>4, <1>5, <1>6, WriterStep

LEMMA ReportStep ==
  ASSUME FilesInv, NEW w \in F!Writers, F!Report(w) PROVE FilesInv'
<1> DEFINE to == IF wrote[w] = Len(plan[w]) THEN "unlocking" ELSE "checking"
<1>1. /\ stage[w] = "reporting" /\ stage' = [stage EXCEPT ![w] = to]
      /\ completed' = [completed EXCEPT ![w] = @ + 1]
      /\ UNCHANGED <<disk, locks, plan, seen, wrote, exact, diff, own>>
      BY DEF F!Report, F!Goes
<1>2. CountOf(w) /\ HoldOf(w)
      BY DEF FilesInv, WriterInv
<1>3. to \in {"checking", "unlocking"}
      OBVIOUS
<1>4. FilesTyped'
      BY <1>1, <1>3 DEF FilesInv, FilesTyped, Stages
<1>5. /\ stage'[w] = to /\ completed'[w] = completed[w] + 1
      /\ \A v \in F!Writers \ {w} : stage'[v] = stage[v] /\ completed'[v] = completed[v]
      BY <1>1 DEF FilesInv, FilesTyped
<1>6. completed[w] \in Nat /\ wrote[w] \in Nat /\ Len(plan[w]) \in Nat
      BY DEF FilesInv, FilesTyped
<1>7. WriterInv(w)'
  <2>1. CountOf(w)'
        BY <1>1, <1>2, <1>5, <1>6 DEF CountOf
  <2>2. HoldOf(w)'
        BY <1>1, <1>2, <1>3, <1>5 DEF HoldOf
  <2>. QED BY <2>1, <2>2, <1>3, <1>5 DEF WriterInv, CheckedOf
<1>. QED BY <1>1, <1>4, <1>5, <1>7, WriterStep

LEMMA StopStep ==
  ASSUME FilesInv, NEW w \in F!Writers, F!Stop(w) PROVE FilesInv'
<1> DEFINE early == IF stage[w] \in {"asking", "locking"} THEN TRUE ELSE FALSE
<1>1. /\ stage[w] \in {"asking", "locking", "checking", "writing", "reporting"}
      /\ stage' = [stage EXCEPT ![w] = "unlocking"]
      /\ exact' = [exact EXCEPT ![w] = early]
      /\ UNCHANGED <<disk, locks, plan, seen, wrote, completed, diff, own>>
      BY DEF F!Stop, F!Goes, F!KilledExact
<1>2. CountOf(w)
      BY DEF FilesInv, WriterInv
<1>3. FilesTyped'
      BY <1>1 DEF FilesInv, FilesTyped, Stages
<1>4. /\ stage'[w] = "unlocking" /\ exact'[w] = early
      /\ \A v \in F!Writers \ {w} : stage'[v] = stage[v] /\ exact'[v] = exact[v]
      BY <1>1 DEF FilesInv, FilesTyped
<1>5. completed[w] \in Nat /\ wrote[w] \in Nat /\ Len(plan[w]) \in Nat
      BY DEF FilesInv, FilesTyped
<1>6. WriterInv(w)'
  <2>1. exact'[w] => completed[w] = 0 /\ wrote[w] = 0
    <3>1. exact'[w] => early
          BY <1>4
    <3>2. early => wrote[w] = 0
          BY <1>2 DEF CountOf
    <3>3. wrote[w] = 0 => completed[w] = 0
          BY <1>2, <1>5 DEF CountOf
    <3>. QED BY <3>1, <3>2, <3>3
  <2>2. completed[w] <= wrote[w] /\ wrote[w] <= Len(plan[w])
        BY <1>2 DEF CountOf
  <2>3. CountOf(w)'
        BY <1>1, <1>4, <2>1, <2>2 DEF CountOf
  <2>. QED BY <2>3, <1>4 DEF WriterInv, HoldOf, CheckedOf
<1>. QED BY <1>1, <1>3, <1>4, <1>6, WriterStep

LEMMA UnlockStep ==
  ASSUME FilesConstants, FilesInv, NEW w \in F!Writers, F!Unlock(w) PROVE FilesInv'
<1>1. /\ stage[w] = "unlocking" /\ stage' = [stage EXCEPT ![w] = "applying"]
      /\ locks' = [p \in Paths |-> IF locks[p] = w THEN F!Unset ELSE locks[p]]
      /\ UNCHANGED <<disk, plan, seen, wrote, completed, exact, diff, own>>
      BY DEF F!Unlock, F!Goes
<1>2. CountOf(w)
      BY DEF FilesInv, WriterInv
<1>3. FilesTyped'
  <2>1. locks' \in [Paths -> F!Writers \cup {F!Unset}]
        BY <1>1 DEF FilesInv, FilesTyped
  <2>. QED BY <1>1, <2>1 DEF FilesInv, FilesTyped, Stages
<1>4. stage'[w] = "applying" /\ \A v \in F!Writers \ {w} : stage'[v] = stage[v]
      BY <1>1 DEF FilesInv, FilesTyped
<1>5. WriterInv(w)'
  <2>1. CountOf(w)'
        BY <1>1, <1>2, <1>4 DEF CountOf
  <2>. QED BY <2>1, <1>4 DEF WriterInv, HoldOf, CheckedOf
<1>6. \A v \in F!Writers \ {w}, p \in Paths : locks[p] = v => locks'[p] = v
      BY <1>1
<1>. QED BY <1>1, <1>3, <1>4, <1>5, <1>6, WriterStep

-----------------------------------------------------------------------------
(* A step that changes the next file of a writer.                          *)
LEMMA PutStep ==
  ASSUME FilesConstants, FilesInv, NEW w \in F!Writers, stage[w] = "writing",
         F!Put(w, F!Current(w)[1], F!Current(w)[2]),
         NEW to \in {"reporting", "unlocking"}, stage' = [stage EXCEPT ![w] = to],
         UNCHANGED <<locks, plan, seen, completed, diff>>,
         \/ to = "reporting" /\ exact' = exact
         \/ to = "unlocking" /\ exact' = [exact EXCEPT ![w] = FALSE]
  PROVE  FilesInv'
<1> DEFINE p == F!Current(w)[1]
           c == F!Current(w)[2]
<1>1. CountOf(w) /\ HoldOf(w) /\ CheckedOf(w)
      BY DEF FilesInv, WriterInv
<1>2. /\ completed[w] = wrote[w] /\ wrote[w] < Len(plan[w]) /\ disk[p] = seen[w][p]
      /\ \A i \in DOMAIN plan[w] : locks[plan[w][i][1]] = w
      BY <1>1 DEF CountOf, HoldOf, CheckedOf
<1>3. /\ wrote[w] + 1 \in DOMAIN plan[w] /\ p = plan[w][wrote[w] + 1][1]
      /\ c = plan[w][wrote[w] + 1][2] /\ p \in Paths /\ c \in F!Contents
      BY <1>2, CurrentIs DEF FilesInv
<1>4. locks[p] = w
      BY <1>2, <1>3
<1>5. /\ disk' = [disk EXCEPT ![p] = c]
      /\ wrote' = [wrote EXCEPT ![w] = @ + 1]
      /\ own' = [a \in Agents |-> IF a /= w THEN own[a]
                   ELSE [own[a] EXCEPT ![p] = [baseline |-> F!Found(a, p), current |-> c]]]
      BY DEF F!Put
<1> HIDE DEF p, c
<1>6. \A a \in Agents : own'[a] = IF a /= w THEN own[a]
                   ELSE [own[a] EXCEPT ![p] = [baseline |-> F!Found(a, p), current |-> c]]
      BY <1>5
<1>7. FilesTyped'
  <2>1. own' \in [Agents -> [Paths -> Entries]]
    <3>1. ASSUME NEW a \in Agents PROVE own'[a] \in [Paths -> Entries]
      <4>1. own[a] \in [Paths -> Entries] /\ disk[p] \in F!Contents
            BY <1>3 DEF FilesInv, FilesTyped
      <4>2. F!Found(a, p) \in F!Contents \cup {F!Unset}
            BY <4>1, <1>3, EntryOf DEF F!Found
      <4>3. [baseline |-> F!Found(a, p), current |-> c] \in Entries
            BY <4>2, <1>3, EntryOf
      <4>4. [own[a] EXCEPT ![p] = [baseline |-> F!Found(a, p), current |-> c]]
              \in [Paths -> Entries]
            BY <4>1, <4>3, <1>3
      <4>. QED BY <4>1, <4>4, <1>6
    <3>. QED BY <3>1, <1>5
  <2>2. exact' \in [F!Writers -> BOOLEAN]
        BY DEF FilesInv, FilesTyped
  <2>. QED BY <2>1, <2>2, <1>3, <1>5 DEF FilesInv, FilesTyped, Stages
<1>8. /\ stage'[w] = to /\ wrote'[w] = wrote[w] + 1
      /\ completed[w] \in Nat /\ wrote[w] \in Nat /\ Len(plan[w]) \in Nat
      /\ exact'[w] \in BOOLEAN /\ (to = "unlocking" => ~exact'[w])
      BY <1>5, <1>7 DEF FilesInv, FilesTyped
<1>9. \A v \in F!Writers \ {w} : stage'[v] = stage[v] /\ wrote'[v] = wrote[v] /\ exact'[v] = exact[v]
      BY <1>5 DEF FilesInv, FilesTyped
<1>10. WriterInv(w)'
  <2>1. CountOf(w)'
        BY <1>2, <1>8 DEF CountOf
  <2>2. HoldOf(w)'
        BY <1>2 DEF HoldOf
  <2>. QED BY <2>1, <2>2, <1>8 DEF WriterInv, CheckedOf
<1>11. ASSUME NEW v \in F!Writers \ {w} PROVE WriterInv(v)'
  <2>1. \A q \in Paths : locks[q] = v => disk'[q] = disk[q]
        BY <1>4, <1>5 DEF FilesInv, FilesTyped
  <2>. QED BY <2>1, <1>9, OthersKept
<1>12. ASSUME NEW a \in Agents, a # w
       PROVE  \E f \in FileSteps(a, wrote[a])' : Agrees(f[wrote[a]], a)'
  <2>1. a \in F!Writers
        BY DEF F!Writers
  <2>. QED BY <2>1, <1>6, <1>9, <1>12, TrackSame DEF FilesInv
<1>13. ASSUME w \in Agents
       PROVE  \E f \in FileSteps(w, wrote[w])' : Agrees(f[wrote[w]], w)'
  <2>1. PICK f \in FileSteps(w, wrote[w]) : Agrees(f[wrote[w]], w)
        BY <1>13 DEF FilesInv, TrackInv
  <2>2. PICK n \in Nat : n = wrote[w]
        BY <1>8
  <2> DEFINE d == F!ApplyChange(f[n], p, disk[p], c)
  <2>3. /\ f \in [0..n -> Trackers] /\ f[0] = diff[w] /\ Follow(f, w, n)
        BY <2>1, <2>2 DEF FileSteps
  <2>4. f[n] \in Trackers
        BY <2>2, <2>3
  <2>5. d \in Trackers
        BY <2>4, <1>3, ApplyType DEF FilesInv, FilesTyped
  <2> HIDE DEF d
  <2>6. PICK g : g = [i \in 0..n + 1 |-> IF i = n + 1 THEN d ELSE f[i]]
        OBVIOUS
  <2>7. /\ g[n + 1] = d /\ \A i \in 0..n : g[i] = f[i]
        /\ g \in [0..n + 1 -> Trackers] /\ g[0] = diff[w]
    <3>1. \A i \in 0..n + 1 : i = n + 1 \/ i \in 0..n
          BY <2>2
    <3>2. n + 1 \in 0..n + 1 /\ \A i \in 0..n : i \in 0..n + 1 /\ i # n + 1
          BY <2>2
    <3>3. 0 \in 0..n
          BY <2>2
    <3>. QED BY <2>3, <2>5, <2>6, <3>1, <3>2, <3>3
  <2>8. Follow(g, w, n + 1)
    <3> SUFFICES ASSUME NEW i \in 1..n + 1
                 PROVE  g[i] = F!ApplyChange(g[i - 1], plan[w][i][1],
                                           seen[w][plan[w][i][1]], plan[w][i][2])
        BY DEF Follow
    <3>1. CASE i = n + 1
      <4>1. i - 1 = n /\ n \in 0..n
            BY <3>1, <2>2
      <4>2. g[i - 1] = f[n] /\ g[i] = d
            BY <4>1, <3>1, <2>7
      <4>. QED BY <4>2, <3>1, <2>2, <1>2, <1>3 DEF d
    <3>2. CASE i # n + 1
      <4>1. i \in 1..n /\ i \in 0..n /\ i - 1 \in 0..n
            BY <3>2, <2>2
      <4>2. g[i - 1] = f[i - 1] /\ g[i] = f[i]
            BY <4>1, <2>7
      <4>. QED BY <4>1, <4>2, <2>3 DEF Follow
    <3>. QED BY <3>1, <3>2
  <2>9. wrote'[w] = n + 1
        BY <1>8, <2>2
  <2>10. g \in FileSteps(w, wrote[w])'
         BY <2>7, <2>8, <2>9 DEF FileSteps, Follow
  <2>11. Agrees(g[n + 1], w)'
    <3>1. /\ own'[w][p] = [baseline |-> F!Found(w, p), current |-> c]
          /\ \A r \in Paths \ {p} : own'[w][r] = own[w][r]
      <4>1. own[w] \in [Paths -> Entries]
            BY <1>13 DEF FilesInv, FilesTyped
      <4>2. own'[w] = [own[w] EXCEPT ![p] = [baseline |-> F!Found(w, p), current |-> c]]
            BY <1>6, <1>13
      <4>. QED BY <4>1, <4>2, <1>3
    <3>2. Agrees(f[n], w)
          BY <2>1, <2>2
    <3>3. ASSUME F!ApplyChange(f[n], p, disk[p], c).exact, NEW q \in Paths
          PROVE  F!ApplyChange(f[n], p, disk[p], c).files[q] = Shown(own'[w][q])
      <4>1. FilesTyped
            BY DEF FilesInv
      <4>. QED BY ONLY <3>1, <3>2, <3>3, <4>1, <2>4, <1>3, <1>13, ApplyAgrees, q \in Paths
    <3>4. g[n + 1] = d
          BY <2>7
    <3>. QED BY <3>3, <3>4 DEF Agrees, Shown, d
  <2>. QED BY <2>9, <2>10, <2>11
<1>14. TrackInv'
       BY <1>12, <1>13 DEF TrackInv
<1>. QED BY <1>7, <1>10, <1>11, <1>14 DEF FilesInv

LEMMA WriteStep ==
  ASSUME FilesConstants, FilesInv, NEW w \in F!Writers, F!Write(w) PROVE FilesInv'
BY PutStep DEF F!Write, F!Goes

LEMMA WriteFailsStep ==
  ASSUME FilesConstants, FilesInv, NEW w \in F!Writers, F!WriteFails(w) PROVE FilesInv'
<1>1. PICK touched \in BOOLEAN :
        /\ IF touched THEN F!Put(w, F!Current(w)[1], F!Current(w)[2])
           ELSE UNCHANGED <<disk, wrote, own>>
        /\ exact' = [exact EXCEPT ![w] = F!FailedExact(w, touched)]
      BY DEF F!WriteFails
<1>2. /\ stage[w] = "writing" /\ stage' = [stage EXCEPT ![w] = "unlocking"]
      /\ UNCHANGED <<locks, plan, seen, completed, diff>>
      BY DEF F!WriteFails, F!Goes
<1>3. CASE touched
  <2>1. exact' = [exact EXCEPT ![w] = FALSE]
        BY <1>1, <1>3 DEF F!FailedExact
  <2>. QED BY <2>1, <1>1, <1>2, <1>3, PutStep
<1>4. CASE ~touched
  <2>1. PICK b \in BOOLEAN : exact' = [exact EXCEPT ![w] = b]
        BY <1>1 DEF F!FailedExact
  <2>2. UNCHANGED <<disk, wrote, own>>
        BY <1>1, <1>4
  <2>3. CountOf(w)
        BY DEF FilesInv, WriterInv
  <2>4. FilesTyped'
        BY <2>1, <2>2, <1>2 DEF FilesInv, FilesTyped, Stages
  <2>5. /\ stage'[w] = "unlocking"
        /\ \A v \in F!Writers \ {w} : stage'[v] = stage[v] /\ exact'[v] = exact[v]
        BY <2>1, <1>2 DEF FilesInv, FilesTyped
  <2>6. WriterInv(w)'
    <3>1. CountOf(w)'
          BY <2>2, <2>3, <2>5, <1>2 DEF CountOf
    <3>. QED BY <3>1, <2>5 DEF WriterInv, HoldOf, CheckedOf
  <2>. QED BY <1>2, <2>2, <2>4, <2>5, <2>6, WriterStep
<1>. QED BY <1>3, <1>4

(* The result of a patch: where it is exact, the tracker is taken through  *)
(* all that was done, and otherwise it is given up.                        *)
LEMMA FinishStep ==
  ASSUME FilesConstants, FilesInv, NEW w \in F!Writers, F!Finish(w) PROVE FilesInv'
<1>1. /\ stage[w] = "applying" /\ stage' = [stage EXCEPT ![w] = "idle"]
      /\ diff' = [a \in Agents |-> IF a = w THEN F!NetChange(a) ELSE diff[a]]
      /\ plan' = [plan EXCEPT ![w] = <<>>]
      /\ seen' = [seen EXCEPT ![w] = [p \in Paths |-> F!Unset]]
      /\ wrote' = [wrote EXCEPT ![w] = 0]
      /\ completed' = [completed EXCEPT ![w] = 0]
      /\ exact' = [exact EXCEPT ![w] = TRUE]
      /\ UNCHANGED <<disk, locks, own>>
      BY DEF F!Finish, F!Goes
<1>2. CountOf(w)
      BY DEF FilesInv, WriterInv
<1>3. ASSUME w \in Agents
      PROVE  /\ F!NetChange(w) \in Trackers
             /\ F!NetChange(w).exact => \A p \in Paths : F!NetChange(w).files[p] = Shown(own[w][p])
  <2>1. CASE exact[w]
    <3>1. PICK f \in FileSteps(w, wrote[w]) : Agrees(f[wrote[w]], w)
          BY <1>3 DEF FilesInv, TrackInv
    <3>2. completed[w] = wrote[w]
          BY <2>1, <1>1, <1>2 DEF CountOf
    <3>3. F!NetChange(w) = f[wrote[w]]
          BY <2>1, <3>2, <1>3, NetIs DEF F!NetChange, FilesInv
    <3>4. f[wrote[w]] \in Trackers
      <4>1. wrote[w] \in Nat /\ f \in [0..wrote[w] -> Trackers]
            BY DEF FilesInv, FilesTyped, FileSteps
      <4>. QED BY <4>1
    <3>. QED BY <3>1, <3>3, <3>4 DEF Agrees
  <2>2. CASE ~exact[w]
    <3>1. F!NetChange(w) = F!Broken
          BY <2>2 DEF F!NetChange
    <3>2. F!Broken \in Trackers /\ ~F!Broken.exact
          BY EntryOf DEF F!Broken, Trackers
    <3>. QED BY <3>1, <3>2
  <2>. QED BY <2>1, <2>2
<1>4. FilesTyped'
  <2>1. ASSUME NEW a \in Agents PROVE diff'[a] \in Trackers
        BY <1>1, <1>3 DEF FilesInv, FilesTyped
  <2>2. diff' \in [Agents -> Trackers]
        BY <2>1, <1>1
  <2>3. [p \in Paths |-> F!Unset] \in [Paths -> F!Contents \cup {F!Unset}]
        OBVIOUS
  <2>4. <<>> \in Seq(Paths \X F!Contents)
        OBVIOUS
  <2>. QED BY <2>2, <2>3, <2>4, <1>1 DEF FilesInv, FilesTyped, Stages
<1>5. /\ stage'[w] = "idle" /\ wrote'[w] = 0 /\ completed'[w] = 0 /\ plan'[w] = <<>>
      /\ \A v \in F!Writers \ {w} :
           /\ stage'[v] = stage[v] /\ plan'[v] = plan[v] /\ seen'[v] = seen[v]
           /\ wrote'[v] = wrote[v] /\ completed'[v] = completed[v] /\ exact'[v] = exact[v]
      BY <1>1 DEF FilesInv, FilesTyped
<1>6. WriterInv(w)'
  <2>1. CountOf(w)'
        BY <1>5 DEF CountOf
  <2>. QED BY <2>1, <1>5 DEF WriterInv, HoldOf, CheckedOf
<1>7. ASSUME NEW v \in F!Writers \ {w} PROVE WriterInv(v)'
      BY <1>1, <1>5, OthersKept
<1>8. ASSUME NEW a \in Agents
      PROVE  \E f \in FileSteps(a, wrote[a])' : Agrees(f[wrote[a]], a)'
  <2>1. CASE a = w
    <3>1. diff'[a] = F!NetChange(w) /\ own'[a] = own[w]
          BY <2>1, <1>1
    <3>. QED BY <2>1, <3>1, <1>3, <1>5, TrackStart
  <2>2. CASE a # w
    <3>1. a \in F!Writers \ {w} /\ diff'[a] = diff[a] /\ own'[a] = own[a]
          BY <2>2, <1>1 DEF F!Writers
    <3>. QED BY <3>1, <1>5, TrackSame DEF FilesInv
  <2>. QED BY <2>1, <2>2
<1>. QED BY <1>4, <1>6, <1>7, <1>8 DEF FilesInv, TrackInv

-----------------------------------------------------------------------------
LEMMA FilesInvInit == ASSUME FilesConstants, F!Init PROVE FilesInv
<1>1. FilesTyped
  <2>1. <<>> \in Seq(Paths \X F!Contents)
        OBVIOUS
  <2>2. [exact |-> TRUE, files |-> [p \in Paths |-> F!NoFile]] \in Trackers
        BY EntryOf DEF Trackers
  <2>. QED BY <2>1, <2>2, EntryOf DEF F!Init, FilesTyped, FilesConstants, Stages
<1>2. ASSUME NEW w \in F!Writers PROVE WriterInv(w)
      BY DEF F!Init, WriterInv, CountOf, HoldOf, CheckedOf
<1>3. ASSUME NEW a \in Agents PROVE \E f \in FileSteps(a, wrote[a]) : Agrees(f[wrote[a]], a)
  <2>1. /\ wrote[a] = 0 /\ diff[a] \in Trackers
        /\ diff[a] = [exact |-> TRUE, files |-> [p \in Paths |-> F!NoFile]]
        /\ own[a] = [p \in Paths |-> F!NoFile]
        BY <1>1 DEF F!Init, FilesTyped, F!Writers
  <2>2. PICK f : f = [i \in 0..0 |-> diff[a]]
        OBVIOUS
  <2>3. f \in [0..0 -> Trackers] /\ f[0] = diff[a] /\ 1..0 = {}
        BY <2>1, <2>2
  <2>4. f \in FileSteps(a, wrote[a])
        BY <2>1, <2>3 DEF FileSteps, Follow
  <2>5. \A p \in Paths : diff[a].files[p] = Shown(own[a][p])
        BY <2>1 DEF Shown
  <2>. QED BY <2>1, <2>3, <2>4, <2>5 DEF Agrees
<1>. QED BY <1>1, <1>2, <1>3 DEF FilesInv, TrackInv

LEMMA FilesInvStep ==
  ASSUME FilesConstants, FilesInv, [F!Next]_(F!fileVars) PROVE FilesInv'
<1>1. CASE UNCHANGED F!fileVars
  <2>1. FilesTyped'
        BY <1>1 DEF F!fileVars, FilesInv, FilesTyped
  <2>2. ASSUME NEW w \in F!Writers PROVE WriterInv(w)'
        BY <1>1, OthersKept DEF F!fileVars
  <2>3. TrackInv'
        BY <1>1, TrackSame DEF F!fileVars, FilesInv, TrackInv
  <2>. QED BY <2>1, <2>2, <2>3 DEF FilesInv
<1>2. ASSUME NEW w \in F!Writers,
             \/ F!Begin(w) \/ F!Read(w) \/ F!Allow(w) \/ F!Deny(w) \/ F!Lock(w) \/ F!Check(w) \/ F!Write(w)
             \/ F!WriteFails(w) \/ F!Report(w) \/ F!Stop(w) \/ F!Unlock(w) \/ F!Finish(w)
      PROVE  FilesInv'
      BY <1>2, BeginStep, ReadStep, AskStep, FileLockStep, CheckStep, WriteStep,
         WriteFailsStep, ReportStep, StopStep, UnlockStep, FinishStep
<1>. QED BY <1>1, <1>2 DEF F!Next

LEMMA FilesInvHolds == ASSUME FilesConstants PROVE FileBehaviour => []FilesInv
<1>1. F!Init => FilesInv
      BY FilesInvInit
<1>2. FilesInv /\ [F!Next]_(F!fileVars) => FilesInv'
      BY FilesInvStep
<1>. QED BY <1>1, <1>2, PTL DEF FileBehaviour

-----------------------------------------------------------------------------
(* The disk, the locks, the plans and the trackers have the types that     *)
(* FileChanges gives them, and no patch is completed that was not written. *)
THEOREM FilesTypeCorrect == ASSUME FilesConstants PROVE FileBehaviour => []F!TypeOK
<1>1. FilesInv => F!TypeOK
  <2> SUFFICES ASSUME FilesInv PROVE F!TypeOK
      OBVIOUS
  <2>1. \A w \in F!Writers : completed[w] <= wrote[w] /\ wrote[w] <= Len(plan[w])
        BY DEF FilesInv, WriterInv, CountOf
  <2>2. \A a \in Agents : diff[a].exact \in BOOLEAN
        BY DEF FilesInv, FilesTyped, Trackers
  <2>. QED BY <2>1, <2>2 DEF F!TypeOK, FilesInv, FilesTyped, Stages
<1>. QED BY <1>1, FilesInvHolds, PTL

(* A diff that a run's tracker calls exact is the net change of the run's  *)
(* own writes, whoever else patches and edits the same files meanwhile     *)
(* (runner/diff_tracker.go:46-91).                                         *)
THEOREM ExactIsTrueHolds == ASSUME FilesConstants PROVE FileBehaviour => []F!ExactIsTrue
<1>1. FilesInv => F!ExactIsTrue
  <2> SUFFICES ASSUME FilesInv, NEW a \in Agents, stage[a] = "idle", diff[a].exact, NEW p \in Paths
               PROVE  diff[a].files[p] = Shown(own[a][p])
      BY DEF F!ExactIsTrue, Shown
  <2>1. a \in F!Writers
        BY DEF F!Writers
  <2>2. wrote[a] = 0
        BY <2>1 DEF FilesInv, WriterInv, CountOf
  <2>. QED BY <2>2, TrackBegins DEF FilesInv
<1>. QED BY <1>1, FilesInvHolds, PTL

(* A write of a patch replaces what the patch was computed from: between   *)
(* the reading and the writing of a file nobody else writes it             *)
(* (machine/local/files.go:212-250, agent_files.go:65-86).                 *)
THEOREM NoLostWriteHolds == ASSUME FilesConstants PROVE FileBehaviour => [][F!NoLostWrite]_(F!fileVars)
<1>1. FilesInv /\ [F!Next]_(F!fileVars) => [F!NoLostWrite]_(F!fileVars)
  <2> SUFFICES ASSUME FilesInv, F!Next, NEW p \in Paths, disk'[p] # disk[p]
               PROVE  \E w \in F!Writers : wrote'[w] = wrote[w] + 1 /\ seen[w][p] = disk[p]
      BY DEF F!NoLostWrite
  <2>1. PICK w \in F!Writers :
          \/ F!Begin(w) \/ F!Read(w) \/ F!Allow(w) \/ F!Deny(w) \/ F!Lock(w) \/ F!Check(w) \/ F!Write(w)
          \/ F!WriteFails(w) \/ F!Report(w) \/ F!Stop(w) \/ F!Unlock(w) \/ F!Finish(w)
        BY DEF F!Next
  <2>2. stage[w] = "writing" /\ F!Put(w, F!Current(w)[1], F!Current(w)[2])
        BY <2>1 DEF F!Begin, F!Read, F!Allow, F!Deny, F!Lock, F!Check, F!Write,
           F!WriteFails, F!Report, F!Stop, F!Unlock, F!Finish
  <2>3. CheckedOf(w)
        BY DEF FilesInv, WriterInv
  <2>4. p = F!Current(w)[1]
        BY <2>2 DEF F!Put, FilesInv, FilesTyped
  <2>5. wrote'[w] = wrote[w] + 1
        BY <2>2 DEF F!Put, FilesInv, FilesTyped
  <2>. QED BY <2>2, <2>3, <2>4, <2>5 DEF CheckedOf
<1>. QED BY <1>1, FilesInvHolds, PTL DEF FileBehaviour

-----------------------------------------------------------------------------
(* Processes                                                                *)

P == INSTANCE Processes

(* P!Spec without its fairness, which none of the theorems needs. *)
ProcessBehaviour == P!Init /\ [][P!Next]_(P!processVars)

-----------------------------------------------------------------------------
(* The inductive invariant, in named parts.                                *)

ProcTyped ==
  /\ proc \in [P!All -> {"none", "running", "ended"}]
  /\ made \in [P!All -> Nat] /\ pipe \in [P!All -> Nat] /\ held \in [P!All -> Nat]
  /\ got \in [P!All -> Nat]
  /\ reading \in [P!All -> BOOLEAN] /\ exited \in [P!All -> BOOLEAN]
  /\ sent \in [P!All -> BOOLEAN] /\ told \in [P!All -> BOOLEAN]

OwnerTyped ==
  /\ table \subseteq P!All
  /\ exec \in [Agents -> {"none", "waiting", "taken", "stopping", "done"}]
  /\ call \in [Interacts -> {"none", "locking", "writing", "waiting", "taken", "done"}]
  /\ target \in [Interacts -> Agents \cup {None}]
  /\ busy \in [Agents -> Interacts \cup {None}]
  /\ session \in [Terminals -> {"none", "running", "over"}]
  /\ writing \in [Terminals -> BOOLEAN] /\ gone \in BOOLEAN
  /\ closing \in {"open", "closing", "clean", "errors"}

(* No output is counted twice, and none of a process without a terminal is *)
(* lost; what the reader has left behind is in the buffer.                 *)
OutputInv(p) ==
  /\ pipe[p] + held[p] + got[p] <= made[p] /\ made[p] <= MaxOutput
  /\ p \notin Ttys => pipe[p] + held[p] + got[p] = made[p]
  /\ p \in Terminals => held[p] <= Capacity
  /\ ~reading[p] => pipe[p] = 0

(* A process ends, then its reader, then it counts as exited; who was told *)
(* so has emptied the buffer.                                              *)
OrderInv(p) ==
  /\ P!Lives(p) => reading[p]
  /\ exited[p] => proc[p] = "ended" /\ ~reading[p]
  /\ told[p] => exited[p] /\ held[p] = 0

(* One that runs is in the table; a call forgets only what it saw exit.    *)
TableInv(p) ==
  /\ P!Lives(p) => p \in table
  /\ closing = "clean" => ~P!Lives(p)
  /\ p \in Agents => /\ exec[p] = "none" => proc[p] = "none"
                     /\ exec[p] = "taken" => exited[p]
  /\ p \in Terminals => (session[p] = "none" => proc[p] = "none")

CallInv(i) ==
  /\ call[i] # "none" => target[i] \in Agents
  /\ call[i] = "taken" => exited[target[i]]

ProcessInv ==
  /\ ProcTyped /\ OwnerTyped
  /\ \A p \in P!All : OutputInv(p) /\ OrderInv(p) /\ TableInv(p)
  /\ \A i \in Interacts : CallInv(i)

ProcessConstants ==
  /\ Agents \cap Terminals = {} /\ Terminals \subseteq Ttys
  /\ Capacity \in Nat /\ MaxOutput \in Nat

-----------------------------------------------------------------------------
LEMMA ProcessInvInit == ASSUME ProcessConstants, P!Init PROVE ProcessInv
<1>1. ProcTyped
      BY DEF P!Init, ProcTyped
<1>2. OwnerTyped
      BY DEF P!Init, OwnerTyped
<1>3. ASSUME NEW p \in P!All PROVE OutputInv(p) /\ OrderInv(p) /\ TableInv(p)
      BY <1>3 DEF P!Init, OutputInv, OrderInv, TableInv, P!Lives, P!All, ProcessConstants
<1>4. ASSUME NEW i \in Interacts PROVE CallInv(i)
      BY <1>4 DEF P!Init, CallInv
<1>. QED BY <1>1, <1>2, <1>3, <1>4 DEF ProcessInv

ProcessFacts(p) == OutputInv(p) /\ OrderInv(p) /\ TableInv(p)

LEMMA ProcessNumbers ==
  ASSUME ProcessInv, NEW p \in P!All
  PROVE  /\ made[p] \in Nat /\ pipe[p] \in Nat /\ held[p] \in Nat /\ got[p] \in Nat
         /\ OutputInv(p) /\ OrderInv(p) /\ TableInv(p)
      BY DEF ProcessInv, ProcTyped

(* The operating system, the reader and the waiter of one process, and     *)
(* those who take its output: nobody else is concerned.                    *)
OnlyFor(p) == \A q \in P!All : q # p =>
  /\ proc'[q] = proc[q] /\ made'[q] = made[q] /\ pipe'[q] = pipe[q]
  /\ reading'[q] = reading[q] /\ held'[q] = held[q] /\ got'[q] = got[q]
  /\ exited'[q] = exited[q] /\ told'[q] = told[q]
  /\ q \in Agents => exec'[q] = exec[q]
  /\ q \in Terminals => session'[q] = session[q]
  /\ q \in table /\ ~exited[q] => q \in table'

LEMMA ProcessStep ==
  ASSUME ProcessInv, NEW p \in P!All, ProcTyped', OwnerTyped', OnlyFor(p),
         closing' = "clean" => closing = "clean" \/ \A q \in P!All : ~P!Lives(q),
         ProcessFacts(p)',
         exited[p] => exited'[p],
         \A i \in Interacts :
           /\ call'[i] # "none" => target'[i] \in Agents
           /\ call'[i] = "taken" =>
                \/ call[i] = "taken" /\ target'[i] = target[i]
                \/ target'[i] \in Agents /\ exited'[target'[i]]
  PROVE  ProcessInv'
<1>1. ASSUME NEW q \in P!All, q # p PROVE OutputInv(q)' /\ OrderInv(q)'
      BY <1>1 DEF OnlyFor, ProcessInv, OutputInv, OrderInv, P!Lives
<1>2. ASSUME NEW q \in P!All, q # p PROVE TableInv(q)'
  <2>1. TableInv(q) /\ OrderInv(q)
        BY DEF ProcessInv
  <2>. QED BY <1>2, <2>1 DEF OnlyFor, OrderInv, TableInv, P!Lives
<1>3. ASSUME NEW i \in Interacts PROVE CallInv(i)'
  <2>1. CASE call'[i] = "taken" /\ call[i] = "taken" /\ target'[i] = target[i]
    <3>1. target[i] \in Agents /\ exited[target[i]] /\ target[i] \in P!All
          BY <2>1 DEF ProcessInv, CallInv, P!All
    <3>2. exited'[target[i]]
          BY <3>1 DEF OnlyFor
    <3>. QED BY <2>1, <3>1, <3>2 DEF CallInv
  <2>. QED BY <2>1 DEF CallInv
<1>. QED BY <1>1, <1>2, <1>3 DEF ProcessInv, ProcessFacts

(* Nothing of a process changes; calls, tables and sessions do.            *)
LEMMA OwnerStep ==
  ASSUME ProcessInv, OwnerTyped',
         UNCHANGED <<proc, made, pipe, reading, held, got, exited>>,
         sent' \in [P!All -> BOOLEAN], told' \in [P!All -> BOOLEAN],
         \A q \in P!All : told'[q] => told[q] \/ (exited[q] /\ held[q] = 0),
         \A q \in Agents : /\ exec'[q] = "none" => exec[q] = "none"
                           /\ exec'[q] = "taken" => exec[q] = "taken",
         \A q \in Terminals : session'[q] = "none" => session[q] = "none",
         \A q \in table : q \in table' \/ exited[q],
         closing' = "clean" => closing = "clean" \/ \A q \in P!All : ~P!Lives(q),
         \A i \in Interacts :
           /\ call'[i] # "none" => target'[i] \in Agents
           /\ call'[i] = "taken" => call[i] = "taken" /\ target'[i] = target[i]
  PROVE  ProcessInv'
<1>1. ProcTyped'
      BY DEF ProcessInv, ProcTyped
<1>2. ASSUME NEW q \in P!All PROVE OutputInv(q)' /\ OrderInv(q)'
      BY DEF ProcessInv, OutputInv, OrderInv, P!Lives
<1>3. ASSUME NEW q \in P!All PROVE TableInv(q)'
  <2>1. TableInv(q) /\ OrderInv(q)
        BY DEF ProcessInv
  <2>. QED BY <2>1 DEF OrderInv, TableInv, P!Lives
<1>4. ASSUME NEW i \in Interacts PROVE CallInv(i)'
      BY DEF ProcessInv, CallInv
<1>. QED BY <1>1, <1>2, <1>3, <1>4 DEF ProcessInv

-----------------------------------------------------------------------------
(* A process, its reader and its waiter.                                   *)
ProcessCallers == UNCHANGED <<call, target>>

LEMMA SameCallers ==
  ASSUME ProcessInv, ProcessCallers
  PROVE  \A i \in Interacts :
           /\ call'[i] # "none" => target'[i] \in Agents
           /\ call'[i] = "taken" => call[i] = "taken" /\ target'[i] = target[i]
      BY DEF ProcessInv, CallInv, ProcessCallers

LEMMA SystemStep ==
  ASSUME ProcessConstants, ProcessInv, NEW p \in P!All,
         P!Write(p) \/ P!Exit(p) \/ P!Killed(p) \/ P!Read(p) \/ P!ReadEnd(p) \/ P!Finish(p)
  PROVE  ProcessInv'
<1>1. UNCHANGED <<told, sent, exec, call, target, busy, session, writing, gone, closing>>
      BY DEF P!Write, P!Exit, P!Killed, P!Read, P!ReadEnd, P!Finish, P!callVars, P!termVars
<1>2. OwnerTyped'
      BY <1>1 DEF ProcessInv, OwnerTyped, P!Write, P!Exit, P!Killed, P!Read, P!ReadEnd,
         P!Finish
<1>3. ProcTyped'
  <2>1. CASE P!Write(p)
        BY <2>1 DEF ProcessInv, ProcTyped, P!Write
  <2>2. CASE P!Exit(p) \/ P!Killed(p)
        BY <2>2 DEF ProcessInv, ProcTyped, P!Exit, P!Killed
  <2>3. CASE P!Read(p)
    <3>1. pipe[p] - 1 \in Nat /\ held[p] + 1 \in Nat
          BY <2>3, ProcessNumbers DEF P!Read
    <3>. QED BY <2>3, <3>1 DEF ProcessInv, ProcTyped, P!Read
  <2>4. CASE P!ReadEnd(p)
        BY <2>4 DEF ProcessInv, ProcTyped, P!ReadEnd
  <2>5. CASE P!Finish(p)
        BY <2>5 DEF ProcessInv, ProcTyped, P!Finish
  <2>. QED BY <2>1, <2>2, <2>3, <2>4, <2>5
<1>4. OnlyFor(p)
      BY <1>1 DEF OnlyFor, ProcessInv, ProcTyped, P!Write, P!Exit, P!Killed, P!Read,
         P!ReadEnd, P!Finish
<1>5. ProcessFacts(p)' /\ (exited[p] => exited'[p])
  <2>1. CASE P!Write(p)
    <3>1. /\ made'[p] = made[p] + 1 /\ pipe'[p] = pipe[p] + 1 /\ made[p] < MaxOutput
          /\ UNCHANGED <<proc, reading, held, got, exited, told, table>> /\ reading[p]
          BY <2>1, ProcessNumbers DEF P!Write, ProcessInv, ProcTyped, OrderInv
    <3>2. OutputInv(p)'
          BY <3>1, ProcessNumbers DEF OutputInv, ProcessConstants
    <3>. QED BY <1>1, <3>1, <3>2, ProcessNumbers DEF ProcessFacts, OrderInv, TableInv,
                P!Lives
  <2>2. CASE P!Exit(p) \/ P!Killed(p)
    <3>1. /\ proc'[p] = "ended" /\ proc[p] = "running"
          /\ UNCHANGED <<made, pipe, reading, held, got, exited, told, table>>
          BY <2>2 DEF P!Exit, P!Killed, ProcessInv, ProcTyped, P!Lives
    <3>. QED BY <1>1, <3>1, ProcessNumbers DEF ProcessFacts, OutputInv, OrderInv, TableInv,
                P!Lives
  <2>3. CASE P!Read(p)
    <3>1. /\ pipe'[p] = pipe[p] - 1 /\ held'[p] = held[p] + 1 /\ pipe[p] > 0 /\ reading[p]
          /\ p \in Terminals => held[p] < Capacity
          /\ UNCHANGED <<proc, made, reading, got, exited, told, table>>
          BY <2>3 DEF P!Read, ProcessInv, ProcTyped
    <3>2. OutputInv(p)'
          BY <3>1, ProcessNumbers DEF OutputInv, ProcessConstants
    <3>3. ~exited[p] /\ ~told[p]
          BY <3>1, ProcessNumbers DEF OrderInv
    <3>. QED BY <1>1, <3>1, <3>2, <3>3, ProcessNumbers DEF ProcessFacts, OrderInv, TableInv,
                P!Lives
  <2>4. CASE P!ReadEnd(p)
    <3>1. /\ pipe'[p] = 0 /\ reading'[p] = FALSE /\ proc[p] = "ended"
          /\ pipe[p] = 0 \/ p \in Ttys
          /\ UNCHANGED <<proc, made, held, got, exited, told, table>>
          BY <2>4 DEF P!ReadEnd, ProcessInv, ProcTyped
    <3>2. OutputInv(p)'
          BY <3>1, ProcessNumbers DEF OutputInv, ProcessConstants
    <3>. QED BY <1>1, <3>1, <3>2, ProcessNumbers DEF ProcessFacts, OrderInv, TableInv,
                P!Lives
  <2>5. CASE P!Finish(p)
    <3>1. /\ exited'[p] = TRUE /\ proc[p] = "ended" /\ ~reading[p]
          /\ UNCHANGED <<proc, made, pipe, reading, held, got, told>>
          BY <2>5 DEF P!Finish, P!MayFinish, ProcessInv, ProcTyped
    <3>. QED BY <1>1, <3>1, ProcessNumbers DEF ProcessFacts, OutputInv, OrderInv, TableInv,
                P!Lives
  <2>. QED BY <2>1, <2>2, <2>3, <2>4, <2>5
<1>6. ProcessCallers /\ closing' = closing
      BY <1>1 DEF ProcessCallers
<1>. QED BY <1>2, <1>3, <1>4, <1>5, <1>6, SameCallers, ProcessStep

-----------------------------------------------------------------------------
(* The calls of agents.                                                    *)
LEMMA ExecStep ==
  ASSUME ProcessConstants, ProcessInv, NEW p \in Agents, P!Exec(p) PROVE ProcessInv'
<1>1. /\ exec[p] = "none" /\ closing = "open"
      /\ exec' = [exec EXCEPT ![p] = "waiting"]
      /\ proc' = [proc EXCEPT ![p] = "running"] /\ reading' = [reading EXCEPT ![p] = TRUE]
      /\ UNCHANGED <<made, pipe, held, got, exited, sent, told, call, target, busy,
                     session, writing, gone, closing>>
      BY DEF P!Exec, P!MayStart, P!Started, P!termVars
<1>2. /\ p \in table' /\ table' \subseteq table \cup {p}
      /\ \A q \in table : q \in table' \/ exited[q]
      BY DEF P!Exec, P!Prunable, P!Tracked
<1>3. p \in P!All /\ p \notin Terminals /\ proc[p] = "none"
      BY <1>1 DEF P!All, ProcessConstants, ProcessInv, TableInv
<1>4. ProcTyped' /\ OwnerTyped'
      BY <1>1, <1>2, <1>3 DEF ProcessInv, ProcTyped, OwnerTyped
<1>5. OnlyFor(p)
      BY <1>1, <1>2, <1>3 DEF OnlyFor, ProcessInv, ProcTyped, OwnerTyped
<1>6. proc'[p] = "running" /\ reading'[p] = TRUE /\ exec'[p] = "waiting"
      BY <1>1, <1>3 DEF ProcessInv, ProcTyped, OwnerTyped
<1>7. ~exited[p] /\ ~told[p]
      BY <1>3 DEF ProcessInv, OrderInv
<1>8. ProcessFacts(p)'
  <2>1. OutputInv(p)'
        BY <1>1, <1>3, <1>6, ProcessNumbers DEF OutputInv
  <2>. QED BY <2>1, <1>1, <1>2, <1>3, <1>6, <1>7 DEF ProcessFacts, OrderInv, TableInv,
              P!Lives
<1>9. ProcessCallers
      BY <1>1 DEF ProcessCallers
<1>. QED BY <1>1, <1>3, <1>4, <1>5, <1>7, <1>8, <1>9, SameCallers, ProcessStep

(* A call takes the buffer of p, and says whether p has exited, or drops   *)
(* what it took.                                                           *)
LEMMA TakeStep ==
  ASSUME ProcessConstants, ProcessInv, NEW p \in Agents, OwnerTyped',
         got' = [got EXCEPT ![p] = @ + held[p]], held' = [held EXCEPT ![p] = 0],
         told' = told \/ told' = [told EXCEPT ![p] = @ \/ exited[p]],
         sent' \in [P!All -> BOOLEAN],
         UNCHANGED <<proc, made, pipe, reading, exited, table, session, closing>>,
         \A q \in Agents : q # p => exec'[q] = exec[q],
         exec'[p] = "none" => exec[p] = "none",
         exec'[p] = "taken" => exec[p] = "taken" \/ exited[p],
         \A i \in Interacts :
           /\ call'[i] # "none" => target'[i] \in Agents
           /\ call'[i] = "taken" =>
                \/ call[i] = "taken" /\ target'[i] = target[i]
                \/ target'[i] = p /\ exited[p]
  PROVE  ProcessInv'
<1>1. p \in P!All /\ p \notin Terminals
      BY DEF P!All, ProcessConstants
<1>2. /\ got'[p] = got[p] + held[p] /\ held'[p] = 0 /\ (told'[p] => told[p] \/ exited[p])
      /\ got' \in [P!All -> Nat] /\ held' \in [P!All -> Nat] /\ told' \in [P!All -> BOOLEAN]
      /\ \A q \in P!All : q # p => got'[q] = got[q] /\ held'[q] = held[q] /\ told'[q] = told[q]
      BY <1>1 DEF ProcessInv, ProcTyped
<1>3. ProcTyped'
      BY <1>2 DEF ProcessInv, ProcTyped
<1>4. OnlyFor(p)
      BY <1>2 DEF OnlyFor
<1>5. OutputInv(p)'
      BY <1>1, <1>2, ProcessNumbers DEF OutputInv
<1>6. OrderInv(p)'
      BY <1>1, <1>2, ProcessNumbers DEF OrderInv, P!Lives
<1>7. TableInv(p)'
      BY <1>1, ProcessNumbers DEF TableInv, P!Lives
<1>. QED BY <1>1, <1>3, <1>4, <1>5, <1>6, <1>7, ProcessStep DEF ProcessFacts

LEMMA ExecTakeStep ==
  ASSUME ProcessConstants, ProcessInv, NEW p \in Agents, P!ExecTake(p) PROVE ProcessInv'
<1>1. /\ got' = [got EXCEPT ![p] = @ + held[p]] /\ held' = [held EXCEPT ![p] = 0]
      /\ told' = [told EXCEPT ![p] = @ \/ exited[p]]
      /\ UNCHANGED <<proc, made, pipe, reading, exited, table, session, closing>>
      BY DEF P!ExecTake, P!Take, P!termVars
<1>2. /\ exec' = [exec EXCEPT ![p] = IF exited[p] THEN "taken" ELSE "done"]
      /\ UNCHANGED <<sent, call, target, busy, table, session, writing, gone, closing>>
      BY DEF P!ExecTake, P!termVars
<1>3. OwnerTyped'
      BY <1>2 DEF ProcessInv, OwnerTyped
<1>4. /\ \A q \in Agents : q # p => exec'[q] = exec[q]
      /\ exec'[p] = "none" => exec[p] = "none"
      /\ exec'[p] = "taken" => exec[p] = "taken" \/ exited[p]
      BY <1>2 DEF ProcessInv, OwnerTyped
<1>5. \A i \in Interacts :
        /\ call'[i] # "none" => target'[i] \in Agents
        /\ call'[i] = "taken" =>
             \/ call[i] = "taken" /\ target'[i] = target[i]
             \/ target'[i] = p /\ exited[p]
      BY <1>2, SameCallers DEF ProcessCallers
<1>6. sent' \in [P!All -> BOOLEAN]
      BY <1>2 DEF ProcessInv, ProcTyped
<1>7. told' = told \/ told' = [told EXCEPT ![p] = @ \/ exited[p]]
      BY <1>1
<1>. QED BY <1>1, <1>7, <1>3, <1>4, <1>5, <1>6, TakeStep

LEMMA InteractTakeStep ==
  ASSUME ProcessConstants, ProcessInv, NEW i \in Interacts, P!InteractTake(i) PROVE ProcessInv'
<1>1. PICK p \in Agents : p = target[i]
      BY DEF P!InteractTake, ProcessInv, CallInv
<1>2. /\ call[i] = "waiting"
      /\ got' = [got EXCEPT ![p] = @ + held[p]] /\ held' = [held EXCEPT ![p] = 0]
      /\ told' = [told EXCEPT ![p] = @ \/ exited[p]]
      /\ call' = [call EXCEPT ![i] = IF exited[p] THEN "taken" ELSE "done"]
      /\ busy' = IF exited[p] THEN busy ELSE [busy EXCEPT ![p] = None]
      /\ UNCHANGED <<proc, made, pipe, reading, exited, sent, table, exec, target, session,
                     writing, gone, closing>>
      BY <1>1 DEF P!InteractTake, P!Take, P!termVars
<1>3. OwnerTyped'
      BY <1>2 DEF ProcessInv, OwnerTyped
<1>4. ASSUME NEW j \in Interacts
      PROVE  /\ call'[j] # "none" => target'[j] \in Agents
             /\ call'[j] = "taken" =>
                  \/ call[j] = "taken" /\ target'[j] = target[j]
                  \/ target'[j] = p /\ exited[p]
      BY <1>1, <1>2 DEF ProcessInv, OwnerTyped, CallInv
<1>5. sent' \in [P!All -> BOOLEAN]
      BY <1>2 DEF ProcessInv, ProcTyped
<1>. QED BY <1>2, <1>3, <1>4, <1>5, TakeStep

LEMMA ExecEndStep ==
  ASSUME ProcessConstants, ProcessInv, NEW p \in Agents,
         \/ P!ExecRemove(p) \/ P!ExecStopped(p)
         \/ P!ExecCancel(p) /\ UNCHANGED <<got, held>>
  PROVE  ProcessInv'
<1>1. /\ UNCHANGED <<proc, made, pipe, reading, held, got, exited, told, call, target, busy,
                     session, writing, gone, closing>>
      /\ exec' = [exec EXCEPT ![p] = "done"] \/ exec' = [exec EXCEPT ![p] = "stopping"]
      BY DEF P!ExecRemove, P!ExecCancel, P!ExecStopped, P!procVars, P!termVars
<1>2. table' \subseteq table /\ \A q \in table : q \in table' \/ exited[q]
      BY DEF P!ExecRemove, P!ExecCancel, P!ExecStopped, P!Forgets, ProcessInv, TableInv,
         P!All
<1>3. sent' \in [P!All -> BOOLEAN]
      BY DEF P!ExecRemove, P!ExecCancel, P!ExecStopped, P!Terminated, P!procVars,
         ProcessInv, ProcTyped
<1>4. OwnerTyped'
      BY <1>1, <1>2 DEF ProcessInv, OwnerTyped
<1>5. \A q \in Agents : /\ exec'[q] = "none" => exec[q] = "none"
                        /\ exec'[q] = "taken" => exec[q] = "taken"
      BY <1>1 DEF ProcessInv, OwnerTyped
<1>6. told' \in [P!All -> BOOLEAN] /\ ProcessCallers
      BY <1>1 DEF ProcessInv, ProcTyped, ProcessCallers
<1>. QED BY <1>1, <1>2, <1>3, <1>4, <1>5, <1>6, SameCallers, OwnerStep

(* The output that a cancelled call had taken is dropped. *)
LEMMA ExecDropStep ==
  ASSUME ProcessConstants, ProcessInv, NEW p \in Agents, P!ExecCancel(p),
         got' = [got EXCEPT ![p] = @ + held[p]], held' = [held EXCEPT ![p] = 0]
  PROVE  ProcessInv'
<1>1. /\ exec' = [exec EXCEPT ![p] = "stopping"] /\ P!Terminated({p})
      /\ UNCHANGED <<proc, made, pipe, reading, exited, told, table, call, target, busy,
                     session, writing, gone, closing>>
      BY DEF P!ExecCancel, P!termVars
<1>2. OwnerTyped'
      BY <1>1 DEF ProcessInv, OwnerTyped
<1>3. sent' \in [P!All -> BOOLEAN]
      BY <1>1 DEF P!Terminated, ProcessInv, ProcTyped
<1>4. /\ \A q \in Agents : q # p => exec'[q] = exec[q]
      /\ exec'[p] = "stopping"
      BY <1>1 DEF ProcessInv, OwnerTyped
<1>5. ProcessCallers
      BY <1>1 DEF ProcessCallers
<1>. QED BY <1>1, <1>2, <1>3, <1>4, <1>5, SameCallers, TakeStep

LEMMA ExecCancelStep ==
  ASSUME ProcessConstants, ProcessInv, NEW p \in Agents, P!ExecCancel(p) PROVE ProcessInv'
<1>1. \/ UNCHANGED <<got, held>>
      \/ got' = [got EXCEPT ![p] = @ + held[p]] /\ held' = [held EXCEPT ![p] = 0]
      BY DEF P!ExecCancel
<1>. QED BY <1>1, ExecEndStep, ExecDropStep

LEMMA InteractStep ==
  ASSUME ProcessConstants, ProcessInv, NEW i \in Interacts, NEW p \in Agents, P!Interact(i, p)
  PROVE  ProcessInv'
<1>1. /\ call' = [call EXCEPT ![i] = "locking"] /\ target' = [target EXCEPT ![i] = p]
      /\ UNCHANGED <<proc, made, pipe, reading, held, got, exited, sent, told, table, exec, busy,
                     session, writing, gone, closing>>
      BY DEF P!Interact, P!procVars, P!termVars
<1>2. OwnerTyped'
      BY <1>1 DEF ProcessInv, OwnerTyped
<1>3. sent' \in [P!All -> BOOLEAN] /\ told' \in [P!All -> BOOLEAN]
      BY <1>1 DEF ProcessInv, ProcTyped
<1>4. ASSUME NEW j \in Interacts
      PROVE  /\ call'[j] # "none" => target'[j] \in Agents
             /\ call'[j] = "taken" => call[j] = "taken" /\ target'[j] = target[j]
      BY <1>1 DEF ProcessInv, OwnerTyped, CallInv
<1>. QED BY <1>1, <1>2, <1>3, <1>4, OwnerStep

LEMMA CallStep ==
  ASSUME ProcessConstants, ProcessInv, NEW i \in Interacts,
         P!Lock(i) \/ P!Wrote(i) \/ P!InteractRemove(i) \/ P!InteractCancel(i)
  PROVE  ProcessInv'
<1>1. PICK p \in Agents : p = target[i]
      BY DEF P!Lock, P!Wrote, P!InteractRemove, P!InteractCancel, ProcessInv, CallInv
<1>2. /\ UNCHANGED <<proc, made, pipe, reading, held, got, exited, sent, told, exec, target,
                     session, writing, gone, closing>>
      /\ \E to \in {"waiting", "writing", "done"} : call' = [call EXCEPT ![i] = to]
      /\ call[i] # "none"
      /\ \E b \in Interacts \cup {None} : busy' = busy \/ busy' = [busy EXCEPT ![p] = b]
      BY <1>1 DEF P!Lock, P!Wrote, P!InteractRemove, P!InteractCancel, P!procVars,
         P!termVars
<1>3. table' \subseteq table /\ \A q \in table : q \in table' \/ exited[q]
      BY DEF P!Lock, P!Wrote, P!InteractRemove, P!InteractCancel, ProcessInv, CallInv
<1>4. OwnerTyped'
      BY <1>2, <1>3 DEF ProcessInv, OwnerTyped
<1>5. sent' \in [P!All -> BOOLEAN] /\ told' \in [P!All -> BOOLEAN]
      BY <1>2 DEF ProcessInv, ProcTyped
<1>6. ASSUME NEW j \in Interacts
      PROVE  /\ call'[j] # "none" => target'[j] \in Agents
             /\ call'[j] = "taken" => call[j] = "taken" /\ target'[j] = target[j]
      BY <1>1, <1>2 DEF ProcessInv, OwnerTyped, CallInv
<1>. QED BY <1>2, <1>3, <1>4, <1>5, <1>6, OwnerStep

-----------------------------------------------------------------------------
(* Terminals, and Close.                                                   *)
LEMMA StartTerminalStep ==
  ASSUME ProcessConstants, ProcessInv, NEW p \in Terminals, P!StartTerminal(p) PROVE ProcessInv'
<1>1. /\ session[p] = "none" /\ closing = "open"
      /\ session' = [session EXCEPT ![p] = "running"] /\ table' = table \cup {p}
      /\ proc' = [proc EXCEPT ![p] = "running"] /\ reading' = [reading EXCEPT ![p] = TRUE]
      /\ UNCHANGED <<made, pipe, held, got, exited, sent, told, exec, call, target, busy,
                     writing, gone, closing>>
      BY DEF P!StartTerminal, P!MayStart, P!Started, P!callVars
<1>2. p \in P!All /\ p \notin Agents /\ proc[p] = "none"
      BY <1>1 DEF P!All, ProcessConstants, ProcessInv, TableInv
<1>3. ProcTyped' /\ OwnerTyped'
      BY <1>1, <1>2 DEF ProcessInv, ProcTyped, OwnerTyped
<1>4. OnlyFor(p)
      BY <1>1, <1>2 DEF OnlyFor, ProcessInv, ProcTyped, OwnerTyped
<1>5. proc'[p] = "running" /\ reading'[p] = TRUE /\ session'[p] = "running"
      BY <1>1, <1>2 DEF ProcessInv, ProcTyped, OwnerTyped
<1>6. ~exited[p] /\ ~told[p]
      BY <1>2 DEF ProcessInv, OrderInv
<1>7. ProcessFacts(p)'
  <2>1. OutputInv(p)'
        BY <1>1, <1>2, <1>5, ProcessNumbers DEF OutputInv
  <2>. QED BY <2>1, <1>1, <1>2, <1>5, <1>6 DEF ProcessFacts, OrderInv, TableInv, P!Lives
<1>8. ProcessCallers
      BY <1>1 DEF ProcessCallers
<1>. QED BY <1>1, <1>2, <1>3, <1>4, <1>6, <1>7, <1>8, SameCallers, ProcessStep

LEMMA DrainStep ==
  ASSUME ProcessConstants, ProcessInv, NEW p \in Terminals, P!Drain(p) PROVE ProcessInv'
<1>1. /\ held[p] > 0 /\ held' = [held EXCEPT ![p] = @ - 1]
      /\ got' = got \/ got' = [got EXCEPT ![p] = @ + 1]
      /\ UNCHANGED <<proc, made, pipe, reading, exited, told, table, exec, call, target, busy,
                     session, writing, gone, closing>>
      BY DEF P!Drain, P!callVars, P!termVars
<1>2. sent' \in [P!All -> BOOLEAN]
      BY DEF P!Drain, P!Terminated, ProcessInv, ProcTyped
<1>3. p \in P!All /\ p \in Ttys
      BY DEF P!All, ProcessConstants
<1>4. /\ held[p] \in Nat /\ held[p] - 1 \in Nat /\ held'[p] = held[p] - 1
      /\ got[p] \in Nat /\ (got'[p] = got[p] \/ got'[p] = got[p] + 1)
      BY <1>1, <1>3, ProcessNumbers DEF ProcessInv, ProcTyped
<1>5. ProcTyped'
  <2>1. held' \in [P!All -> Nat]
        BY <1>1, <1>4, SMT DEF ProcessInv, ProcTyped
  <2>2. got' \in [P!All -> Nat]
    <3>1. got \in [P!All -> Nat] /\ got[p] + 1 \in Nat
          BY <1>4 DEF ProcessInv, ProcTyped
    <3>. QED BY <1>1, <3>1
  <2>. QED BY <1>1, <1>2, <2>1, <2>2 DEF ProcessInv, ProcTyped
<1>6. OwnerTyped'
      BY <1>1 DEF ProcessInv, OwnerTyped
<1>7. OnlyFor(p)
      BY <1>1 DEF OnlyFor, ProcessInv, ProcTyped
<1>8. OutputInv(p)'
  <2>1. pipe[p] + held'[p] + got'[p] <= made[p]
        BY <1>3, <1>4, ProcessNumbers DEF OutputInv
  <2>. QED BY <1>1, <1>3, <1>4, <2>1, ProcessNumbers DEF OutputInv, ProcessConstants
<1>9. OrderInv(p)' /\ TableInv(p)'
      BY <1>1, <1>3, <1>4, ProcessNumbers DEF OrderInv, TableInv, P!Lives
<1>10. ProcessCallers
      BY <1>1 DEF ProcessCallers
<1>. QED BY <1>1, <1>3, <1>5, <1>6, <1>7, <1>8, <1>9, <1>10, SameCallers, ProcessStep DEF
            ProcessFacts

LEMMA SessionStep ==
  ASSUME ProcessConstants, ProcessInv, NEW p \in Terminals,
         P!Control(p) \/ P!ControlEnds(p) \/ P!GoneEnds(p) \/ P!SessionEnds(p)
  PROVE  ProcessInv'
<1>1. /\ UNCHANGED <<proc, made, pipe, reading, held, got, exited, table, exec, call, target,
                     busy, gone, closing>>
      /\ session' = session \/ session' = [session EXCEPT ![p] = "over"]
      /\ \E b \in BOOLEAN : writing' = writing \/ writing' = [writing EXCEPT ![p] = b]
      BY DEF P!Control, P!ControlEnds, P!GoneEnds, P!SessionEnds, P!procVars, P!callVars,
         P!termVars
<1>2. sent' \in [P!All -> BOOLEAN]
      BY DEF P!Control, P!ControlEnds, P!GoneEnds, P!SessionEnds, P!procVars, P!Terminated,
         ProcessInv, ProcTyped
<1>3. /\ told' \in [P!All -> BOOLEAN]
      /\ \A q \in P!All : told'[q] => told[q] \/ (exited[q] /\ held[q] = 0)
  <2>1. CASE told' = told
        BY <2>1 DEF ProcessInv, ProcTyped
  <2>2. CASE P!SessionEnds(p)
        BY <2>2 DEF P!SessionEnds, ProcessInv, ProcTyped, OwnerTyped
  <2>. QED BY <2>1, <2>2 DEF P!Control, P!ControlEnds, P!GoneEnds
<1>4. OwnerTyped'
      BY <1>1 DEF ProcessInv, OwnerTyped
<1>5. \A q \in Terminals : session'[q] = "none" => session[q] = "none"
      BY <1>1 DEF ProcessInv, OwnerTyped
<1>6. ProcessCallers
      BY <1>1 DEF ProcessCallers
<1>. QED BY <1>1, <1>2, <1>3, <1>4, <1>5, <1>6, SameCallers, OwnerStep

LEMMA CloseStep ==
  ASSUME ProcessConstants, ProcessInv, P!ClientGone \/ P!Close \/ P!CloseReturns
  PROVE  ProcessInv'
<1>1. /\ UNCHANGED <<proc, made, pipe, reading, held, got, exited, told, table, exec, call,
                     target, busy, session, writing>>
      BY DEF P!ClientGone, P!Close, P!CloseReturns, P!procVars, P!callVars, P!termVars
<1>2. sent' \in [P!All -> BOOLEAN] /\ told' \in [P!All -> BOOLEAN]
      BY <1>1 DEF P!ClientGone, P!Close, P!CloseReturns, P!procVars, P!Terminated,
         ProcessInv, ProcTyped
<1>3. OwnerTyped'
  <2>1. gone' \in BOOLEAN /\ closing' \in {"open", "closing", "clean", "errors"}
        BY DEF P!ClientGone, P!Close, P!CloseReturns, P!termVars, ProcessInv, OwnerTyped
  <2>. QED BY <1>1, <2>1 DEF ProcessInv, OwnerTyped
<1>4. ASSUME closing' = "clean", closing # "clean", NEW q \in P!All PROVE ~P!Lives(q)
  <2>1. \A p \in table : exited[p]
        BY <1>4 DEF P!ClientGone, P!Close, P!CloseReturns
  <2>2. TableInv(q) /\ OrderInv(q)
        BY <1>4 DEF ProcessInv
  <2>. QED BY <2>1, <2>2 DEF TableInv, OrderInv, P!Lives
<1>5. ProcessCallers
      BY <1>1 DEF ProcessCallers
<1>. QED BY <1>1, <1>2, <1>3, <1>4, <1>5, SameCallers, OwnerStep

LEMMA ProcessInvStep ==
  ASSUME ProcessConstants, ProcessInv, [P!Next]_(P!processVars) PROVE ProcessInv'
<1>1. CASE UNCHANGED P!processVars
  <2>1. /\ UNCHANGED <<proc, made, pipe, reading, held, got, exited, sent, told, table, exec,
                       call, target, busy, session, writing, gone, closing>>
        BY <1>1 DEF P!processVars, P!procVars, P!callVars, P!termVars
  <2>2. OwnerTyped' /\ sent' \in [P!All -> BOOLEAN] /\ told' \in [P!All -> BOOLEAN] /\ ProcessCallers
        BY <2>1 DEF ProcessInv, OwnerTyped, ProcTyped, ProcessCallers
  <2>. QED BY <2>1, <2>2, SameCallers, OwnerStep
<1>2. ASSUME NEW p \in P!All,
             P!Write(p) \/ P!Exit(p) \/ P!Killed(p) \/ P!Read(p) \/ P!ReadEnd(p) \/ P!Finish(p)
      PROVE  ProcessInv'
      BY <1>2, SystemStep
<1>3. ASSUME NEW p \in Agents,
             \/ P!Exec(p) \/ P!ExecTake(p) \/ P!ExecRemove(p) \/ P!ExecCancel(p) \/ P!ExecStopped(p)
             \/ \E i \in Interacts : P!Interact(i, p)
      PROVE  ProcessInv'
      BY <1>3, ExecStep, ExecTakeStep, ExecEndStep, ExecCancelStep, InteractStep
<1>4. ASSUME NEW i \in Interacts,
             \/ P!Lock(i) \/ P!Wrote(i) \/ P!InteractTake(i) \/ P!InteractRemove(i)
             \/ P!InteractCancel(i)
      PROVE  ProcessInv'
      BY <1>4, CallStep, InteractTakeStep
<1>5. ASSUME NEW p \in Terminals,
             \/ P!StartTerminal(p) \/ P!Drain(p) \/ P!Control(p) \/ P!ControlEnds(p) \/ P!GoneEnds(p)
             \/ P!SessionEnds(p)
      PROVE  ProcessInv'
      BY <1>5, StartTerminalStep, DrainStep, SessionStep
<1>6. CASE P!ClientGone \/ P!Close \/ P!CloseReturns
      BY <1>6, CloseStep
<1>. QED BY <1>1, <1>2, <1>3, <1>4, <1>5, <1>6 DEF P!Next

LEMMA ProcessInvHolds == ASSUME ProcessConstants PROVE ProcessBehaviour => []ProcessInv
<1>1. P!Init => ProcessInv
      BY ProcessInvInit
<1>2. ProcessInv /\ [P!Next]_(P!processVars) => ProcessInv'
      BY ProcessInvStep
<1>. QED BY <1>1, <1>2, PTL DEF ProcessBehaviour

-----------------------------------------------------------------------------
(* The processes, the calls and the sessions have the types that Processes *)
(* gives them; no chunk of output is counted twice and the channel of a    *)
(* terminal holds at most Capacity.                                        *)
THEOREM ProcessesTypeCorrect == ASSUME ProcessConstants PROVE ProcessBehaviour => []P!TypeOK
<1>1. ProcessInv => P!TypeOK
      BY DEF ProcessInv, ProcTyped, OwnerTyped, OutputInv, P!All, P!TypeOK
<1>. QED BY <1>1, ProcessInvHolds, PTL

(* Who is told that a process exited has all its output, and without a     *)
(* terminal none of it was lost (process.go:345-394).                      *)
THEOREM ExitIsWholeHolds == ASSUME ProcessConstants PROVE ProcessBehaviour => []P!ExitIsWhole
<1>1. ProcessInv => P!ExitIsWhole
  <2> SUFFICES ASSUME ProcessInv, NEW p \in P!All, told[p]
               PROVE  pipe[p] = 0 /\ held[p] = 0 /\ (p \notin Ttys => got[p] = made[p])
      BY DEF P!ExitIsWhole
  <2>1. pipe[p] = 0 /\ held[p] = 0
        BY ProcessNumbers DEF OutputInv, OrderInv
  <2>. QED BY <2>1, ProcessNumbers DEF OutputInv
<1>. QED BY <1>1, ProcessInvHolds, PTL

(* When Close returns without an error no process is left running, however *)
(* many calls were starting, stopping or forgetting one (local.go:57-98).  *)
THEOREM CleanCloseLeavesNothingHolds ==
  ASSUME ProcessConstants PROVE ProcessBehaviour => []P!CleanCloseLeavesNothing
<1>1. ProcessInv => P!CleanCloseLeavesNothing
      BY DEF ProcessInv, TableInv, P!CleanCloseLeavesNothing
<1>. QED BY <1>1, ProcessInvHolds, PTL

-----------------------------------------------------------------------------
(* RunDiffs                                                                 *)

D == INSTANCE RunDiffs WITH Runs <- DiffRuns

-----------------------------------------------------------------------------
(* What a file has held so far: what it held at the beginning, what the    *)
(* user makes of it, and what the patches so far made of it.               *)
Made == {Fresh[i] : i \in 1..changes}
Used == Made \cup {First, Edited}

DiffConstants ==
  /\ DiffRuns \subseteq Nat \ {0} /\ MaxFaults \in Nat
  /\ Fresh \in Seq({Fresh[i] : i \in DOMAIN Fresh})
  /\ \A i, j \in 1..Len(Fresh) : Fresh[i] = Fresh[j] => i = j
  /\ \A i \in 1..Len(Fresh) : Fresh[i] \notin {First, Edited, D!Unset}
  /\ First # D!Unset /\ Edited # D!Unset /\ D!Unset \notin Paths

Changes == {D!NoFile} \cup [old : Used, new : Used]
FileSets == [Paths -> Changes]
Diffs == {D!NoDiff} \cup {d \in [rev : Nat \ {0}, files : FileSets] : d.files # D!NoChange}
RevertStages == {"file", "body", "record"}
Jobs == [run : DiffRuns \cup {0}, stage : {D!Unset, "failed"} \cup RevertStages, diff : Diffs,
         path : Paths \cup {D!Unset}]

DiffTyped ==
  /\ disk \in [Paths -> Used] /\ before \in [DiffRuns -> [Paths -> Used]]
  /\ live \in DiffRuns \cup {0} /\ shown \in Nat
  /\ net \in FileSets /\ exact \in BOOLEAN
  /\ status \in [DiffRuns -> {"new", "running", "over"}]
  /\ summary \in [DiffRuns -> Diffs] /\ body \in [DiffRuns -> Diffs]
  /\ reconciled \in BOOLEAN /\ holder \in {D!Unset, "run", "revert"}
  /\ todo \in [D!Storers -> Jobs] /\ idle \in Jobs
  /\ view \in [run : DiffRuns \cup {0}, diff : Diffs]
  /\ torn \subseteq DiffRuns /\ changes \in 0..Len(Fresh) /\ faults \in 0..MaxFaults

(* Who stores what: a run its own diff while it is under way, a revert the *)
(* diff of a run that is over.                                             *)
DiffPlaceInv ==
  /\ live # 0 => status[live] = "running"
  /\ live = 0 => todo["run"] = D!Nothing
  /\ todo["run"].stage \in {D!Unset, "body", "record", "failed"}
  /\ todo["run"].stage \in {"body", "record"} => todo["run"].run = live
  /\ holder = "run" => todo["run"].stage \in {"body", "record"}
  /\ todo["run"].stage = "record" => holder = "run"
  /\ todo["revert"].stage \in {D!Unset} \cup RevertStages
  /\ holder = "revert" <=> todo["revert"].stage # D!Unset
  /\ holder = "revert" =>
       /\ todo["revert"].run \in DiffRuns /\ status[todo["revert"].run] = "over"
       /\ todo["revert"].stage = "file" =>
            /\ todo["revert"].path \in Paths
            /\ todo["revert"].diff.files[todo["revert"].path] # D!NoFile
  /\ idle # D!Nothing => /\ idle.run \in DiffRuns /\ status[idle.run] # "new"
                         /\ idle.path \in Paths
  /\ view.run # 0 => status[view.run] # "new"
  /\ \A r \in DiffRuns : status[r] = "new" =>
       body[r] = D!NoDiff /\ summary[r] = D!NoDiff /\ \A p \in Paths : before[r][p] = disk[p]

(* The two files of a run differ only while its diff is being stored, or   *)
(* after its body failed to be written.                                    *)
StoreInv ==
  /\ holder # D!Unset /\ todo[holder].stage = "record" =>
       body[todo[holder].run] = todo[holder].diff
  /\ reconciled => \A r \in DiffRuns \ torn :
       \/ summary[r] = body[r]
       \/ holder # D!Unset /\ todo[holder].stage = "record" /\ todo[holder].run = r

(* The tracker of the run under way: what it made of a file nobody else    *)
(* can make, so a file that still holds it was touched by nobody since.    *)
NetInv ==
  /\ ~exact => net = D!NoChange
  /\ \A p \in Paths : net[p] # D!NoFile => net[p].new \in Made /\ net[p].old # net[p].new
  /\ live # 0 => \A p \in Paths :
       /\ exact /\ net[p] = D!NoFile => before[live][p] = disk[p]
       /\ net[p] # D!NoFile /\ disk[p] = net[p].new => before[live][p] = net[p].old
  /\ live # 0 /\ todo["run"].stage \in {"body", "record"} => todo["run"].diff.files = net
  /\ live # 0 /\ (todo["run"] = D!Nothing \/ todo["run"].stage = "record") =>
       body[live].files = net

(* No other diff gives back what the run under way made. *)
DiffsApart(files) == \A p, q \in Paths : net[p] # D!NoFile => files[q].old # net[p].new

ApartInv ==
  live # 0 => /\ \A q \in DiffRuns \ {live} : DiffsApart(body[q].files)
              /\ holder = "revert" => DiffsApart(todo["revert"].diff.files)

(* Where a file holds what the run left, the run found there what another  *)
(* left last, or another put the same there again.                         *)
Undoable(r, files) == \A p \in Paths :
  files[p] # D!NoFile /\ disk[p] = files[p].new => before[r][p] \in {files[p].old, files[p].new}

UndoInv ==
  /\ \A r \in DiffRuns : Undoable(r, body[r].files)
  /\ holder = "revert" => Undoable(todo["revert"].run, todo["revert"].diff.files)

DiffInv == DiffTyped /\ DiffPlaceInv /\ StoreInv /\ NetInv /\ ApartInv /\ UndoInv

-----------------------------------------------------------------------------
(* Facts about the parts of the state.                                     *)
LEMMA Lengths ==
  ASSUME DiffConstants
  PROVE  Len(Fresh) \in Nat /\ DOMAIN Fresh = 1..Len(Fresh) /\ MaxFaults \in Nat /\ 0 \notin DiffRuns
      BY DEF DiffConstants

LEMMA SameUsed ==
  ASSUME changes' = changes
  PROVE  Made' = Made /\ Used' = Used /\ Changes' = Changes /\ FileSets' = FileSets
         /\ Diffs' = Diffs /\ Jobs' = Jobs
<1>1. Made' = Made /\ Used' = Used
      BY DEF Made, Used
<1>2. Changes' = Changes /\ FileSets' = FileSets
      BY <1>1 DEF Changes, FileSets
<1>3. Diffs' = Diffs
      BY <1>2 DEF Diffs
<1>. QED BY <1>1, <1>2, <1>3 DEF Jobs

LEMMA NotUnset ==
  ASSUME DiffConstants, changes \in 0..Len(Fresh)
  PROVE  D!Unset \notin Used /\ Edited \notin Made /\ First \notin Made /\ D!Unset \notin Made
      BY Lengths DEF DiffConstants, Used, Made

LEMMA EmptyIs ==
  /\ D!NoChange \in FileSets /\ D!NoDiff \in Diffs /\ D!Nothing \in Jobs
  /\ D!NoDiff.files = D!NoChange /\ D!NoDiff.rev = 0
  /\ D!Nothing.run = 0 /\ D!Nothing.stage = D!Unset /\ D!Nothing.diff = D!NoDiff /\ D!Nothing.path = D!Unset
  /\ \A p \in Paths : D!NoChange[p] = D!NoFile
<1>1. D!NoChange \in FileSets /\ \A p \in Paths : D!NoChange[p] = D!NoFile
      BY DEF D!NoChange, FileSets, Changes
<1>2. D!NoDiff \in Diffs /\ D!NoDiff.files = D!NoChange /\ D!NoDiff.rev = 0
      BY DEF D!NoDiff, Diffs
<1>. QED BY <1>1, <1>2 DEF D!Nothing, Jobs

LEMMA DiffFields ==
  ASSUME NEW d \in Diffs
  PROVE  d.files \in FileSets /\ d.rev \in Nat /\ (d.rev = 0 <=> d.files = D!NoChange)
      BY EmptyIs DEF Diffs

LEMMA DiffIs ==
  ASSUME NEW rev \in Nat, NEW files \in FileSets
  PROVE  D!Diff(rev + 1, files) \in Diffs /\ D!Diff(rev + 1, files).files = files
<1>1. CASE D!Changed(files) = {}
  <2>1. files = D!NoChange
        BY <1>1 DEF D!Changed, FileSets, D!NoChange
  <2>. QED BY <1>1, <2>1, EmptyIs DEF D!Diff
<1>2. CASE D!Changed(files) # {}
  <2>1. files # D!NoChange
        BY <1>2, EmptyIs DEF D!Changed
  <2>2. rev + 1 \in Nat \ {0}
        OBVIOUS
  <2>. QED BY <1>2, <2>1, <2>2 DEF D!Diff, Diffs
<1>. QED BY <1>1, <1>2

LEMMA FileFields ==
  ASSUME NEW files \in FileSets, NEW p \in Paths, files[p] # D!NoFile
  PROVE  files[p].old \in Used /\ files[p].new \in Used
      BY DEF FileSets, Changes

LEMMA NoFileFields == D!NoFile.old = D!Unset /\ D!NoFile.new = D!Unset
      BY DEF D!NoFile

LEMMA JobFields ==
  ASSUME NEW j \in Jobs
  PROVE  /\ j.run \in DiffRuns \cup {0} /\ j.stage \in {D!Unset, "failed"} \cup RevertStages
         /\ j.diff \in Diffs /\ j.path \in Paths \cup {D!Unset}
      BY DEF Jobs

LEMMA ToIs ==
  ASSUME NEW j \in Jobs, NEW to \in {D!Unset, "failed"} \cup RevertStages, NEW a,
         a = [j EXCEPT !.stage = to]
  PROVE  a \in Jobs /\ a.run = j.run /\ a.stage = to /\ a.diff = j.diff /\ a.path = j.path
      BY DEF Jobs

LEMMA DoesIs ==
  ASSUME todo \in [D!Storers -> Jobs], NEW w \in D!Storers, NEW j \in Jobs, D!Does(w, j)
  PROVE  /\ todo' \in [D!Storers -> Jobs] /\ todo'[w] = j
         /\ \A v \in D!Storers \ {w} : todo'[v] = todo[v]
      BY DEF D!Does

LEMMA Todos ==
  ASSUME DiffTyped
  PROVE  /\ todo["run"] \in Jobs /\ todo["revert"] \in Jobs
         /\ "run" \in D!Storers /\ "revert" \in D!Storers /\ holder \in D!Storers \cup {D!Unset}
      BY DEF DiffTyped, D!Storers

LEMMA DiffInvInit == ASSUME DiffConstants, D!Init PROVE DiffInv
<1>1. /\ First \in Used /\ 0 \in 0..MaxFaults /\ 0 \in 0..Len(Fresh)
      BY Lengths DEF Used
<1>2. D!NoView \in [run : DiffRuns \cup {0}, diff : Diffs] /\ D!NoView.run = 0
      BY EmptyIs DEF D!NoView
<1>3. DiffTyped
      BY <1>1, <1>2, EmptyIs DEF D!Init, DiffTyped
<1>4. todo["run"] = D!Nothing /\ todo["revert"] = D!Nothing /\ live = 0 /\ holder = D!Unset
      /\ idle = D!Nothing /\ view.run = 0 /\ net = D!NoChange /\ exact = TRUE
      BY <1>2 DEF D!Init, D!Storers
<1>5. DiffPlaceInv
      BY <1>4, EmptyIs DEF D!Init, DiffPlaceInv, RevertStages, D!Unset
<1>6. StoreInv
      BY <1>4 DEF D!Init, StoreInv
<1>7. NetInv
      BY <1>4, EmptyIs DEF NetInv
<1>8. ApartInv
      BY <1>4 DEF ApartInv
<1>9. UndoInv
      BY <1>4, EmptyIs DEF D!Init, UndoInv, Undoable
<1>. QED BY <1>3, <1>5, <1>6, <1>7, <1>8, <1>9 DEF DiffInv

-----------------------------------------------------------------------------
(* Steps that leave the files and the tracker alone.                       *)

(* What a run or a revert stores, and what is stored, as the trackers see  *)
(* it: nothing changes but the diff of the run that is stored. *)
Still == UNCHANGED <<disk, before, live, net, exact, changes>>

LEMMA StillNet ==
  ASSUME DiffInv, Still,
         live # 0 /\ todo'["run"].stage \in {"body", "record"} => todo'["run"].diff.files = net,
         live # 0 /\ (todo'["run"] = D!Nothing \/ todo'["run"].stage = "record") =>
           body'[live].files = net
  PROVE  NetInv'
<1>1. Made' = Made
      BY SameUsed DEF Still
<1>. QED BY <1>1 DEF DiffInv, NetInv, Still

LEMMA StillApart ==
  ASSUME DiffInv, Still,
         \A q \in DiffRuns : live # 0 /\ q # live => DiffsApart(body'[q].files),
         live # 0 /\ holder' = "revert" => DiffsApart(todo'["revert"].diff.files)
  PROVE  ApartInv'
      BY DEF ApartInv, DiffsApart, Still

LEMMA StillUndo ==
  ASSUME DiffInv, Still,
         \A q \in DiffRuns : Undoable(q, body'[q].files),
         holder' = "revert" => Undoable(todo'["revert"].run, todo'["revert"].diff.files)
  PROVE  UndoInv'
      BY DEF UndoInv, Undoable, Still

LEMMA PersistStep == ASSUME DiffConstants, DiffInv, D!Persist PROVE DiffInv'
<1>1. /\ todo["run"].stage = "body" /\ holder = D!Unset /\ holder' = "run"
      /\ UNCHANGED <<disk, live, shown, net, exact, status, summary, body, reconciled, todo,
                     idle, view, before, torn, changes, faults>>
      BY DEF D!Persist
<1>2. Still
      BY <1>1 DEF Still
<1>3. DiffTyped'
      BY <1>1, SameUsed DEF DiffInv, DiffTyped
<1>4. DiffPlaceInv'
      BY <1>1 DEF DiffInv, DiffPlaceInv, D!Unset
<1>5. StoreInv'
      BY <1>1 DEF DiffInv, StoreInv
<1>6. NetInv' /\ ApartInv' /\ UndoInv'
      BY <1>1, <1>2, StillNet, StillApart, StillUndo DEF DiffInv, NetInv, ApartInv, UndoInv
<1>. QED BY <1>3, <1>4, <1>5, <1>6 DEF DiffInv

(* The one that stores: what it is, and whose diff it stores. *)
LEMMA HolderIs ==
  ASSUME DiffConstants, DiffInv, holder # D!Unset, todo[holder].stage \in {"body", "record"}
  PROVE  /\ holder \in {"run", "revert"} /\ todo[holder] \in Jobs /\ todo[holder].run \in DiffRuns
         /\ holder = "run" => todo["run"].run = live
         /\ holder = "revert" => status[todo["revert"].run] = "over"
                                  /\ todo["revert"].run # live
         /\ status[todo[holder].run] # "new"
<1>1. holder \in {"run", "revert"} /\ todo[holder] \in Jobs
      BY DEF DiffInv, DiffTyped, D!Storers
<1>2. CASE holder = "run"
  <2>1. todo["run"].run = live /\ live # 0 /\ status[live] = "running"
    <3>1. todo["run"].stage \in {"body", "record"}
          BY <1>2
    <3>2. live # 0
          BY <3>1, EmptyIs DEF DiffInv, DiffPlaceInv, D!Unset
    <3>. QED BY <3>1, <3>2 DEF DiffInv, DiffPlaceInv
  <2>. QED BY <1>1, <1>2, <2>1 DEF DiffInv, DiffTyped
<1>3. CASE holder = "revert"
  <2>1. todo["revert"].run \in DiffRuns /\ status[todo["revert"].run] = "over"
        BY <1>3 DEF DiffInv, DiffPlaceInv
  <2>2. todo["revert"].run # live
        BY <2>1, Lengths DEF DiffInv, DiffPlaceInv
  <2>. QED BY <1>1, <1>3, <2>1, <2>2
<1>. QED BY <1>1, <1>2, <1>3

(* What is stored fits its run, and is nothing the run under way made. *)
LEMMA StoredFits ==
  ASSUME DiffConstants, DiffInv, holder # D!Unset, todo[holder].stage \in {"body", "record"}
  PROVE  /\ todo[holder].diff \in Diffs
         /\ Undoable(todo[holder].run, todo[holder].diff.files)
         /\ live # 0 /\ todo[holder].run # live => DiffsApart(todo[holder].diff.files)
<1>1. holder \in {"run", "revert"} /\ todo[holder] \in Jobs /\ todo[holder].diff \in Diffs
      BY HolderIs, JobFields
<1>2. CASE holder = "run"
  <2>1. todo["run"].run = live /\ live # 0 /\ todo["run"].stage \in {"body", "record"}
        BY <1>2, HolderIs, Lengths
  <2>2. todo["run"].diff.files = net
        BY <2>1 DEF DiffInv, NetInv
  <2>. QED BY <1>1, <1>2, <2>1, <2>2 DEF DiffInv, NetInv, Undoable
<1>3. CASE holder = "revert"
      BY <1>1, <1>3 DEF DiffInv, ApartInv, UndoInv
<1>. QED BY <1>1, <1>2, <1>3

LEMMA StoreBodyStep == ASSUME DiffConstants, DiffInv, D!StoreBody PROVE DiffInv'
<1> DEFINE j == [todo[holder] EXCEPT !.stage = "record"]
<1>1. PICK w \in D!Storers : w = holder
      BY Todos DEF D!StoreBody, DiffInv
<1>2. PICK r \in DiffRuns : r = todo[w].run
      BY <1>1, HolderIs DEF D!StoreBody
<1>3. /\ todo[w].stage = "body" /\ body' = [body EXCEPT ![r] = todo[w].diff] /\ D!Does(w, j)
      /\ UNCHANGED <<disk, live, shown, net, exact, status, summary, reconciled, holder, idle,
                     view, before, torn, changes, faults>>
      BY <1>1, <1>2 DEF D!StoreBody
<1>4. /\ todo[w] \in Jobs /\ j \in Jobs /\ j.run = r /\ j.stage = "record"
      /\ j.diff = todo[w].diff /\ j.path = todo[w].path
  <2>1. todo[w] \in Jobs /\ "record" \in RevertStages
        BY DEF DiffInv, DiffTyped, RevertStages
  <2>. QED BY <1>1, <1>2, <2>1, ToIs
<1>5. todo' \in [D!Storers -> Jobs] /\ todo'[w] = j /\ \A v \in D!Storers \ {w} : todo'[v] = todo[v]
      BY <1>3, <1>4, DoesIs DEF DiffInv, DiffTyped
<1> HIDE DEF j
<1>6. /\ todo[w].diff \in Diffs /\ body' \in [DiffRuns -> Diffs] /\ body'[r] = todo[w].diff
      /\ \A q \in DiffRuns \ {r} : body'[q] = body[q]
      BY <1>3, <1>4, JobFields DEF DiffInv, DiffTyped
<1>7. /\ w = "run" => r = live
      /\ w = "revert" => status[r] = "over" /\ r # live
      /\ status[r] # "new"
      BY <1>1, <1>2, <1>3, HolderIs DEF D!Unset, D!Storers
<1>8. Still
      BY <1>3 DEF Still
<1>9. DiffTyped'
      BY <1>3, <1>5, <1>6, SameUsed DEF DiffInv, DiffTyped
<1>10. DiffPlaceInv'
  <2>1. CASE w = "run"
    <3>1. todo'["run"].stage = "record" /\ todo'["run"].run = live
          /\ todo'["revert"] = todo["revert"] /\ live # 0
          BY <2>1, <1>4, <1>5, <1>7, Lengths DEF D!Storers
    <3>. QED BY <2>1, <3>1, <1>1, <1>3, <1>6, <1>7 DEF DiffInv, DiffPlaceInv, D!Unset
  <2>2. CASE w = "revert"
    <3>1. todo'["revert"].stage = "record" /\ todo'["revert"].run = r /\ todo'["run"] = todo["run"]
          BY <2>2, <1>4, <1>5 DEF D!Storers
    <3>. QED BY <2>2, <3>1, <1>1, <1>3, <1>6, <1>7 DEF DiffInv, DiffPlaceInv, D!Unset,
                RevertStages
  <2>. QED BY <2>1, <2>2 DEF D!Storers
<1>11. StoreInv'
  <2>1. /\ holder' = w /\ todo'[w].stage = "record" /\ todo'[w].run = r
        /\ body'[r] = todo'[w].diff
        BY <1>1, <1>3, <1>4, <1>5, <1>6
  <2>2. reconciled' => \A q \in DiffRuns \ (torn' \cup {r}) : summary'[q] = body'[q]
        BY <1>1, <1>3, <1>6 DEF DiffInv, StoreInv
  <2>3. holder' # D!Unset
        BY <1>1, <1>3 DEF D!Storers, D!Unset
  <2>. QED BY <2>1, <2>2, <2>3 DEF StoreInv
<1>12. NetInv'
  <2>1. CASE w = "run"
        BY <2>1, <1>3, <1>4, <1>5, <1>6, <1>7, <1>8, StillNet, Lengths DEF DiffInv, NetInv
  <2>2. CASE w = "revert"
    <3>1. todo'["run"] = todo["run"]
          BY <2>2, <1>5 DEF D!Storers
    <3>2. live # 0 => body'[live] = body[live]
          BY <2>2, <1>6, <1>7 DEF DiffInv, DiffTyped
    <3>. QED BY <3>1, <3>2, <1>8, StillNet DEF DiffInv, NetInv
  <2>. QED BY <2>1, <2>2 DEF D!Storers
<1>13. ApartInv'
  <2>1. ASSUME NEW q \in DiffRuns, live # 0, q # live PROVE DiffsApart(body'[q].files)
    <3>1. CASE q = r
          BY <2>1, <3>1, <1>1, <1>2, <1>3, <1>6, StoredFits DEF D!Storers, D!Unset
    <3>. QED BY <2>1, <3>1, <1>6 DEF DiffInv, ApartInv
  <2>2. ASSUME live # 0, holder' = "revert" PROVE DiffsApart(todo'["revert"].diff.files)
        BY <2>2, <1>1, <1>3, <1>4, <1>5 DEF DiffInv, ApartInv
  <2>. QED BY <2>1, <2>2, <1>8, StillApart
<1>14. UndoInv'
  <2>1. Undoable(r, todo[w].diff.files)
        BY <1>1, <1>2, <1>3, StoredFits DEF D!Storers, D!Unset
  <2>2. ASSUME NEW q \in DiffRuns PROVE Undoable(q, body'[q].files)
        BY <2>1, <1>6 DEF DiffInv, UndoInv
  <2>3. holder' = "revert" => Undoable(todo'["revert"].run, todo'["revert"].diff.files)
        BY <1>1, <1>2, <1>3, <1>4, <1>5 DEF DiffInv, UndoInv
  <2>. QED BY <2>2, <2>3, <1>8, StillUndo
<1>. QED BY <1>9, <1>10, <1>11, <1>12, <1>13, <1>14 DEF DiffInv

(* The lock is given back, with what there was to store: all of it, or not. *)
LEMMA FreeStep ==
  ASSUME DiffConstants, DiffInv, holder # D!Unset, todo[holder].stage \in {"body", "record"},
         NEW j \in Jobs, D!Does(holder, j), D!Free,
         holder = "run" => (j = D!Nothing /\ todo["run"].stage = "record") \/ j.stage = "failed",
         holder = "revert" => j = D!Nothing,
         Still, UNCHANGED <<status, idle, view>>,
         summary' \in [DiffRuns -> Diffs], body' \in [DiffRuns -> Diffs], shown' \in Nat,
         reconciled' \in BOOLEAN, faults' \in 0..MaxFaults, torn' \subseteq DiffRuns,
         \A q \in DiffRuns : summary'[q] = summary[q] \/ q = todo[holder].run,
         \A q \in DiffRuns : body'[q] = body[q]
                             \/ (q = todo[holder].run /\ body'[q] = todo[holder].diff),
         reconciled' => \A q \in DiffRuns \ torn' : summary'[q] = body'[q]
  PROVE  DiffInv'
<1>1. PICK w \in D!Storers : w = holder
      BY Todos DEF DiffInv
<1>2. todo' \in [D!Storers -> Jobs] /\ todo'[w] = j /\ \A v \in D!Storers \ {w} : todo'[v] = todo[v]
      BY <1>1, DoesIs DEF DiffInv, DiffTyped
<1>3. holder' = D!Unset
      BY DEF D!Free
<1>4. DiffTyped'
      BY <1>2, <1>3, SameUsed DEF DiffInv, DiffTyped, Still
<1>5. status[todo[holder].run] # "new"
      BY HolderIs
<1>6. DiffPlaceInv'
  <2>1. \A q \in DiffRuns : status[q] = "new" => summary'[q] = summary[q] /\ body'[q] = body[q]
        BY <1>5
  <2>2. CASE w = "run"
    <3>1. todo'["run"] = j /\ todo'["revert"] = todo["revert"] /\ todo["revert"].stage = D!Unset
          BY <2>2, <1>1, <1>2 DEF D!Storers, DiffInv, DiffPlaceInv
    <3>2. /\ live # 0
          /\ todo'["run"].stage \in {D!Unset, "failed"}
      <4>1. live # 0
            BY <2>2, <1>1, HolderIs, Lengths
      <4>. QED BY <4>1, <3>1, <2>2, <1>1, EmptyIs DEF DiffInv, DiffPlaceInv
    <3>. QED BY <2>1, <3>1, <3>2, <1>3 DEF DiffInv, DiffPlaceInv, Still, D!Unset
  <2>3. CASE w = "revert"
    <3>1. todo'["revert"] = D!Nothing /\ todo'["run"] = todo["run"]
          BY <2>3, <1>1, <1>2 DEF D!Storers
    <3>. QED BY <2>1, <2>3, <3>1, <1>1, <1>3, EmptyIs DEF DiffInv, DiffPlaceInv, Still, D!Unset
  <2>. QED BY <2>2, <2>3 DEF D!Storers
<1>7. StoreInv'
      BY <1>3 DEF StoreInv
<1>8. NetInv'
  <2>1. CASE w = "run"
    <3>1. todo'["run"] = j
          BY <2>1, <1>2
    <3>2. (j = D!Nothing /\ todo["run"].stage = "record") \/ j.stage = "failed"
          BY <1>1, <2>1
    <3>3. live # 0 /\ todo["run"].stage = "record" => body'[live] = body[live]
          BY <2>1, <1>1, HolderIs DEF DiffInv, DiffTyped, StoreInv
    <3>. QED BY <3>1, <3>2, <3>3, StillNet, EmptyIs DEF DiffInv, NetInv, D!Unset
  <2>2. CASE w = "revert"
    <3>1. live # 0 => body'[live] = body[live]
          BY <2>2, <1>1, HolderIs DEF DiffInv, DiffTyped
    <3>. QED BY <2>2, <3>1, <1>2, StillNet DEF DiffInv, NetInv, D!Storers
  <2>. QED BY <2>1, <2>2 DEF D!Storers
<1>9. ApartInv'
  <2>1. ASSUME NEW q \in DiffRuns, live # 0, q # live PROVE DiffsApart(body'[q].files)
        BY <2>1, StoredFits DEF DiffInv, ApartInv
  <2>. QED BY <1>3, <2>1, StillApart DEF D!Unset
<1>10. UndoInv'
  <2>1. ASSUME NEW q \in DiffRuns PROVE Undoable(q, body'[q].files)
        BY <2>1, StoredFits DEF DiffInv, UndoInv
  <2>. QED BY <1>3, <2>1, StillUndo DEF D!Unset
<1>. QED BY <1>4, <1>6, <1>7, <1>8, <1>9, <1>10 DEF DiffInv

LEMMA StoreRecordStep == ASSUME DiffConstants, DiffInv, D!StoreRecord PROVE DiffInv'
<1>1. PICK w \in D!Storers : w = holder /\ holder # D!Unset
      BY Todos DEF D!StoreRecord, DiffInv
<1>2. PICK r \in DiffRuns : r = todo[w].run
      BY <1>1, HolderIs DEF D!StoreRecord
<1>3. /\ todo[w].stage = "record" /\ summary' = [summary EXCEPT ![r] = todo[w].diff]
      /\ shown' = IF w = "run" THEN todo[w].diff.rev ELSE shown
      /\ torn' = torn \ {r}
      /\ D!Free /\ D!Does(holder, D!Nothing)
      /\ UNCHANGED <<disk, live, net, exact, status, body, reconciled, idle, view, before,
                     changes, faults>>
      BY <1>1, <1>2 DEF D!StoreRecord
<1>4. todo[w].diff \in Diffs /\ todo[w].diff = body[r]
      BY <1>1, <1>2, <1>3, JobFields DEF DiffInv, DiffTyped, StoreInv
<1>5. /\ summary' \in [DiffRuns -> Diffs] /\ summary'[r] = body[r] /\ shown' \in Nat
      /\ \A q \in DiffRuns \ {r} : summary'[q] = summary[q]
      BY <1>3, <1>4, DiffFields DEF DiffInv, DiffTyped
<1>6. reconciled' => \A q \in DiffRuns \ torn' : summary'[q] = body'[q]
      BY <1>1, <1>2, <1>3, <1>5 DEF DiffInv, StoreInv
<1>7. /\ Still /\ faults' \in 0..MaxFaults /\ reconciled' \in BOOLEAN
      /\ torn' \subseteq DiffRuns /\ body' \in [DiffRuns -> Diffs]
      BY <1>3 DEF Still, DiffInv, DiffTyped
<1>8. holder = "run" => todo["run"].stage = "record"
      BY <1>1, <1>3
<1>. QED BY <1>1, <1>2, <1>3, <1>5, <1>6, <1>7, <1>8, FreeStep, EmptyIs

LEMMA StoreFailsStep == ASSUME DiffConstants, DiffInv, D!StoreFails PROVE DiffInv'
<1> DEFINE f == [D!Nothing EXCEPT !.stage = "failed"]
<1>1. f \in Jobs /\ f.stage = "failed"
      BY EmptyIs, ToIs
<1> HIDE DEF f
<1>2. PICK j \in Jobs : j = IF holder = "run" THEN f ELSE D!Nothing
      BY <1>1, EmptyIs
<1>3. /\ holder # D!Unset /\ todo[holder].stage \in {"body", "record"}
      /\ faults < MaxFaults /\ faults' = faults + 1
      /\ D!Free /\ D!Does(holder, j)
      /\ UNCHANGED <<disk, live, shown, net, exact, status, idle, view, before, changes>>
      BY <1>2 DEF D!StoreFails, f
<1>4. PICK r \in DiffRuns : r = todo[holder].run
      BY <1>3, HolderIs
<1>5. todo[holder].diff \in Diffs
      BY <1>3, StoredFits
<1>6. \/ /\ todo[holder].stage = "body"
         /\ body' \in {body, [body EXCEPT ![r] = todo[holder].diff]}
         /\ torn' = torn \cup {r} /\ UNCHANGED <<summary, reconciled>>
      \/ /\ summary' \in {summary, [summary EXCEPT ![r] = todo[holder].diff]}
         /\ reconciled' = FALSE /\ UNCHANGED <<body, torn>>
      BY <1>4 DEF D!StoreFails, D!AfterFailure, D!MayHave
<1>7. /\ Still /\ shown' \in Nat /\ reconciled' \in BOOLEAN /\ torn' \subseteq DiffRuns
      /\ summary' \in [DiffRuns -> Diffs] /\ body' \in [DiffRuns -> Diffs]
      BY <1>3, <1>4, <1>5, <1>6 DEF Still, DiffInv, DiffTyped
<1>8. /\ \A q \in DiffRuns : summary'[q] = summary[q] \/ q = r
      /\ \A q \in DiffRuns : body'[q] = body[q] \/ (q = r /\ body'[q] = todo[holder].diff)
      BY <1>5, <1>6 DEF DiffInv, DiffTyped
<1>9. faults' \in 0..MaxFaults
      BY <1>3, Lengths DEF DiffInv, DiffTyped
<1>10. reconciled' => \A q \in DiffRuns \ torn' : summary'[q] = body'[q]
  <2> SUFFICES ASSUME reconciled', NEW q \in DiffRuns \ torn' PROVE summary'[q] = body'[q]
      OBVIOUS
  <2>1. /\ todo[holder].stage = "body" /\ torn' = torn \cup {r} /\ q # r /\ q \notin torn
        /\ reconciled /\ summary' = summary
        BY <1>6
  <2>. QED BY <2>1, <1>8 DEF DiffInv, StoreInv
<1>. QED BY <1>1, <1>2, <1>3, <1>4, <1>7, <1>8, <1>9, <1>10, FreeStep

LEMMA AdoptedIs ==
  ASSUME DiffInv
  PROVE  D!Adopted \in [DiffRuns -> Diffs] /\ \A q \in DiffRuns : D!Adopted[q] = body[q]
<1>1. \A q \in DiffRuns : status[q] = "new" => summary[q] = body[q]
      BY DEF DiffInv, DiffPlaceInv
<1>. QED BY <1>1 DEF D!Adopted, DiffInv, DiffTyped

LEMMA ReconcileIs ==
  ASSUME DiffInv, D!Reconcile, holder = D!Unset
  PROVE  /\ summary' \in [DiffRuns -> Diffs] /\ reconciled' = TRUE /\ torn' \subseteq DiffRuns
         /\ \A q \in DiffRuns \ torn' : summary'[q] = body[q]
         /\ \A q \in DiffRuns : status[q] = "new" => summary'[q] = summary[q]
      BY AdoptedIs DEF D!Reconcile, DiffInv, DiffTyped, DiffPlaceInv, StoreInv

LEMMA ReconcileFailsStep == ASSUME DiffConstants, DiffInv, D!ReconcileFails PROVE DiffInv'
<1>1. /\ holder = D!Unset /\ ~reconciled /\ faults < MaxFaults /\ faults' = faults + 1
      /\ summary' = D!Adopted
      /\ UNCHANGED <<disk, live, shown, net, exact, status, body, reconciled, holder, todo,
                     idle, view, before, torn, changes>>
      BY DEF D!ReconcileFails
<1>2. /\ summary' \in [DiffRuns -> Diffs]
      /\ \A q \in DiffRuns : status[q] = "new" => summary'[q] = summary[q]
      BY <1>1, AdoptedIs DEF DiffInv, DiffPlaceInv
<1>3. Still /\ faults' \in 0..MaxFaults
      BY <1>1, Lengths DEF Still, DiffInv, DiffTyped
<1>4. DiffTyped'
      BY <1>1, <1>2, <1>3, SameUsed DEF DiffInv, DiffTyped
<1>5. DiffPlaceInv'
      BY <1>1, <1>2 DEF DiffInv, DiffPlaceInv
<1>6. StoreInv'
      BY <1>1 DEF StoreInv
<1>7. NetInv' /\ ApartInv' /\ UndoInv'
      BY <1>1, <1>3, StillNet, StillApart, StillUndo DEF DiffInv, NetInv, ApartInv, UndoInv
<1>. QED BY <1>4, <1>5, <1>6, <1>7 DEF DiffInv

LEMMA LookStep == ASSUME DiffConstants, DiffInv, NEW r \in DiffRuns, D!Look(r) PROVE DiffInv'
<1>1. /\ holder = D!Unset /\ status[r] # "new" /\ D!Reconcile /\ status' = D!Interrupted
      /\ view' = IF summary'[r] = D!NoDiff THEN D!NoView ELSE [run |-> r, diff |-> summary'[r]]
      /\ UNCHANGED <<disk, live, shown, net, exact, body, holder, todo, idle, before, changes,
                     faults>>
      BY DEF D!Look
<1>2. /\ summary' \in [DiffRuns -> Diffs] /\ reconciled' = TRUE /\ torn' \subseteq DiffRuns
      /\ \A q \in DiffRuns \ torn' : summary'[q] = body[q]
      /\ \A q \in DiffRuns : status[q] = "new" => summary'[q] = summary[q]
      BY <1>1, ReconcileIs
<1>3. /\ status' \in [DiffRuns -> {"new", "running", "over"}]
      /\ \A q \in DiffRuns : (status'[q] = "new" <=> status[q] = "new")
      /\ \A q \in DiffRuns : status[q] = "over" => status'[q] = "over"
      /\ live # 0 => status'[live] = status[live]
      BY <1>1, Lengths DEF D!Interrupted, DiffInv, DiffTyped, DiffPlaceInv
<1>4. view' \in [run : DiffRuns \cup {0}, diff : Diffs] /\ view'.run \in {0, r}
      BY <1>1, <1>2, EmptyIs DEF D!NoView
<1>5. Still
      BY <1>1 DEF Still
<1>6. DiffTyped'
      BY <1>1, <1>2, <1>3, <1>4, SameUsed DEF DiffInv, DiffTyped
<1>7. DiffPlaceInv'
  <2>1. \A q \in DiffRuns : status'[q] = "new" => summary'[q] = summary[q]
        BY <1>2, <1>3 DEF DiffInv, DiffPlaceInv
  <2>. QED BY <2>1, <1>1, <1>3, <1>4 DEF DiffInv, DiffPlaceInv, D!Unset
<1>8. StoreInv'
      BY <1>1, <1>2 DEF StoreInv
<1>9. NetInv' /\ ApartInv' /\ UndoInv'
      BY <1>1, <1>5, StillNet, StillApart, StillUndo DEF DiffInv, NetInv, ApartInv, UndoInv
<1>. QED BY <1>6, <1>7, <1>8, <1>9 DEF DiffInv

LEMMA RevertStep == ASSUME DiffConstants, DiffInv, NEW p \in Paths, D!Revert(p) PROVE DiffInv'
<1>1. /\ view.run # 0 /\ view' = D!NoView
      /\ idle' = [run |-> view.run, stage |-> D!Unset, diff |-> view.diff, path |-> p]
      /\ UNCHANGED <<disk, live, shown, net, exact, status, summary, body, reconciled, holder,
                     todo, before, torn, changes, faults>>
      BY DEF D!Revert
<1>2. /\ idle' \in Jobs /\ idle'.run \in DiffRuns /\ status[idle'.run] # "new" /\ idle'.path \in Paths
      BY <1>1 DEF DiffInv, DiffTyped, DiffPlaceInv, Jobs
<1>3. view' \in [run : DiffRuns \cup {0}, diff : Diffs] /\ view'.run = 0
      BY <1>1, EmptyIs DEF D!NoView
<1>4. Still
      BY <1>1 DEF Still
<1>5. DiffTyped'
      BY <1>1, <1>2, <1>3, SameUsed DEF DiffInv, DiffTyped
<1>6. DiffPlaceInv'
      BY <1>1, <1>2, <1>3 DEF DiffInv, DiffPlaceInv
<1>7. StoreInv'
      BY <1>1 DEF DiffInv, StoreInv
<1>8. NetInv' /\ ApartInv' /\ UndoInv'
      BY <1>1, <1>4, StillNet, StillApart, StillUndo DEF DiffInv, NetInv, ApartInv, UndoInv
<1>. QED BY <1>5, <1>6, <1>7, <1>8 DEF DiffInv

LEMMA RevertChecksStep == ASSUME DiffConstants, DiffInv, D!RevertChecks PROVE DiffInv'
<1>1. /\ idle # D!Nothing /\ holder = D!Unset /\ D!Reconcile /\ idle' = D!Nothing
      /\ UNCHANGED <<disk, live, shown, net, exact, status, body, view, before, changes, faults>>
      BY DEF D!RevertChecks
<1>2. /\ summary' \in [DiffRuns -> Diffs] /\ reconciled' = TRUE /\ torn' \subseteq DiffRuns
      /\ \A q \in DiffRuns \ torn' : summary'[q] = body[q]
      /\ \A q \in DiffRuns : status[q] = "new" => summary'[q] = summary[q]
      BY <1>1, ReconcileIs
<1>3. Still
      BY <1>1 DEF Still
<1>4. \A q \in DiffRuns : status[q] = "new" => summary'[q] = summary[q]
      BY <1>2
<1>5. CASE UNCHANGED <<holder, todo>>
  <2>1. DiffTyped'
        BY <1>1, <1>2, <1>5, SameUsed, EmptyIs DEF DiffInv, DiffTyped
  <2>2. DiffPlaceInv'
        BY <1>1, <1>4, <1>5 DEF DiffInv, DiffPlaceInv
  <2>3. StoreInv'
        BY <1>1, <1>2, <1>5 DEF StoreInv
  <2>4. NetInv' /\ ApartInv' /\ UndoInv'
        BY <1>1, <1>3, <1>5, StillNet, StillApart, StillUndo
           DEF DiffInv, NetInv, ApartInv, UndoInv
  <2>. QED BY <2>1, <2>2, <2>3, <2>4 DEF DiffInv
<1>6. CASE ~UNCHANGED <<holder, todo>>
  <2> DEFINE j == [idle EXCEPT !.stage = "file", !.diff = body[idle.run]]
  <2>1. PICK r \in DiffRuns : r = idle.run
        BY <1>1 DEF DiffInv, DiffPlaceInv
  <2>2. /\ ~D!RevertRefused /\ holder' = "revert" /\ D!Does("revert", j)
        BY <1>6 DEF D!RevertChecks
  <2>3. /\ status[r] = "over" /\ body[r].files[idle.path] # D!NoFile /\ idle.path \in Paths
        BY <1>1, <2>1, <2>2 DEF D!RevertRefused, DiffInv, DiffPlaceInv, DiffTyped
  <2>4. /\ j \in Jobs /\ j.run = r /\ j.stage = "file" /\ j.diff = body[r] /\ j.path = idle.path
    <3>1. idle \in Jobs /\ body[r] \in Diffs /\ "file" \in RevertStages
          BY DEF DiffInv, DiffTyped, RevertStages
    <3>2. j = [idle EXCEPT !.stage = "file", !.diff = body[r]]
          BY <2>1
    <3>. QED BY <2>1, <3>1, <3>2 DEF Jobs
  <2> HIDE DEF j
  <2>5. /\ todo' \in [D!Storers -> Jobs] /\ todo'["revert"] = j /\ todo'["run"] = todo["run"]
        BY <2>2, <2>4, DoesIs DEF DiffInv, DiffTyped, D!Storers
  <2>6. DiffTyped'
        BY <1>1, <1>2, <2>2, <2>5, SameUsed, EmptyIs DEF DiffInv, DiffTyped
  <2>7. DiffPlaceInv'
        BY <1>1, <1>4, <2>2, <2>3, <2>4, <2>5 DEF DiffInv, DiffPlaceInv, RevertStages, D!Unset
  <2>8. StoreInv'
        BY <1>1, <1>2, <2>2, <2>4, <2>5 DEF StoreInv
  <2>9. r # live
        BY <2>3, Lengths DEF DiffInv, DiffPlaceInv
  <2>10. NetInv'
        BY <1>1, <1>3, <2>5, StillNet DEF DiffInv, NetInv
  <2>11. ApartInv'
        BY <1>1, <1>3, <2>4, <2>5, <2>9, StillApart DEF DiffInv, ApartInv
  <2>12. UndoInv'
        BY <1>1, <1>3, <2>4, <2>5, StillUndo DEF DiffInv, UndoInv
  <2>. QED BY <2>6, <2>7, <2>8, <2>10, <2>11, <2>12 DEF DiffInv
<1>. QED BY <1>5, <1>6

-----------------------------------------------------------------------------
(* A run begins and ends.                                                  *)
LEMMA StartRunStep ==
  ASSUME DiffConstants, DiffInv, NEW r \in DiffRuns, D!StartRun(r) PROVE DiffInv'
<1>1. /\ live = 0 /\ status[r] = "new" /\ live' = r
      /\ status' = [status EXCEPT ![r] = "running"]
      /\ shown' = 0 /\ net' = D!NoChange /\ exact' = TRUE
      /\ UNCHANGED <<disk, summary, body, reconciled, holder, todo, idle, view, before, torn, changes,
                     faults>>
      BY DEF D!StartRun
<1>2. /\ status' \in [DiffRuns -> {"new", "running", "over"}] /\ status'[r] = "running"
      /\ \A q \in DiffRuns \ {r} : status'[q] = status[q]
      BY <1>1 DEF DiffInv, DiffTyped
<1>3. /\ body[r].files = D!NoChange /\ (\A p \in Paths : before[r][p] = disk[p])
      /\ todo["run"] = D!Nothing /\ r # 0
      BY <1>1, EmptyIs, Lengths DEF DiffInv, DiffPlaceInv
<1>4. DiffTyped'
      BY <1>1, <1>2, SameUsed, EmptyIs DEF DiffInv, DiffTyped
<1>5. DiffPlaceInv'
  <2>1. \A q \in DiffRuns : status[q] # "new" => status'[q] = status[q]
        BY <1>1, <1>2
  <2>2. \A q \in DiffRuns : status'[q] = "new" => status[q] = "new"
        BY <1>2
  <2>3. view.run \in DiffRuns \cup {0}
        BY DEF DiffInv, DiffTyped
  <2>. QED BY <1>1, <1>2, <1>3, <2>1, <2>2, <2>3, EmptyIs DEF DiffInv, DiffPlaceInv, D!Unset
<1>6. StoreInv'
      BY <1>1 DEF DiffInv, StoreInv
<1>7. NetInv'
      BY <1>1, <1>3, EmptyIs DEF NetInv, D!Unset
<1>8. ApartInv'
      BY <1>1, EmptyIs DEF ApartInv, DiffsApart
<1>9. UndoInv'
      BY <1>1 DEF DiffInv, UndoInv, Undoable
<1>. QED BY <1>4, <1>5, <1>6, <1>7, <1>8, <1>9 DEF DiffInv

LEMMA EndRunStep == ASSUME DiffConstants, DiffInv, D!EndRun PROVE DiffInv'
<1>1. /\ live # 0 /\ holder = D!Unset /\ D!Does("run", D!Nothing)
      /\ status' = [status EXCEPT ![live] = "over"]
      /\ live' = 0 /\ shown' = 0 /\ net' = D!NoChange /\ exact' = TRUE
      /\ UNCHANGED <<disk, summary, body, reconciled, holder, idle, view, before, torn, changes, faults>>
      BY DEF D!EndRun
<1>2. PICK r \in DiffRuns : r = live
      BY <1>1 DEF DiffInv, DiffTyped
<1>3. /\ status' \in [DiffRuns -> {"new", "running", "over"}] /\ status'[r] = "over"
      /\ status[r] = "running"
      /\ \A q \in DiffRuns \ {r} : status'[q] = status[q]
      BY <1>1, <1>2 DEF DiffInv, DiffTyped, DiffPlaceInv
<1>4. todo' \in [D!Storers -> Jobs] /\ todo'["run"] = D!Nothing /\ todo'["revert"] = todo["revert"]
      BY <1>1, DoesIs, EmptyIs DEF DiffInv, DiffTyped, D!Storers
<1>5. DiffTyped'
      BY <1>1, <1>3, <1>4, SameUsed, EmptyIs DEF DiffInv, DiffTyped
<1>6. DiffPlaceInv'
  <2>1. \A q \in DiffRuns : (status'[q] = "new" <=> status[q] = "new")
        BY <1>3
  <2>2. view.run \in DiffRuns \cup {0}
        BY DEF DiffInv, DiffTyped
  <2>. QED BY <1>1, <1>4, <2>1, <2>2, EmptyIs DEF DiffInv, DiffPlaceInv, D!Unset
<1>7. StoreInv'
      BY <1>1 DEF DiffInv, StoreInv
<1>8. NetInv' /\ ApartInv'
      BY <1>1, EmptyIs DEF NetInv, ApartInv
<1>9. UndoInv'
      BY <1>1, <1>4 DEF DiffInv, UndoInv, Undoable
<1>. QED BY <1>5, <1>6, <1>7, <1>8, <1>9 DEF DiffInv

LEMMA DiffRestartStep == ASSUME DiffConstants, DiffInv, D!Restart PROVE DiffInv'
<1>1. /\ live' = 0 /\ shown' = 0 /\ net' = D!NoChange /\ exact' = TRUE /\ reconciled' = FALSE
      /\ holder' = D!Unset /\ todo' = [w \in D!Storers |-> D!Nothing] /\ idle' = D!Nothing
      /\ faults < MaxFaults /\ faults' = faults + 1
      /\ UNCHANGED <<disk, status, summary, body, view, before, torn, changes>>
      BY DEF D!Restart, D!Free
<1>2. /\ todo' \in [D!Storers -> Jobs] /\ todo'["run"] = D!Nothing /\ todo'["revert"] = D!Nothing
      BY <1>1, EmptyIs DEF D!Storers
<1>3. faults' \in 0..MaxFaults
      BY <1>1, Lengths DEF DiffInv, DiffTyped
<1>4. DiffTyped'
      BY <1>1, <1>2, <1>3, SameUsed, EmptyIs DEF DiffInv, DiffTyped
<1>5. DiffPlaceInv'
      BY <1>1, <1>2, EmptyIs DEF DiffInv, DiffPlaceInv, D!Unset
<1>6. StoreInv' /\ NetInv' /\ ApartInv'
      BY <1>1, EmptyIs DEF StoreInv, NetInv, ApartInv
<1>7. UndoInv'
      BY <1>1 DEF DiffInv, UndoInv, Undoable, D!Unset
<1>. QED BY <1>4, <1>5, <1>6, <1>7 DEF DiffInv

-----------------------------------------------------------------------------
(* Files change.                                                           *)

(* Another than the run under way puts c at p: what the run made is gone,  *)
(* and every run finds c as what another left. *)
LEMMA OtherWrites ==
  ASSUME DiffConstants, DiffInv, NEW p \in Paths, NEW c \in Used,
         disk' = [disk EXCEPT ![p] = c], D!LeftBy(0, p, c),
         live # 0 /\ net[p] # D!NoFile => net[p].new # c,
         todo' \in [D!Storers -> Jobs], todo'["run"] = todo["run"],
         UNCHANGED <<live, net, exact, body, changes>>,
         holder' = "revert" => holder = "revert" /\ todo'["revert"].run = todo["revert"].run,
         holder' = "revert" => \A q \in Paths :
           todo'["revert"].diff.files[q] \in {D!NoFile, todo["revert"].diff.files[q]}
  PROVE  /\ disk' \in [Paths -> Used] /\ before' \in [DiffRuns -> [Paths -> Used]]
         /\ \A r \in DiffRuns : (\A q \in Paths : before[r][q] = disk[q])
                               => (\A q \in Paths : before'[r][q] = disk'[q])
         /\ NetInv' /\ ApartInv' /\ UndoInv'
<1>1. /\ \A r \in DiffRuns, q \in Paths : before'[r][q] = IF q = p THEN c ELSE before[r][q]
      /\ before' \in [DiffRuns -> [Paths -> Used]]
      BY Lengths DEF D!LeftBy, DiffInv, DiffTyped
<1>2. disk' \in [Paths -> Used] /\ \A q \in Paths : disk'[q] = IF q = p THEN c ELSE disk[q]
      BY DEF DiffInv, DiffTyped
<1>3. live \in DiffRuns \cup {0} /\ Made' = Made
      BY SameUsed DEF DiffInv, DiffTyped
<1>4. NetInv'
      BY <1>1, <1>2, <1>3 DEF DiffInv, NetInv
<1>5. ApartInv'
  <2>1. ASSUME live # 0, holder' = "revert" PROVE DiffsApart(todo'["revert"].diff.files)
    <3> SUFFICES ASSUME NEW s \in Paths, NEW q \in Paths, net[s] # D!NoFile
                 PROVE  todo'["revert"].diff.files[q].old # net[s].new
        BY DEF DiffsApart
    <3>1. todo["revert"].diff.files[q].old # net[s].new
          BY <2>1 DEF DiffInv, ApartInv, DiffsApart
    <3>2. net[s].new # D!NoFile.old
      <4>1. net[s].new \in Made /\ D!Unset \notin Made
            BY NotUnset DEF DiffInv, NetInv, DiffTyped
      <4>. QED BY <4>1, NoFileFields
    <3>. QED BY <2>1, <3>1, <3>2
  <2>. QED BY <2>1 DEF DiffInv, ApartInv, DiffsApart
<1>6. ASSUME NEW r \in DiffRuns, NEW files, NEW new,
             Undoable(r, files), \A q \in Paths : new[q] \in {D!NoFile, files[q]}
      PROVE  \A q \in Paths : new[q] # D!NoFile /\ disk'[q] = new[q].new
                                => before'[r][q] \in {new[q].old, new[q].new}
      BY <1>1, <1>2, <1>6 DEF Undoable
<1>7. UndoInv'
  <2>1. ASSUME NEW r \in DiffRuns PROVE Undoable(r, body[r].files)'
    <3>1. Undoable(r, body[r].files)
          BY DEF DiffInv, UndoInv
    <3>. QED BY <3>1, <1>6 DEF Undoable
  <2>2. ASSUME holder' = "revert"
        PROVE  Undoable(todo["revert"].run, todo["revert"].diff.files)'
    <3>1. Undoable(todo["revert"].run, todo["revert"].diff.files)
          /\ todo["revert"].run \in DiffRuns /\ todo'["revert"].run = todo["revert"].run
          BY <2>2 DEF DiffInv, UndoInv, DiffPlaceInv
    <3>. QED BY <2>2, <3>1, <1>6 DEF Undoable
  <2>. QED BY <2>1, <2>2 DEF UndoInv
<1>. QED BY <1>1, <1>2, <1>4, <1>5, <1>7

LEMMA DiffEditStep == ASSUME DiffConstants, DiffInv, NEW p \in Paths, D!Edit(p) PROVE DiffInv'
<1>1. /\ disk' = [disk EXCEPT ![p] = Edited] /\ D!LeftBy(0, p, Edited)
      /\ UNCHANGED <<live, shown, net, exact, status, summary, body, reconciled, holder, todo,
                     idle, view, torn, changes, faults>>
      BY DEF D!Edit
<1>2. Edited \in Used /\ (net[p] # D!NoFile => net[p].new # Edited)
      BY NotUnset DEF DiffInv, NetInv, DiffTyped, Used
<1>3. todo \in [D!Storers -> Jobs]
      BY DEF DiffInv, DiffTyped
<1>4. /\ disk' \in [Paths -> Used] /\ before' \in [DiffRuns -> [Paths -> Used]]
      /\ \A r \in DiffRuns : (\A q \in Paths : before[r][q] = disk[q])
                            => (\A q \in Paths : before'[r][q] = disk'[q])
      /\ NetInv' /\ ApartInv' /\ UndoInv'
      BY <1>1, <1>2, <1>3, OtherWrites
<1>5. DiffTyped'
      BY <1>1, <1>4, SameUsed DEF DiffInv, DiffTyped
<1>6. DiffPlaceInv'
      BY <1>1, <1>4 DEF DiffInv, DiffPlaceInv
<1>7. StoreInv'
      BY <1>1 DEF DiffInv, StoreInv
<1>. QED BY <1>4, <1>5, <1>6, <1>7 DEF DiffInv

(* What a revert gives back was found by its run, and is still what it left *)
(* there, or another put that there again. *)
LEMMA RevertFileStep == ASSUME DiffConstants, DiffInv, D!RevertFile PROVE DiffInv'
<1>1. PICK p \in Paths : p = todo["revert"].path
      BY DEF D!RevertFile, DiffInv, DiffPlaceInv, RevertStages, D!Unset
<1>2. PICK d \in Diffs : d = todo["revert"].diff
      BY Todos, JobFields DEF DiffInv
<1>3. /\ todo["revert"].stage = "file" /\ holder = "revert" /\ d.files[p] # D!NoFile
      /\ d.files \in FileSets /\ d.rev \in Nat
      BY <1>1, <1>2, DiffFields DEF D!RevertFile, DiffInv, DiffPlaceInv, D!Unset
<1>4. UNCHANGED <<live, shown, net, exact, status, summary, body, reconciled, idle, view,
                  torn, changes, faults>>
      BY DEF D!RevertFile
<1>5. todo \in [D!Storers -> Jobs] /\ "revert" \in D!Storers /\ "run" \in D!Storers
      /\ todo["revert"] \in Jobs
      BY DEF DiffInv, DiffTyped, D!Storers
<1>6. CASE D!Unchanged(p)
  <2> DEFINE rest == [d.files EXCEPT ![p] = D!NoFile]
             j == [todo["revert"] EXCEPT !.stage = "body", !.diff = D!Diff(d.rev + 1, rest)]
  <2>1. rest \in FileSets /\ \A q \in Paths : rest[q] \in {D!NoFile, d.files[q]}
        BY <1>3 DEF FileSets, Changes
  <2>2. disk' = [disk EXCEPT ![p] = d.files[p].old] /\ D!LeftBy(0, p, d.files[p].old)
        /\ D!Does("revert", j) /\ holder' = holder
        BY <1>1, <1>2, <1>6 DEF D!RevertFile
  <2> HIDE DEF rest
  <2>3. /\ D!Diff(d.rev + 1, rest) \in Diffs /\ D!Diff(d.rev + 1, rest).files = rest
        BY <2>1, <1>3, DiffIs
  <2>4. /\ j \in Jobs /\ j.run = todo["revert"].run /\ j.stage = "body" /\ j.diff.files = rest
    <3>1. "body" \in RevertStages
          BY DEF RevertStages
    <3>2. PICK e \in Diffs : e = D!Diff(d.rev + 1, rest)
          BY <2>3
    <3>3. j = [todo["revert"] EXCEPT !.stage = "body", !.diff = e]
          BY <3>2
    <3>. QED BY <2>3, <3>1, <3>2, <3>3, <1>5 DEF Jobs
  <2> HIDE DEF j
  <2>5. todo' \in [D!Storers -> Jobs] /\ todo'["revert"] = j /\ todo'["run"] = todo["run"]
        BY <2>2, <2>4, <1>5, DoesIs
  <2>6. d.files[p].old \in Used
        BY <1>3, FileFields
  <2>7. live # 0 /\ net[p] # D!NoFile => net[p].new # d.files[p].old
        BY <1>2, <1>3 DEF DiffInv, ApartInv, DiffsApart
  <2>8. \A q \in Paths : todo'["revert"].diff.files[q] \in {D!NoFile, todo["revert"].diff.files[q]}
        BY <2>1, <2>4, <2>5, <1>2
  <2>9. /\ disk' \in [Paths -> Used] /\ before' \in [DiffRuns -> [Paths -> Used]]
        /\ \A r \in DiffRuns : (\A q \in Paths : before[r][q] = disk[q])
                              => (\A q \in Paths : before'[r][q] = disk'[q])
        /\ NetInv' /\ ApartInv' /\ UndoInv'
        BY <2>2, <2>4, <2>5, <2>6, <2>7, <2>8, <1>3, <1>4, OtherWrites
  <2>10. DiffTyped'
        BY <2>2, <2>5, <2>9, <1>4, SameUsed DEF DiffInv, DiffTyped
  <2>11. DiffPlaceInv'
        BY <2>2, <2>4, <2>5, <2>9, <1>3, <1>4 DEF DiffInv, DiffPlaceInv, RevertStages, D!Unset
  <2>12. StoreInv'
        BY <2>2, <2>4, <2>5, <1>3, <1>4 DEF DiffInv, StoreInv
  <2>. QED BY <2>9, <2>10, <2>11, <2>12 DEF DiffInv
<1>7. CASE ~D!Unchanged(p)
  <2>1. holder' = D!Unset /\ D!Does("revert", D!Nothing) /\ UNCHANGED <<disk, before>>
        BY <1>1, <1>7 DEF D!RevertFile, D!Free
  <2>2. todo' \in [D!Storers -> Jobs] /\ todo'["revert"] = D!Nothing /\ todo'["run"] = todo["run"]
        BY <2>1, <1>5, DoesIs, EmptyIs
  <2>3. Still
        BY <2>1, <1>4 DEF Still
  <2>4. DiffTyped'
        BY <2>1, <2>2, <1>4, SameUsed DEF DiffInv, DiffTyped
  <2>5. DiffPlaceInv'
        BY <2>1, <2>2, <1>3, <1>4, EmptyIs DEF DiffInv, DiffPlaceInv, D!Unset
  <2>6. StoreInv'
        BY <2>1, <1>3, <1>4 DEF DiffInv, StoreInv
  <2>7. NetInv' /\ ApartInv' /\ UndoInv'
        BY <2>1, <2>2, <2>3, <1>4, StillNet, StillApart, StillUndo
           DEF DiffInv, NetInv, ApartInv, UndoInv, D!Unset
  <2>. QED BY <2>4, <2>5, <2>6, <2>7 DEF DiffInv
<1>. QED BY <1>6, <1>7

(* The patch of the run under way: what it makes of a file is new, or is   *)
(* what the run had found there. *)
LEMMA MakesStep ==
  ASSUME DiffConstants, DiffInv, NEW p \in Paths, NEW c, changes < Len(Fresh),
         c \in {Fresh[changes + 1], net[p].old} \ {D!Unset}, D!Makes(p, c)
  PROVE  DiffInv'
<1> DEFINE n == D!NetOf(p, c)
           d == D!Diff(shown + 1, n)
           j == [run |-> live, stage |-> "body", path |-> D!Unset, diff |-> d]
           old == IF net[p] = D!NoFile THEN disk[p] ELSE net[p].old
<1>1. PICK r \in DiffRuns : r = live /\ live # 0
      BY DEF D!Makes, DiffInv, DiffTyped
<1>2. /\ todo["run"] = D!Nothing /\ c # disk[p] /\ changes' = changes + 1
      /\ disk' = [disk EXCEPT ![p] = c] /\ D!LeftBy(r, p, c) /\ net' = n /\ exact' = D!Known(p)
      /\ IF exact THEN D!Does("run", j) ELSE UNCHANGED todo
      /\ UNCHANGED <<live, shown, status, summary, body, reconciled, holder, idle, view, torn, faults>>
      BY <1>1 DEF D!Makes
<1>3. changes \in 0..Len(Fresh) /\ changes' \in 0..Len(Fresh) /\ Len(Fresh) \in Nat
      BY <1>2, Lengths DEF DiffInv, DiffTyped
<1>4. /\ Made \subseteq Made' /\ Used \subseteq Used' /\ Changes \subseteq Changes'
      /\ FileSets \subseteq FileSets'
      /\ Fresh[changes + 1] \in Made' /\ Fresh[changes + 1] \notin Used
      /\ Fresh[changes + 1] # D!Unset
  <2>1. 1..changes \subseteq 1..changes' /\ changes + 1 \in 1..changes'
        /\ changes + 1 \notin 1..changes /\ changes + 1 \in 1..Len(Fresh)
        /\ 1..changes \subseteq 1..Len(Fresh)
        BY <1>2, <1>3
  <2>2. Made \subseteq Made' /\ Fresh[changes + 1] \in Made' /\ Used \subseteq Used'
        BY <2>1, <1>2 DEF Made, Used
  <2>3. Fresh[changes + 1] \notin Used /\ Fresh[changes + 1] # D!Unset
        BY <2>1 DEF DiffConstants, Made, Used
  <2>4. Changes \subseteq Changes'
        BY <2>2 DEF Changes
  <2>. QED BY <2>2, <2>3, <2>4 DEF FileSets
<1>5. Diffs \subseteq Diffs' /\ Jobs \subseteq Jobs'
  <2>1. Diffs \subseteq Diffs'
        BY <1>4 DEF Diffs
  <2>. QED BY <2>1 DEF Jobs
<1>6. /\ net \in FileSets /\ disk \in [Paths -> Used] /\ before \in [DiffRuns -> [Paths -> Used]]
      /\ exact \in BOOLEAN /\ D!Unset \notin Used
      BY <1>3, NotUnset DEF DiffInv, DiffTyped
<1>7. \/ c = Fresh[changes + 1]
      \/ net[p] # D!NoFile /\ c = net[p].old /\ c \in Used
      BY <1>6, FileFields, NoFileFields
<1>8. c \in Used' /\ old \in Used
      BY <1>4, <1>6, <1>7, FileFields DEF Used
<1>9. /\ n \in FileSets'
      /\ ~D!Known(p) => n = D!NoChange
      /\ D!Known(p) => /\ \A s \in Paths \ {p} : n[s] = net[s]
                       /\ old = c => n[p] = D!NoFile
                       /\ old # c => n[p] # D!NoFile /\ n[p].old = old /\ n[p].new = c
  <2>1. CASE ~D!Known(p)
        BY <2>1, <1>4, EmptyIs DEF D!NetOf
  <2>2. CASE D!Known(p)
    <3>1. PICK f : f = IF old = c THEN D!NoFile ELSE [old |-> old, new |-> c]
          OBVIOUS
    <3>2. n = [net EXCEPT ![p] = f]
          BY <2>2, <3>1 DEF D!NetOf
    <3>3. f \in Changes' /\ (old # c => f # D!NoFile /\ f.old = old /\ f.new = c)
          BY <3>1, <1>4, <1>6, <1>8 DEF Changes, D!NoFile
    <3>4. net \in [Paths -> Changes'] /\ FileSets' = [Paths -> Changes']
          BY <1>4, <1>6 DEF FileSets
    <3>. QED BY <2>2, <3>1, <3>2, <3>3, <3>4
  <2>. QED BY <2>1, <2>2
<1>10. /\ d \in Diffs' /\ d.files = n
  <2>1. shown \in Nat
        BY DEF DiffInv, DiffTyped
  <2>2. CASE D!Changed(n) = {}
    <3>1. n = D!NoChange
          BY <2>2, <1>9 DEF D!Changed, FileSets, D!NoChange
    <3>. QED BY <2>2, <3>1, <1>5, EmptyIs DEF D!Diff
  <2>3. CASE D!Changed(n) # {}
    <3>1. n # D!NoChange /\ shown + 1 \in Nat \ {0}
          BY <2>1, <2>3, EmptyIs DEF D!Changed
    <3>. QED BY <2>3, <3>1, <1>9 DEF D!Diff, Diffs
  <2>. QED BY <2>2, <2>3
<1> HIDE DEF n, d
<1>11. /\ j \in Jobs' /\ j # D!Nothing /\ j.run = r /\ j.stage = "body" /\ j.diff = d
  <2>1. j # D!Nothing
        BY DEF D!Nothing, D!Unset
  <2>. QED BY <2>1, <1>1, <1>10 DEF Jobs, RevertStages
<1> HIDE DEF j
<1>12. /\ todo' \in [D!Storers -> Jobs'] /\ todo'["revert"] = todo["revert"]
       /\ exact => todo'["run"] = j
       /\ ~exact => todo'["run"] = D!Nothing
  <2>1. todo \in [D!Storers -> Jobs']
        BY <1>5 DEF DiffInv, DiffTyped
  <2>. QED BY <2>1, <1>2, <1>6, <1>11 DEF D!Does, D!Storers
<1>13. /\ disk' \in [Paths -> Used'] /\ disk'[p] = c
       /\ \A s \in Paths \ {p} : disk'[s] = disk[s]
      BY <1>2, <1>4, <1>6, <1>8
<1>14. /\ before' \in [DiffRuns -> [Paths -> Used']] /\ before'[r] = before[r]
       /\ \A q \in DiffRuns \ {r} : before'[q][p] = c
       /\ \A q \in DiffRuns \ {r}, s \in Paths \ {p} : before'[q][s] = before[q][s]
  <2>1. before' = [q \in DiffRuns |-> IF q = r THEN before[q] ELSE [before[q] EXCEPT ![p] = c]]
        BY <1>2 DEF D!LeftBy
  <2>2. ASSUME NEW q \in DiffRuns PROVE before'[q] \in [Paths -> Used']
    <3>1. before[q] \in [Paths -> Used']
          BY <1>4, <1>6
    <3>. QED BY <2>1, <3>1, <1>8
  <2>. QED BY <2>1, <2>2, <1>6
<1>15. DiffTyped'
  <2>1. /\ summary' \in [DiffRuns -> Diffs'] /\ body' \in [DiffRuns -> Diffs'] /\ idle' \in Jobs'
        /\ view' \in [run : DiffRuns \cup {0}, diff : Diffs']
        BY <1>2, <1>5 DEF DiffInv, DiffTyped
  <2>2. exact' \in BOOLEAN
        BY <1>2, <1>6 DEF D!Known
  <2>. QED BY <2>1, <2>2, <1>1, <1>2, <1>3, <1>9, <1>12, <1>13, <1>14 DEF DiffInv, DiffTyped
<1>16. \A q \in DiffRuns : status[q] \in {"new", "over"} => q # r
      BY <1>1 DEF DiffInv, DiffPlaceInv
<1>17. DiffPlaceInv'
  <2>1. ASSUME NEW q \in DiffRuns, status'[q] = "new"
        PROVE  body'[q] = D!NoDiff /\ summary'[q] = D!NoDiff
               /\ \A s \in Paths : before'[q][s] = disk'[s]
        BY <2>1, <1>2, <1>13, <1>14, <1>16 DEF DiffInv, DiffPlaceInv
  <2>2. /\ todo'["run"].stage \in {D!Unset, "body"} /\ live # 0
        /\ todo'["run"].stage = "body" => todo'["run"].run = live
        /\ holder # "run"
        BY <1>1, <1>2, <1>6, <1>11, <1>12, EmptyIs DEF DiffInv, DiffPlaceInv, D!Unset
  <2>. QED BY <2>1, <2>2, <1>2, <1>12 DEF DiffInv, DiffPlaceInv, D!Unset
<1>18. StoreInv'
  <2>1. holder' = holder /\ holder # "run" /\ (holder # D!Unset => todo'[holder] = todo[holder])
        BY <1>2, <1>12, EmptyIs DEF DiffInv, DiffPlaceInv, DiffTyped, D!Unset
  <2>. QED BY <2>1, <1>2 DEF DiffInv, StoreInv
<1>19. ASSUME NEW s \in Paths, n[s] # D!NoFile
       PROVE  /\ D!Known(p) /\ exact
              /\ s # p => n[s] = net[s]
              /\ s = p => n[s].new = Fresh[changes + 1] /\ n[s].old = old /\ old # c
  <2>1. D!Known(p) /\ exact
        BY <1>9, <1>19, EmptyIs DEF D!Known
  <2>2. s = p => old # c
        BY <2>1, <1>9, <1>19
  <2>. QED BY <2>1, <2>2, <1>7, <1>9, <1>19
<1>20. NetInv'
  <2>1. ~exact' => net' = D!NoChange
        BY <1>2, <1>9
  <2>2. ASSUME NEW s \in Paths, net'[s] # D!NoFile
        PROVE  net'[s].new \in Made' /\ net'[s].old # net'[s].new
        BY <2>2, <1>2, <1>4, <1>7, <1>9, <1>19 DEF DiffInv, NetInv
  <2>3. ASSUME NEW s \in Paths, exact', net'[s] = D!NoFile PROVE before'[r][s] = disk'[s]
    <3>1. D!Known(p) /\ exact
          BY <2>3, <1>2 DEF D!Known
    <3>2. CASE s # p
          BY <2>3, <3>1, <3>2, <1>1, <1>2, <1>9, <1>13, <1>14 DEF DiffInv, NetInv
    <3>3. CASE s = p
      <4>1. old = c
            BY <2>3, <3>1, <3>3, <1>2, <1>9
      <4>2. net[p] # D!NoFile /\ net[p].new = disk[p] /\ net[p].old = c
            BY <4>1, <3>1, <1>2 DEF D!Known
      <4>. QED BY <3>3, <4>2, <1>1, <1>13, <1>14 DEF DiffInv, NetInv
    <3>. QED BY <3>2, <3>3
  <2>4. ASSUME NEW s \in Paths, net'[s] # D!NoFile, disk'[s] = net'[s].new
        PROVE  before'[r][s] = net'[s].old
    <3>1. D!Known(p) /\ exact
          BY <2>4, <1>2, <1>19
    <3>2. CASE s # p
          BY <2>4, <3>1, <3>2, <1>1, <1>2, <1>9, <1>13, <1>14 DEF DiffInv, NetInv
    <3>3. CASE s = p
      <4>1. net'[s].old = old
            BY <2>4, <3>3, <1>2, <1>19
      <4>2. before[r][p] = old
            BY <3>1, <1>1 DEF DiffInv, NetInv, D!Known
      <4>. QED BY <3>3, <4>1, <4>2, <1>14
    <3>. QED BY <3>2, <3>3
  <2>5. todo'["run"].stage \in {"body", "record"} => todo'["run"].diff.files = net'
        BY <1>2, <1>6, <1>10, <1>11, <1>12, EmptyIs DEF D!Unset
  <2>6. todo'["run"] = D!Nothing \/ todo'["run"].stage = "record" => body'[live].files = net'
    <3>1. CASE exact
          BY <3>1, <1>11, <1>12
    <3>2. CASE ~exact
      <4>1. n = D!NoChange /\ net = D!NoChange
            BY <3>2, <1>9 DEF D!Known, DiffInv, NetInv
      <4>2. body[live].files = net
            BY <1>1, <1>2 DEF DiffInv, NetInv
      <4>. QED BY <4>1, <4>2, <1>2
    <3>. QED BY <3>1, <3>2
  <2>. QED BY <2>1, <2>2, <2>3, <2>4, <2>5, <2>6, <1>1, <1>2 DEF NetInv
<1>21. ASSUME NEW files \in FileSets, DiffsApart(files), NEW s \in Paths, NEW q \in Paths,
              n[s] # D!NoFile
       PROVE  files[q].old # n[s].new
  <2>1. CASE s # p
        BY <1>19, <1>21, <2>1 DEF DiffsApart
  <2>2. CASE s = p
    <3>1. files[q].old \in Used \cup {D!Unset}
          BY <1>21, FileFields, NoFileFields
    <3>. QED BY <2>2, <3>1, <1>4, <1>19, <1>21
  <2>. QED BY <2>1, <2>2
<1>22. ApartInv'
  <2>1. ASSUME NEW q \in DiffRuns, q # r PROVE DiffsApart(body[q].files)'
    <3>1. body[q].files \in FileSets /\ DiffsApart(body[q].files)
          BY <2>1, <1>1, DiffFields DEF DiffInv, DiffTyped, ApartInv
    <3>. QED BY <3>1, <1>2, <1>21 DEF DiffsApart
  <2>2. ASSUME holder' = "revert" PROVE DiffsApart(todo["revert"].diff.files)'
    <3>1. todo["revert"].diff.files \in FileSets /\ DiffsApart(todo["revert"].diff.files)
          BY <2>2, <1>1, <1>2, Todos, JobFields, DiffFields DEF DiffInv, ApartInv
    <3>2. PICK files \in FileSets : files = todo["revert"].diff.files
          BY <3>1
    <3>3. todo'["revert"].diff.files = files /\ net' = n
          BY <3>2, <1>2, <1>12
    <3>4. \A s, q \in Paths : n[s] # D!NoFile => files[q].old # n[s].new
          BY <3>1, <3>2, <1>21
    <3>. QED BY <3>3, <3>4 DEF DiffsApart
  <2>. QED BY <2>1, <2>2, <1>1, <1>2 DEF ApartInv
<1>23. ASSUME NEW q \in DiffRuns, q # r, NEW files, Undoable(q, files), NEW s \in Paths,
              files[s] # D!NoFile, disk'[s] = files[s].new
       PROVE  before'[q][s] \in {files[s].old, files[s].new}
      BY <1>13, <1>14, <1>23 DEF Undoable
<1>24. UndoInv'
  <2>1. ASSUME NEW q \in DiffRuns, q # r PROVE Undoable(q, body[q].files)'
    <3>1. Undoable(q, body[q].files)
          BY DEF DiffInv, UndoInv
    <3>. QED BY <2>1, <3>1, <1>2, <1>23 DEF Undoable
  <2>2. Undoable(r, body[r].files)'
    <3>1. body[r].files = net /\ Undoable(r, net)
          BY <1>1, <1>2 DEF DiffInv, NetInv, UndoInv
    <3>2. net[p] # D!NoFile => net[p].new # c
      <4> SUFFICES ASSUME net[p] # D!NoFile, net[p].new = c PROVE FALSE
          OBVIOUS
      <4>1. c \in Used
            BY <1>6, FileFields
      <4>2. c = net[p].old
            BY <4>1, <1>4, <1>7
      <4>. QED BY <4>2 DEF DiffInv, NetInv
    <3>. QED BY <3>1, <3>2, <1>2, <1>13, <1>14 DEF Undoable
  <2>3. ASSUME holder' = "revert" PROVE Undoable(todo["revert"].run, todo["revert"].diff.files)'
    <3>1. PICK q \in DiffRuns : q = todo["revert"].run /\ q # r
          BY <2>3, <1>2, <1>16 DEF DiffInv, DiffPlaceInv
    <3>2. Undoable(q, todo["revert"].diff.files)
          BY <2>3, <3>1, <1>2 DEF DiffInv, UndoInv
    <3>3. PICK files : files = todo["revert"].diff.files
          OBVIOUS
    <3>4. \A s \in Paths : files[s] # D!NoFile /\ disk'[s] = files[s].new
                             => before'[q][s] \in {files[s].old, files[s].new}
          BY <3>1, <3>2, <3>3, <1>23
    <3>5. todo'["revert"].run = q /\ todo'["revert"].diff.files = files
          BY <3>1, <3>3, <1>12
    <3>. QED BY <3>4, <3>5 DEF Undoable
  <2>. QED BY <2>1, <2>2, <2>3, <1>2 DEF UndoInv
<1>. QED BY <1>15, <1>17, <1>18, <1>20, <1>22, <1>24 DEF DiffInv

LEMMA DiffInvStep == ASSUME DiffConstants, DiffInv, [D!Next]_(D!diffVars) PROVE DiffInv'
<1>1. CASE UNCHANGED D!diffVars
  <2>1. /\ Still
        /\ UNCHANGED <<shown, status, summary, body, reconciled, holder, todo, idle, view, torn, faults>>
        BY <1>1 DEF D!diffVars, Still
  <2>2. DiffTyped'
        BY <2>1, SameUsed DEF DiffInv, DiffTyped, Still
  <2>3. DiffPlaceInv' /\ StoreInv'
        BY <2>1 DEF DiffInv, DiffPlaceInv, StoreInv, Still
  <2>4. NetInv' /\ ApartInv' /\ UndoInv'
        BY <2>1, StillNet, StillApart, StillUndo DEF DiffInv, NetInv, ApartInv, UndoInv
  <2>. QED BY <2>2, <2>3, <2>4 DEF DiffInv
<1>2. ASSUME NEW r \in DiffRuns, D!StartRun(r) \/ D!Look(r) PROVE DiffInv'
      BY <1>2, StartRunStep, LookStep
<1>3. ASSUME NEW p \in Paths, D!Revert(p) \/ D!Edit(p) PROVE DiffInv'
      BY <1>3, RevertStep, DiffEditStep
<1>4. ASSUME NEW p \in Paths, D!Change(p) PROVE DiffInv'
      BY <1>4, MakesStep DEF D!Change
<1>5. CASE D!Persist \/ D!EndRun \/ D!StoreBody \/ D!StoreRecord \/ D!StoreFails
      BY <1>5, PersistStep, EndRunStep, StoreBodyStep, StoreRecordStep, StoreFailsStep
<1>6. CASE D!ReconcileFails \/ D!RevertChecks \/ D!RevertFile \/ D!Restart
      BY <1>6, ReconcileFailsStep, RevertChecksStep, RevertFileStep, DiffRestartStep
<1>. QED BY <1>1, <1>2, <1>3, <1>4, <1>5, <1>6 DEF D!Next

LEMMA DiffInvHolds == ASSUME DiffConstants PROVE D!Spec => []DiffInv
<1>1. D!Init => DiffInv
      BY DiffInvInit
<1>2. DiffInv /\ [D!Next]_(D!diffVars) => DiffInv'
      BY DiffInvStep
<1>. QED BY <1>1, <1>2, PTL DEF D!Spec

LEMMA RevertWrites ==
  ASSUME DiffConstants, DiffInv, [D!Next]_(D!diffVars) PROVE D!UndoesItsRun
<1> SUFFICES ASSUME todo["revert"].stage = "file", todo'["revert"].stage = "body"
             PROVE  before[todo["revert"].run][todo["revert"].path]
                      \in {disk'[todo["revert"].path], disk[todo["revert"].path]}
    BY DEF D!UndoesItsRun
<1>1. todo \in [D!Storers -> Jobs] /\ todo["revert"] \in Jobs /\ holder = "revert"
      BY Todos DEF DiffInv, DiffTyped, DiffPlaceInv, D!Unset
<1>2. D!RevertFile
  <2>1. ASSUME NEW w \in D!Storers, NEW j, D!Does(w, j), w = "run" PROVE FALSE
        BY <2>1, <1>1 DEF D!Does, D!Storers
  <2>2. ASSUME todo' = todo PROVE FALSE
        BY <2>2
  <2>3. CASE UNCHANGED D!diffVars \/ D!Persist \/ D!ReconcileFails \/ \E r \in DiffRuns : D!StartRun(r) \/ D!Look(r)
        BY <2>2, <2>3 DEF D!diffVars, D!Persist, D!ReconcileFails, D!StartRun, D!Look
  <2>4. CASE \E p \in Paths : D!Revert(p) \/ D!Edit(p) \/ D!Change(p)
    <3>1. todo' = todo \/ \E j : D!Does("run", j)
          BY <2>4 DEF D!Revert, D!Edit, D!Change, D!Makes
    <3>. QED BY <3>1, <2>1, <2>2 DEF D!Storers
  <2>5. CASE D!EndRun \/ D!RevertChecks
        BY <2>5, <2>1, <1>1 DEF D!EndRun, D!RevertChecks, D!Storers, D!Unset
  <2>6. CASE D!StoreBody \/ D!StoreRecord \/ D!StoreFails
        BY <2>6, <1>1 DEF D!StoreBody, D!StoreRecord, D!StoreFails
  <2>7. CASE D!Restart
        BY <2>7, EmptyIs DEF D!Restart, D!Storers, D!Unset
  <2>. QED BY <2>3, <2>4, <2>5, <2>6, <2>7 DEF D!Next
<1>3. PICK p \in Paths : p = todo["revert"].path
      BY <1>1 DEF DiffInv, DiffPlaceInv
<1>4. PICK d \in Diffs : d = todo["revert"].diff
      BY <1>1, JobFields
<1>5. PICK r \in DiffRuns : r = todo["revert"].run
      BY <1>1 DEF DiffInv, DiffPlaceInv
<1>6. d.files[p] # D!NoFile /\ Undoable(r, d.files)
      BY <1>1, <1>3, <1>4, <1>5 DEF DiffInv, DiffPlaceInv, UndoInv
<1>7. disk[p] = d.files[p].new /\ disk' = [disk EXCEPT ![p] = d.files[p].old]
  <2>1. D!Unchanged(p)
    <3> SUFFICES ASSUME ~D!Unchanged(p) PROVE FALSE
        OBVIOUS
    <3>1. D!Does("revert", D!Nothing)
          BY <1>2, <1>3 DEF D!RevertFile
    <3>. QED BY <3>1, <1>1, EmptyIs DEF D!Does, D!Storers, D!Unset
  <2>. QED BY <2>1, <1>2, <1>3, <1>4 DEF D!RevertFile, D!Unchanged
<1>8. disk'[p] = d.files[p].old
      BY <1>7 DEF DiffInv, DiffTyped
<1>. QED BY <1>3, <1>5, <1>6, <1>7, <1>8 DEF Undoable

-----------------------------------------------------------------------------
(* The files, the records, the bodies and the client's view have the types *)
(* that RunDiffs gives them; a diff of no files is none.                   *)
THEOREM DiffsTypeCorrect == ASSUME DiffConstants PROVE D!Spec => []D!TypeOK
<1>1. DiffInv => D!TypeOK
  <2> SUFFICES ASSUME DiffInv PROVE D!TypeOK
      OBVIOUS
  <2>1. Used \subseteq {Fresh[i] : i \in DOMAIN Fresh} \cup {First, Edited}
    <3>1. 1..changes \subseteq DOMAIN Fresh
          BY Lengths DEF DiffInv, DiffTyped
    <3>. QED BY <3>1 DEF Used, Made
  <2>2. disk \in [Paths -> {Fresh[i] : i \in DOMAIN Fresh} \cup {First, Edited}]
        BY <2>1 DEF DiffInv, DiffTyped
  <2>3. \A w \in D!Storers : todo[w].stage \in {D!Unset, "body", "record", "file", "failed"}
        BY DEF DiffInv, DiffPlaceInv, D!Storers, RevertStages
  <2>4. \A r \in DiffRuns : summary[r].rev = 0 <=> summary[r].files = D!NoChange
        BY DiffFields DEF DiffInv, DiffTyped
  <2>. QED BY <2>2, <2>3, <2>4 DEF DiffInv, DiffTyped, D!TypeOK
<1>. QED BY <1>1, DiffInvHolds, PTL

(* Once the records and the bodies were compared, every reader sees the    *)
(* diff of a run that a revert of it works with, but for a run whose body  *)
(* failed to be written and was not stored or compared since               *)
(* (diff_store.go:64-106, 344-374).                                        *)
THEOREM ShownUnlessTornHolds == ASSUME DiffConstants PROVE D!Spec => []D!ShownUnlessTorn
<1>1. DiffInv => D!ShownUnlessTorn
      BY DEF DiffInv, StoreInv, D!ShownUnlessTorn
<1>. QED BY <1>1, DiffInvHolds, PTL

(* A revert gives a file back as it was before its run and after the last  *)
(* thing anybody else did to it, unless that was to put back what the run  *)
(* had left (diff_store.go:197-215).                                       *)
THEOREM UndoesItsRunHolds ==
  ASSUME DiffConstants
  PROVE  D!Spec => [][D!UndoesItsRun]_(D!diffVars)
<1>1. DiffConstants /\ DiffInv /\ [D!Next]_(D!diffVars) => D!UndoesItsRun
      BY RevertWrites
<1>2. DiffInv /\ [D!Next]_(D!diffVars) => D!UndoesItsRun
      BY <1>1
<1>. QED BY <1>2, DiffInvHolds, PTL DEF D!Spec

-----------------------------------------------------------------------------
(* Connections                                                              *)

C == INSTANCE Connections

(* C!Spec without its fairness, which none of the theorems needs. *)
ConnectionBehaviour == C!Init /\ [][C!Next]_(C!connVars)

(* An instance has its own name for the number of elements. *)
LEMMA ConnectionCounts == \A S : C!Cardinality(S) = Cardinality(S)
BY DEF C!Cardinality, Cardinality

-----------------------------------------------------------------------------
(* The inductive invariant, in named parts.                                *)

Places == {"new", "created", "listening", "hooked", "replied", "failed", "done"}

ConnTyped ==
  /\ link \in BOOLEAN /\ ctxOpen \in BOOLEAN /\ gate \in BOOLEAN
  /\ phase \in {"running", "draining", "closed"} /\ sender \in BOOLEAN
  /\ queue \in Seq(Subs) /\ Len(queue) <= QueueLimit
  /\ at \in [Subs -> Places]
  /\ active \in [Subs -> BOOLEAN] /\ closed \in [Subs -> BOOLEAN]
  /\ hooked \in [Subs -> BOOLEAN]
  /\ pending \in [Subs -> 0..PendingLimit]
  /\ published \in [Subs -> Nat] /\ received \in [Subs -> Nat]
  /\ listening \subseteq Subs /\ unhooking \subseteq Subs /\ answered \subseteq Subs

(* A subscription hears events from Listen on; once its cleanup is         *)
(* installed it hears them until it is closed, and a cleanup to come ends  *)
(* it.  Nothing is delivered to one that is not answered.                  *)
PlaceOf(s) ==
  /\ at[s] \in {"new", "created"} => s \notin listening
  /\ at[s] \in {"new", "created", "listening"} => ~hooked[s]
  /\ s \in listening => at[s] = "listening" \/ (hooked[s] /\ (~closed[s] \/ s \in unhooking))
  /\ at[s] = "replied" \/ active[s] \/ received[s] > 0 => s \in answered

QueuedAnswered == \A i \in DOMAIN queue : queue[i] \in answered

(* Every event heard is somewhere, as long as the context is open and the  *)
(* subscription is; none is anywhere twice, ever.                          *)
CountedOf(s) ==
  /\ received[s] + C!InQueue(s) + pending[s] <= published[s]
  /\ ctxOpen /\ ~closed[s] => published[s] = received[s] + C!InQueue(s) + pending[s]

EndInv ==
  /\ phase # "running" => ~gate /\ ~link /\ ~ctxOpen
  /\ phase = "closed" => /\ \A s \in Subs : at[s] \in {"new", "done"} /\ closed[s]
                         /\ \A c \in Own : ~C!Waiting(c)

SubInv == \A s \in Subs : PlaceOf(s) /\ CountedOf(s)

(* The scheduler of the session's writes.                                  *)
CallStates == {"new", "waiting", "started", "abandoned"}
RunnerPlaces == {"none", "taking", "taken", "claiming", "running", "answering", "popping",
                 "over", "panicked"}
HasItem == {"taken", "claiming", "running", "answering", "popping"}
QueueOf(q) == scheduler.calls[q]

WriteTyped ==
  /\ scheduled \in [Calls -> [state : CallStates, done : BOOLEAN]]
  /\ waiter \in [Calls -> {"none", "waiting", "returned"}]
  /\ scheduler \in [named : SUBSET Calls, calls : [Calls -> Seq(Calls)]]
  /\ runner \in [Calls -> [at : RunnerPlaces, queue : Calls, item : Calls]]

(* What is not scheduled yet has no answer and no goroutine.               *)
Unscheduled == \A c \in Calls : scheduled[c].state = "new" => ~scheduled[c].done /\ runner[c].at = "none"

(* A call is queued once, in one queue.                                    *)
QueuedOnce == \A q \in Calls : \A i \in 1..Len(QueueOf(q)) :
  /\ scheduled[QueueOf(q)[i]].state # "new"
  /\ \A r \in Calls : \A j \in 1..Len(QueueOf(r)) :
       QueueOf(r)[j] = QueueOf(q)[i] => r = q /\ j = i

(* The item of a goroutine is the first of its queue, or is in none.       *)
ItemIsFirst == \A k \in Calls : runner[k].at \in HasItem =>
  /\ scheduled[runner[k].item].state # "new"
  /\ \A q \in Calls : \A i \in 1..Len(QueueOf(q)) :
       QueueOf(q)[i] = runner[k].item => q = runner[k].queue /\ i = 1

(* A call that has its answer and is still queued is about to be popped.   *)
AnsweredIsPopped == \A q \in Calls : \A i \in 1..Len(QueueOf(q)) :
  scheduled[QueueOf(q)[i]].done =>
    \E k \in Calls : /\ runner[k].at = "popping" /\ runner[k].queue = q
                     /\ runner[k].item = QueueOf(q)[i]

ConnectionCallInv == /\ WriteTyped /\ Unscheduled /\ QueuedOnce /\ ItemIsFirst /\ AnsweredIsPopped
                     /\ C!RunsOnce /\ C!NothingStalls

ConnInv == ConnTyped /\ SubInv /\ QueuedAnswered /\ EndInv /\ ConnectionCallInv

ConnConstants ==
  Own \subseteq Calls /\ QueueLimit \in Nat /\ PendingLimit \in Nat /\ MaxEvents \in Nat

-----------------------------------------------------------------------------
(* The queue of notifications, counted by subscription.                    *)
InQ(q, s) == {i \in DOMAIN q : q[i] = s}

LEMMA InQIs ==
  ASSUME NEW q \in Seq(Subs), NEW s
  PROVE  /\ InQ(q, s) = {i \in 1..Len(q) : q[i] = s}
         /\ IsFiniteSet(InQ(q, s)) /\ Cardinality(InQ(q, s)) \in Nat
<1>1. InQ(q, s) = {i \in 1..Len(q) : q[i] = s} /\ Len(q) \in Nat
      BY LenProperties DEF InQ
<1>2. IsFiniteSet(1..Len(q))
      BY <1>1, FS_Interval
<1>. QED BY <1>1, <1>2, FS_Subset, FS_CardinalityType

(* n more notifications for s at the end. *)
Copies(more, n, s) ==
  more \in Seq(Subs) /\ Len(more) = n /\ \A i \in 1..n : more[i] = s

Joined(q, s, n, after) ==
  /\ after \in Seq(Subs) /\ Len(after) = Len(q) + n
  /\ \A i \in DOMAIN after : after[i] = s \/ (i \in DOMAIN q /\ after[i] = q[i])
  /\ Cardinality(InQ(after, s)) = Cardinality(InQ(q, s)) + n
  /\ \A t \in Subs \ {s} : InQ(after, t) = InQ(q, t)

LEMMA CountJoin ==
  ASSUME NEW q \in Seq(Subs), NEW s \in Subs, NEW n \in Nat, NEW more, Copies(more, n, s),
         NEW after, after = q \o more
  PROVE  Joined(q, s, n, after)
<1> USE DEF Joined, Copies
<1>1. Len(q) \in Nat /\ DOMAIN q = 1..Len(q)
      BY LenProperties
<1>2. Len(more) = n /\ \A i \in 1..n : more[i] = s
      OBVIOUS
<1>3. /\ after \in Seq(Subs) /\ Len(after) = Len(q) + n
      /\ \A i \in 1..(Len(q) + n) : after[i] = IF i <= Len(q) THEN q[i] ELSE more[i - Len(q)]
      BY <1>2, ConcatProperties
<1>4. DOMAIN after = 1..(Len(q) + n)
      BY <1>3, LenProperties
<1>5. \A i \in (Len(q) + 1)..(Len(q) + n) : after[i] = s
      BY <1>1, <1>2, <1>3
<1>6. \A i \in 1..Len(q) : after[i] = q[i]
      BY <1>1, <1>3
<1>7. DOMAIN after = (DOMAIN q) \cup ((Len(q) + 1)..(Len(q) + n))
      BY <1>1, <1>4
<1> DEFINE added == (Len(q) + 1)..(Len(q) + n)
<1>8. InQ(after, s) = InQ(q, s) \cup added /\ InQ(q, s) \cap added = {}
      BY <1>1, <1>5, <1>6, <1>7 DEF InQ
<1>9. IsFiniteSet(added) /\ Cardinality(added) = n
  <2>1. Len(q) + 1 \in Int /\ Len(q) + n \in Int
        BY <1>1
  <2>2. IsFiniteSet(added)
        BY ONLY <2>1, FS_Interval
  <2>3. Cardinality(added) =
          IF Len(q) + 1 > Len(q) + n THEN 0 ELSE (Len(q) + n) - (Len(q) + 1) + 1
        BY ONLY <2>1, FS_Interval
  <2>. QED BY ONLY <1>1, <2>2, <2>3, n \in Nat
<1> HIDE DEF added
<1>10. Cardinality(InQ(after, s)) = Cardinality(InQ(q, s)) + n
  <2>1. IsFiniteSet(InQ(q, s)) /\ Cardinality(InQ(q, s)) \in Nat
        BY InQIs
  <2>2. Cardinality(InQ(q, s) \cup added) =
          Cardinality(InQ(q, s)) + Cardinality(added) - Cardinality(InQ(q, s) \cap added)
        BY ONLY <1>9, <2>1, FS_Union
  <2>3. Cardinality(InQ(q, s) \cap added) = 0
        BY ONLY <1>8, FS_EmptySet
  <2>. QED BY ONLY <1>8, <1>9, <2>1, <2>2, <2>3, n \in Nat
<1>11. ASSUME NEW t \in Subs \ {s} PROVE InQ(after, t) = InQ(q, t)
      BY <1>1, <1>5, <1>6, <1>7 DEF InQ
<1>. QED BY <1>1, <1>3, <1>5, <1>6, <1>7, <1>10, <1>11

(* One notification less, at the front. *)
LEMMA CountPart ==
  ASSUME NEW q \in Seq(Subs), q # <<>>
  PROVE  /\ Head(q) \in Subs /\ Head(q) = q[1] /\ 1 \in DOMAIN q
         /\ Tail(q) \in Seq(Subs) /\ Len(Tail(q)) = Len(q) - 1
         /\ \A i \in DOMAIN Tail(q) : i + 1 \in DOMAIN q /\ Tail(q)[i] = q[i + 1]
         /\ \A s \in Subs : Cardinality(InQ(Tail(q), s)) =
              IF s = Head(q) THEN Cardinality(InQ(q, s)) - 1 ELSE Cardinality(InQ(q, s))
<1>1. Len(q) \in Nat \ {0} /\ DOMAIN q = 1..Len(q)
      BY LenProperties, EmptySeq
<1>2. /\ Head(q) \in Subs /\ Tail(q) \in Seq(Subs) /\ Len(Tail(q)) = Len(q) - 1
      /\ \A i \in 1..Len(Tail(q)) : Tail(q)[i] = q[i + 1]
      BY HeadTailProperties
<1>3. DOMAIN Tail(q) = 1..(Len(q) - 1)
      BY <1>2, LenProperties
<1>4. Head(q) = q[1] /\ 1 \in DOMAIN q
      BY <1>1
<1>5. ASSUME NEW s \in Subs
      PROVE  Cardinality(InQ(Tail(q), s)) =
               IF s = Head(q) THEN Cardinality(InQ(q, s)) - 1 ELSE Cardinality(InQ(q, s))
  <2> DEFINE Behind == InQ(Tail(q), s)
             B == InQ(q, s) \ {1}
             f == [i \in Behind |-> i + 1]
  <2>1. Behind = {i \in 1..(Len(q) - 1) : q[i + 1] = s}
        BY <1>2, <1>3 DEF InQ
  <2>2. B = {i \in 2..Len(q) : q[i] = s}
        BY <1>1 DEF InQ
  <2>3. f \in Bijection(Behind, B)
    <3>1. f \in [Behind -> B]
          BY <1>1, <2>1, <2>2
    <3>2. \A i, j \in Behind : f[i] = f[j] => i = j
          BY <1>1, <2>1
    <3>3. \A k \in B : \E i \in Behind : f[i] = k
      <4> TAKE k \in B
      <4>1. k - 1 \in Behind /\ f[k - 1] = k
            BY <1>1, <2>1, <2>2
      <4>. QED BY <4>1
    <3>. QED BY <3>1, <3>2, <3>3 DEF Bijection, Injection, Surjection, IsInjective
  <2>4. ExistsBijection(Behind, B)
        BY <2>3 DEF ExistsBijection
  <2>5. IsFiniteSet(Behind) /\ IsFiniteSet(InQ(q, s)) /\ Cardinality(InQ(q, s)) \in Nat
        BY <1>2, InQIs
  <2> HIDE DEF Behind, f
  <2>6. Cardinality(B) = Cardinality(Behind)
        BY <2>4, <2>5, FS_Bijection
  <2>7. Cardinality(B) =
          IF 1 \in InQ(q, s) THEN Cardinality(InQ(q, s)) - 1 ELSE Cardinality(InQ(q, s))
        BY <2>5, FS_RemoveElement
  <2>8. 1 \in InQ(q, s) <=> s = Head(q)
        BY <1>4 DEF InQ
  <2>. QED BY <2>6, <2>7, <2>8 DEF Behind
<1>. QED BY <1>1, <1>2, <1>3, <1>4, <1>5

LEMMA InQueueIs ==
  ASSUME ConnTyped, NEW s
  PROVE  C!InQueue(s) = Cardinality(InQ(queue, s)) /\ C!InQueue(s) \in Nat
BY InQIs, ConnectionCounts DEF ConnTyped, C!InQueue, InQ

LEMMA InQueueAfter == ASSUME NEW s PROVE C!InQueue(s)' = Cardinality(InQ(queue', s))
BY ConnectionCounts DEF C!InQueue, InQ

(* What Enqueue does: all of it or the end of the context. *)
LEMMA EnqueueIs ==
  ASSUME ConnConstants, ConnTyped, NEW s \in Subs, NEW n \in Nat, C!Enqueue(s, n)
  PROVE  /\ queue' \in Seq(Subs) /\ Len(queue') <= QueueLimit
         /\ ctxOpen' \in BOOLEAN /\ (ctxOpen' => ctxOpen)
         /\ \A i \in DOMAIN queue' :
              queue'[i] = s \/ (i \in DOMAIN queue /\ queue'[i] = queue[i])
         /\ \A t \in Subs \ {s} : C!InQueue(t)' = C!InQueue(t)
         /\ C!InQueue(s)' = C!InQueue(s) + n \/ (~ctxOpen' /\ C!InQueue(s)' = C!InQueue(s))
<1>1. CASE ctxOpen' = FALSE /\ UNCHANGED queue
      BY <1>1 DEF ConnTyped, C!InQueue
<1>2. CASE /\ Len(queue) + n <= QueueLimit
           /\ queue' = queue \o [i \in 1..n |-> s]
           /\ UNCHANGED ctxOpen
  <2>1. PICK more : more = [i \in 1..n |-> s]
        OBVIOUS
  <2>2. Copies(more, n, s)
        BY <2>1 DEF Copies
  <2>3. queue' = queue \o more /\ queue \in Seq(Subs)
        BY <1>2, <2>1 DEF ConnTyped
  <2>4. Joined(queue, s, n, queue')
        BY <2>2, <2>3, CountJoin
  <2>. QED BY <1>2, <2>4, InQueueIs, InQueueAfter DEF ConnTyped, Joined
<1>. QED BY <1>1, <1>2 DEF C!Enqueue
-----------------------------------------------------------------------------
LEMMA ConnInvInit == ASSUME ConnConstants, C!Init PROVE ConnInv
<1>1. queue = <<>>
      BY DEF C!Init
<1>2. queue \in Seq(Subs) /\ Len(queue) = 0 /\ DOMAIN queue = {}
      BY <1>1
<1>3. ConnTyped
      BY <1>2 DEF C!Init, ConnTyped, ConnConstants, Places
<1>4. ASSUME NEW s \in Subs PROVE PlaceOf(s) /\ CountedOf(s)
  <2>1. InQ(queue, s) = {}
        BY <1>2 DEF InQ
  <2>2. C!InQueue(s) = 0
        BY <1>3, <2>1, InQueueIs, FS_EmptySet
  <2>. QED BY <2>2 DEF C!Init, PlaceOf, CountedOf
<1>5. QueuedAnswered
      BY <1>2 DEF QueuedAnswered
<1>6. EndInv
      BY DEF C!Init, EndInv
<1>7. ConnectionCallInv
  <2>1. \A q \in Calls : QueueOf(q) = <<>> /\ Len(QueueOf(q)) = 0
        BY DEF C!Init, QueueOf
  <2>2. WriteTyped
        BY DEF C!Init, WriteTyped, CallStates, RunnerPlaces
  <2>3. \A k \in Calls : runner[k].at = "none" /\ ~scheduled[k].done
        BY DEF C!Init
  <2>4. C!NothingStalls
        BY <2>1 DEF C!NothingStalls, QueueOf
  <2>. QED BY <2>1, <2>2, <2>3, <2>4 DEF ConnectionCallInv, Unscheduled, QueuedOnce,
              ItemIsFirst, HasItem, AnsweredIsPopped, C!RunsOnce, C!Runs
<1>. QED BY <1>3, <1>4, <1>5, <1>6, <1>7 DEF ConnInv, SubInv

-----------------------------------------------------------------------------
(* What a step leaves as it was.                                           *)
LEMMA CallsKept == ASSUME ConnectionCallInv, UNCHANGED C!schedVars PROVE ConnectionCallInv'
<1>1. UNCHANGED scheduled /\ UNCHANGED waiter /\ UNCHANGED scheduler /\ UNCHANGED runner
      BY DEF C!schedVars
<1>2. WriteTyped' /\ Unscheduled'
      BY <1>1 DEF ConnectionCallInv, WriteTyped, Unscheduled
<1>3. QueuedOnce' /\ ItemIsFirst' /\ AnsweredIsPopped'
      BY <1>1 DEF ConnectionCallInv, QueuedOnce, ItemIsFirst, AnsweredIsPopped, QueueOf
<1>4. C!RunsOnce'
      BY <1>1 DEF ConnectionCallInv, C!RunsOnce, C!Runs, C!ItemOf
<1>5. C!Up' = C!Up /\ \A k : C!GoesOn(k)' = C!GoesOn(k)
      BY <1>1 DEF C!Up, C!GoesOn, C!Runs, C!CallsOf, C!Room
<1>6. C!NothingStalls'
      BY <1>1, <1>5 DEF ConnectionCallInv, C!NothingStalls
<1>. QED BY <1>2, <1>3, <1>4, <1>6 DEF ConnectionCallInv

SameOf(t) ==
  /\ at'[t] = at[t] /\ active'[t] = active[t] /\ closed'[t] = closed[t]
  /\ hooked'[t] = hooked[t] /\ pending'[t] = pending[t]
  /\ published'[t] = published[t] /\ received'[t] = received[t]
  /\ t \in listening' <=> t \in listening
  /\ t \in unhooking' <=> t \in unhooking
  /\ t \in answered => t \in answered'
  /\ C!InQueue(t)' = C!InQueue(t)

LEMMA OthersSame ==
  ASSUME NEW t \in Subs, PlaceOf(t), CountedOf(t), SameOf(t), ctxOpen' => ctxOpen
  PROVE  PlaceOf(t)' /\ CountedOf(t)'
<1>1. PlaceOf(t)'
      BY DEF PlaceOf, SameOf
<1>2. CountedOf(t)'
      BY DEF CountedOf, SameOf
<1>. QED BY <1>1, <1>2

LEMMA SubsKept ==
  ASSUME SubInv, QueuedAnswered, UNCHANGED <<C!subVars, queue>>, ctxOpen' => ctxOpen
  PROVE  SubInv' /\ QueuedAnswered'
<1>1. QueuedAnswered'
      BY DEF QueuedAnswered, C!subVars
<1>2. ASSUME NEW t \in Subs PROVE SameOf(t)
      BY DEF SameOf, C!subVars, C!InQueue
<1>3. SubInv'
      BY <1>2, OthersSame DEF SubInv
<1>. QED BY <1>1, <1>3

(* What is over stays over: a step of the connection, that of a request    *)
(* let in, or that of one being handled.                                   *)
LEMMA EndKept ==
  ASSUME EndInv, UNCHANGED <<link, gate, phase, waiter>>, ctxOpen' \in BOOLEAN, ctxOpen' => ctxOpen,
         \/ UNCHANGED <<at, closed>>
         \/ gate
         \/ \E s \in Subs : at[s] \notin {"new", "done"}
  PROVE  EndInv'
BY DEF EndInv, C!Waiting

(* A step of subscription s. *)
LEMMA OneStep ==
  ASSUME ConnInv, NEW s \in Subs, \A t \in Subs \ {s} : SameOf(t), PlaceOf(s)', CountedOf(s)',
         QueuedAnswered', EndInv', ConnTyped', UNCHANGED C!schedVars, ctxOpen' => ctxOpen
  PROVE  ConnInv'
<1>1. SubInv'
  <2>1. ASSUME NEW t \in Subs \ {s} PROVE PlaceOf(t)' /\ CountedOf(t)'
        BY OthersSame DEF ConnInv, SubInv
  <2>. QED BY <2>1 DEF SubInv
<1>2. ConnectionCallInv'
      BY CallsKept DEF ConnInv
<1>. QED BY <1>1, <1>2 DEF ConnInv

LEMMA ConnectionCreateStep ==
  ASSUME ConnConstants, ConnInv, NEW s \in Subs, C!Create(s) PROVE ConnInv'
<1>1. /\ at[s] = "new" /\ gate
      /\ UNCHANGED <<link, ctxOpen, gate, phase, sender, queue, active, closed, pending, hooked,
                     listening, unhooking, published, received, answered, C!schedVars>>
      BY DEF C!Create
<1>2. /\ at' \in [Subs -> Places] /\ at'[s] \in {"created", "failed"}
      /\ \A t \in Subs \ {s} : at'[t] = at[t]
      BY DEF C!Create, C!Goes, ConnInv, ConnTyped, Places
<1>3. \A t \in Subs \ {s} : SameOf(t)
      BY <1>1, <1>2 DEF SameOf, C!InQueue
<1>4. PlaceOf(s)' /\ CountedOf(s)'
      BY <1>1, <1>2 DEF ConnInv, SubInv, PlaceOf, CountedOf, C!InQueue
<1>5. QueuedAnswered' /\ ConnTyped'
      BY <1>1, <1>2 DEF ConnInv, QueuedAnswered, ConnTyped
<1>6. EndInv'
      BY <1>1, EndKept DEF ConnInv, ConnTyped, C!schedVars
<1>. QED BY <1>1, <1>3, <1>4, <1>5, <1>6, OneStep

LEMMA ListenStep ==
  ASSUME ConnConstants, ConnInv, NEW s \in Subs, C!Listen(s) PROVE ConnInv'
<1>1. /\ at[s] = "created" /\ listening' = listening \cup {s}
      /\ UNCHANGED <<link, ctxOpen, gate, phase, sender, queue, active, closed, pending, hooked,
                     unhooking, published, received, answered, C!schedVars>>
      BY DEF C!Listen
<1>2. /\ at' \in [Subs -> Places] /\ at'[s] = "listening"
      /\ \A t \in Subs \ {s} : at'[t] = at[t]
      BY DEF C!Listen, C!Goes, ConnInv, ConnTyped, Places
<1>3. \A t \in Subs \ {s} : SameOf(t)
      BY <1>1, <1>2 DEF SameOf, C!InQueue
<1>4. PlaceOf(s)' /\ CountedOf(s)'
      BY <1>1, <1>2 DEF ConnInv, SubInv, PlaceOf, CountedOf, C!InQueue
<1>5. QueuedAnswered' /\ ConnTyped'
      BY <1>1, <1>2 DEF ConnInv, QueuedAnswered, ConnTyped
<1>6. EndInv'
      BY <1>1, EndKept DEF ConnInv, ConnTyped, C!schedVars
<1>. QED BY <1>1, <1>3, <1>4, <1>5, <1>6, OneStep

LEMMA HookStep ==
  ASSUME ConnConstants, ConnInv, NEW s \in Subs, C!Hook(s) PROVE ConnInv'
<1>1. /\ at[s] = "listening"
      /\ UNCHANGED <<link, ctxOpen, gate, phase, sender, queue, active, closed, pending,
                     unhooking, published, received, answered, C!schedVars>>
      BY DEF C!Hook
<1>2. /\ at' \in [Subs -> Places] /\ at'[s] = "hooked"
      /\ \A t \in Subs \ {s} : at'[t] = at[t]
      BY DEF C!Hook, C!Goes, ConnInv, ConnTyped, Places
<1>3. /\ listening' \subseteq Subs /\ hooked' \in [Subs -> BOOLEAN]
      /\ \A t \in Subs \ {s} : (t \in listening' <=> t \in listening) /\ hooked'[t] = hooked[t]
      /\ s \in listening' => hooked'[s] /\ ~closed[s]
      BY DEF C!Hook, C!SetCleanup, ConnInv, ConnTyped
<1>4. \A t \in Subs \ {s} : SameOf(t)
      BY <1>1, <1>2, <1>3 DEF SameOf, C!InQueue
<1>5. PlaceOf(s)' /\ CountedOf(s)'
      BY <1>1, <1>2, <1>3 DEF ConnInv, SubInv, PlaceOf, CountedOf, C!InQueue
<1>6. QueuedAnswered' /\ ConnTyped'
      BY <1>1, <1>2, <1>3 DEF ConnInv, QueuedAnswered, ConnTyped
<1>7. EndInv'
      BY <1>1, EndKept DEF ConnInv, ConnTyped, C!schedVars
<1>. QED BY <1>1, <1>4, <1>5, <1>6, <1>7, OneStep

LEMMA ReplyStep ==
  ASSUME ConnConstants, ConnInv, NEW s \in Subs, C!Reply(s) PROVE ConnInv'
<1>1. /\ at[s] = "hooked"
      /\ UNCHANGED <<link, gate, phase, sender, queue, active, closed, pending, hooked,
                     listening, unhooking, published, received, C!schedVars>>
      BY DEF C!Reply
<1>2. /\ at' \in [Subs -> Places] /\ at'[s] \in {"replied", "failed"}
      /\ at'[s] = "replied" => s \in answered'
      /\ \A t \in Subs \ {s} : at'[t] = at[t]
      /\ answered \subseteq answered' /\ answered' \subseteq Subs
      /\ ctxOpen' \in BOOLEAN /\ (ctxOpen' => ctxOpen)
  <2>1. ASSUME NEW to \in {"replied", "failed"}, C!Goes(s, to)
        PROVE  /\ at' \in [Subs -> Places] /\ at'[s] = to
               /\ \A t \in Subs \ {s} : at'[t] = at[t]
        BY <2>1 DEF C!Goes, ConnInv, ConnTyped, Places
  <2>2. answered \subseteq Subs /\ ctxOpen \in BOOLEAN
        BY DEF ConnInv, ConnTyped
  <2>3. CASE answered' = answered \cup {s} /\ C!Goes(s, "replied") /\ UNCHANGED ctxOpen
        BY <2>1, <2>2, <2>3
  <2>4. CASE C!Goes(s, "failed") /\ UNCHANGED answered /\ (ctxOpen' = FALSE \/ UNCHANGED ctxOpen)
    <3>1. ctxOpen' \in BOOLEAN
          BY <2>2, <2>4
    <3>2. ctxOpen' => ctxOpen
          BY ONLY <2>4, Zenon
    <3>. QED BY ONLY <2>1, <2>2, <2>4, <3>1, <3>2
  <2>. QED BY <2>3, <2>4 DEF C!Reply
<1>3. \A t \in Subs \ {s} : SameOf(t)
      BY <1>1, <1>2 DEF SameOf, C!InQueue
<1>4. PlaceOf(s)' /\ CountedOf(s)'
      BY <1>1, <1>2 DEF ConnInv, SubInv, PlaceOf, CountedOf, C!InQueue
<1>5. QueuedAnswered' /\ ConnTyped'
      BY <1>1, <1>2 DEF ConnInv, QueuedAnswered, ConnTyped
<1>6. EndInv'
      BY <1>1, <1>2, EndKept DEF ConnInv, ConnTyped, C!schedVars
<1>. QED BY <1>1, <1>2, <1>3, <1>4, <1>5, <1>6, OneStep

LEMMA ActivateStep ==
  ASSUME ConnConstants, ConnInv, NEW s \in Subs, C!Activate(s) PROVE ConnInv'
<1>1. /\ at[s] = "replied" /\ s \in answered
      /\ UNCHANGED <<link, gate, phase, sender, closed, hooked, listening, unhooking, published,
                     received, answered, C!schedVars>>
      BY DEF C!Activate, ConnInv, SubInv, PlaceOf
<1>2. /\ at' \in [Subs -> Places] /\ at'[s] = "done"
      /\ \A t \in Subs \ {s} : at'[t] = at[t]
      BY DEF C!Activate, C!Goes, ConnInv, ConnTyped, Places
<1>3. pending[s] \in Nat
      BY DEF ConnInv, ConnTyped, ConnConstants
<1>4. /\ queue' \in Seq(Subs) /\ Len(queue') <= QueueLimit
      /\ ctxOpen' \in BOOLEAN /\ (ctxOpen' => ctxOpen)
      /\ \A i \in DOMAIN queue' :
           queue'[i] = s \/ (i \in DOMAIN queue /\ queue'[i] = queue[i])
      /\ \A t \in Subs \ {s} :
           C!InQueue(t)' = C!InQueue(t) /\ active'[t] = active[t] /\ pending'[t] = pending[t]
      /\ \/ C!InQueue(s)' + pending'[s] = C!InQueue(s) + pending[s]
         \/ ~ctxOpen' /\ C!InQueue(s)' + pending'[s] <= C!InQueue(s) + pending[s]
      /\ active' \in [Subs -> BOOLEAN] /\ pending' \in [Subs -> 0..PendingLimit]
  <2>1. CASE closed[s]
    <3>1. UNCHANGED <<active, pending, ctxOpen, queue>>
          BY <2>1 DEF C!Activate
    <3>. QED BY <3>1 DEF ConnInv, ConnTyped, C!InQueue
  <2>2. CASE ~closed[s]
    <3>1. /\ active' = [active EXCEPT ![s] = TRUE] /\ C!Enqueue(s, pending[s])
          /\ pending' = [pending EXCEPT ![s] = 0]
          BY <2>2 DEF C!Activate
    <3>2. PICK n \in Nat : n = pending[s]
          BY <1>3
    <3>3. C!Enqueue(s, n)
          BY <3>1, <3>2
    <3>4. /\ queue' \in Seq(Subs) /\ Len(queue') <= QueueLimit
          /\ ctxOpen' \in BOOLEAN /\ (ctxOpen' => ctxOpen)
          /\ \A i \in DOMAIN queue' :
               queue'[i] = s \/ (i \in DOMAIN queue /\ queue'[i] = queue[i])
          /\ \A t \in Subs \ {s} : C!InQueue(t)' = C!InQueue(t)
          /\ C!InQueue(s)' = C!InQueue(s) + n \/ (~ctxOpen' /\ C!InQueue(s)' = C!InQueue(s))
          BY <3>3, EnqueueIs DEF ConnInv
    <3>5. /\ active' \in [Subs -> BOOLEAN] /\ pending' \in [Subs -> 0..PendingLimit]
          /\ pending'[s] = 0
          /\ \A t \in Subs \ {s} : active'[t] = active[t] /\ pending'[t] = pending[t]
          BY <3>1 DEF ConnInv, ConnTyped, ConnConstants
    <3>6. C!InQueue(s) \in Nat
          BY InQueueIs DEF ConnInv
    <3>7. \/ C!InQueue(s)' + pending'[s] = C!InQueue(s) + pending[s]
          \/ ~ctxOpen' /\ C!InQueue(s)' + pending'[s] <= C!InQueue(s) + pending[s]
          BY ONLY <3>2, <3>4, <3>5, <3>6
    <3>. QED BY <3>4, <3>5, <3>7
  <2>. QED BY <2>1, <2>2
<1>5. \A t \in Subs \ {s} : SameOf(t)
      BY <1>1, <1>2, <1>4 DEF SameOf
<1>6. PlaceOf(s)'
      BY <1>1, <1>2 DEF ConnInv, SubInv, PlaceOf
<1>7. CountedOf(s)'
  <2>1. C!InQueue(s) \in Nat /\ received[s] \in Nat /\ published[s] \in Nat
        BY InQueueIs DEF ConnInv, ConnTyped
  <2>2. CountedOf(s) /\ C!InQueue(s)' \in Nat /\ pending'[s] \in Nat
    <3>1. C!InQueue(s)' \in Nat
          BY <1>4, InQueueAfter, InQIs
    <3>. QED BY <1>4, <3>1 DEF ConnInv, SubInv, ConnConstants
  <2>3. UNCHANGED <<closed, received, published>> /\ (ctxOpen' => ctxOpen)
        BY <1>1, <1>4
  <2>4. received[s] + C!InQueue(s)' + pending'[s] <= published[s]
    <3>1. C!InQueue(s)' + pending'[s] <= C!InQueue(s) + pending[s]
          BY ONLY <1>3, <1>4, <2>1, <2>2
    <3>2. received[s] + C!InQueue(s) + pending[s] <= published[s]
          BY ONLY <2>2 DEF CountedOf
    <3>. QED BY ONLY <3>1, <3>2, <1>3, <2>1, <2>2
  <2>5. ASSUME ctxOpen', ~closed[s]
        PROVE  published[s] = received[s] + C!InQueue(s)' + pending'[s]
    <3>1. C!InQueue(s)' + pending'[s] = C!InQueue(s) + pending[s]
          BY ONLY <1>4, <2>5
    <3>2. published[s] = received[s] + C!InQueue(s) + pending[s]
          BY ONLY <2>2, <2>3, <2>5 DEF CountedOf
    <3>. QED BY ONLY <3>1, <3>2, <1>3, <2>1, <2>2
  <2>. QED BY ONLY <2>3, <2>4, <2>5 DEF CountedOf
<1>8. QueuedAnswered' /\ ConnTyped'
      BY <1>1, <1>2, <1>4 DEF ConnInv, QueuedAnswered, ConnTyped
<1>9. EndInv'
      BY <1>1, <1>4, EndKept DEF ConnInv, C!schedVars
<1>. QED BY <1>1, <1>4, <1>5, <1>6, <1>7, <1>8, <1>9, OneStep

LEMMA NotifyStep ==
  ASSUME ConnConstants, ConnInv, NEW s \in Subs, C!Notify(s) PROVE ConnInv'
<1>1. /\ s \in listening
      /\ UNCHANGED <<link, gate, phase, sender, at, active, closed, hooked, listening, unhooking,
                     received, answered, C!schedVars>>
      BY DEF C!Notify
<1>2. /\ published' \in [Subs -> Nat] /\ published'[s] = published[s] + 1
      /\ \A t \in Subs \ {s} : published'[t] = published[t]
      BY DEF C!Notify, ConnInv, ConnTyped
<1>3. /\ queue' \in Seq(Subs) /\ Len(queue') <= QueueLimit
      /\ ctxOpen' \in BOOLEAN /\ (ctxOpen' => ctxOpen)
      /\ \A i \in DOMAIN queue' :
           (queue'[i] = s /\ s \in answered) \/ (i \in DOMAIN queue /\ queue'[i] = queue[i])
      /\ \A t \in Subs \ {s} : C!InQueue(t)' = C!InQueue(t) /\ pending'[t] = pending[t]
      /\ \/ C!InQueue(s)' + pending'[s] = C!InQueue(s) + pending[s] + 1
         \/ /\ ~ctxOpen' \/ closed[s]
            /\ C!InQueue(s)' + pending'[s] = C!InQueue(s) + pending[s]
      /\ pending' \in [Subs -> 0..PendingLimit]
  <2>1. CASE UNCHANGED <<queue, pending>> /\ ((closed[s] /\ UNCHANGED ctxOpen) \/ ctxOpen' = FALSE)
    <3>1. \A t \in Subs : C!InQueue(t)' = C!InQueue(t)
          BY <2>1 DEF C!InQueue
    <3>2. ctxOpen' \in BOOLEAN /\ (ctxOpen' => ctxOpen) /\ (~ctxOpen' \/ closed[s])
      <4>1. ctxOpen' \in BOOLEAN
            BY <2>1 DEF ConnInv, ConnTyped
      <4>2. ctxOpen' => ctxOpen
            BY ONLY <2>1, Zenon
      <4>3. ~ctxOpen' \/ closed[s]
            BY ONLY <2>1, Zenon
      <4>. QED BY ONLY <4>1, <4>2, <4>3
    <3>. QED BY <2>1, <3>1, <3>2 DEF ConnInv, ConnTyped
  <2>2. CASE active[s] /\ C!Enqueue(s, 1) /\ UNCHANGED pending
    <3>1. /\ queue' \in Seq(Subs) /\ Len(queue') <= QueueLimit
          /\ ctxOpen' \in BOOLEAN /\ (ctxOpen' => ctxOpen)
          /\ \A i \in DOMAIN queue' :
               queue'[i] = s \/ (i \in DOMAIN queue /\ queue'[i] = queue[i])
          /\ \A t \in Subs \ {s} : C!InQueue(t)' = C!InQueue(t)
          /\ C!InQueue(s)' = C!InQueue(s) + 1 \/ (~ctxOpen' /\ C!InQueue(s)' = C!InQueue(s))
          BY <2>2, EnqueueIs DEF ConnInv
    <3>2. s \in answered
          BY <2>2 DEF ConnInv, SubInv, PlaceOf
    <3>3. C!InQueue(s) \in Nat /\ pending[s] \in Nat
          BY InQueueIs DEF ConnInv, ConnTyped, ConnConstants
    <3>4. \/ C!InQueue(s)' + pending'[s] = C!InQueue(s) + pending[s] + 1
          \/ ~ctxOpen' /\ C!InQueue(s)' + pending'[s] = C!InQueue(s) + pending[s]
          BY <2>2, <3>1, <3>3
    <3>. QED BY <2>2, <3>1, <3>2, <3>4 DEF ConnInv, ConnTyped
  <2>3. CASE /\ pending[s] # PendingLimit /\ pending' = [pending EXCEPT ![s] = @ + 1]
             /\ UNCHANGED <<queue, ctxOpen>>
    <3>1. pending[s] + 1 \in 0..PendingLimit /\ pending[s] \in Nat
          BY <2>3 DEF ConnInv, ConnTyped, ConnConstants
    <3>2. /\ pending' \in [Subs -> 0..PendingLimit] /\ pending'[s] = pending[s] + 1
          /\ \A t \in Subs \ {s} : pending'[t] = pending[t]
          BY <2>3, <3>1 DEF ConnInv, ConnTyped
    <3>3. \A t \in Subs : C!InQueue(t)' = C!InQueue(t) /\ C!InQueue(t) \in Nat
          BY <2>3, InQueueIs DEF C!InQueue, ConnInv
    <3>4. C!InQueue(s)' + pending'[s] = C!InQueue(s) + pending[s] + 1
          BY ONLY <3>1, <3>2, <3>3, s \in Subs
    <3>. QED BY <2>3, <3>2, <3>3, <3>4 DEF ConnInv, ConnTyped
  <2>. QED BY <2>1, <2>2, <2>3 DEF C!Notify, C!MayNotify
<1>4. \A t \in Subs \ {s} : SameOf(t)
      BY <1>1, <1>2, <1>3 DEF SameOf
<1>5. PlaceOf(s)'
      BY <1>1 DEF ConnInv, SubInv, PlaceOf
<1>6. CountedOf(s)'
  <2>1. /\ C!InQueue(s) \in Nat /\ received[s] \in Nat /\ published[s] \in Nat /\ pending[s] \in Nat
        BY InQueueIs DEF ConnInv, ConnTyped, ConnConstants
  <2>2. CountedOf(s) /\ C!InQueue(s)' \in Nat /\ pending'[s] \in Nat
    <3>1. C!InQueue(s)' \in Nat
          BY <1>3, InQueueAfter, InQIs
    <3>. QED BY <1>3, <3>1 DEF ConnInv, SubInv, ConnConstants
  <2>3. UNCHANGED <<closed, received>> /\ (ctxOpen' => ctxOpen)
        BY <1>1, <1>3
  <2>4. received[s] + C!InQueue(s)' + pending'[s] <= published[s] + 1
    <3>1. C!InQueue(s)' + pending'[s] <= C!InQueue(s) + pending[s] + 1
          BY ONLY <1>3, <2>1, <2>2
    <3>2. received[s] + C!InQueue(s) + pending[s] <= published[s]
          BY ONLY <2>2 DEF CountedOf
    <3>. QED BY ONLY <3>1, <3>2, <2>1, <2>2
  <2>5. ASSUME ctxOpen', ~closed[s]
        PROVE  published[s] + 1 = received[s] + C!InQueue(s)' + pending'[s]
    <3>1. C!InQueue(s)' + pending'[s] = C!InQueue(s) + pending[s] + 1
          BY ONLY <1>3, <2>5
    <3>2. published[s] = received[s] + C!InQueue(s) + pending[s]
          BY ONLY <2>2, <2>3, <2>5 DEF CountedOf
    <3>. QED BY ONLY <3>1, <3>2, <2>1, <2>2
  <2>. QED BY ONLY <1>2, <2>3, <2>4, <2>5 DEF CountedOf
<1>7. QueuedAnswered' /\ ConnTyped'
      BY <1>1, <1>2, <1>3 DEF ConnInv, QueuedAnswered, ConnTyped
<1>8. EndInv'
      BY <1>1, <1>3, EndKept DEF ConnInv, C!schedVars
<1>. QED BY <1>1, <1>3, <1>4, <1>5, <1>6, <1>7, <1>8, OneStep
-----------------------------------------------------------------------------
(* The ends of a subscription.                                             *)
LEMMA LessHeld ==
  ASSUME ConnConstants, ConnInv, NEW s \in Subs, closed'[s], pending'[s] = 0,
         UNCHANGED <<queue, received, published>>
  PROVE  CountedOf(s)'
<1>1. C!InQueue(s)' = C!InQueue(s) /\ C!InQueue(s) \in Nat
      BY InQueueIs DEF C!InQueue, ConnInv
<1>2. received[s] \in Nat /\ published[s] \in Nat /\ pending[s] \in Nat
      BY DEF ConnInv, ConnTyped, ConnConstants
<1>3. received[s] + C!InQueue(s) + pending[s] <= published[s]
      BY DEF ConnInv, SubInv, CountedOf
<1>4. received[s] + C!InQueue(s) + 0 <= published[s]
      BY ONLY <1>1, <1>2, <1>3
<1>. QED BY <1>1, <1>4 DEF CountedOf

LEMMA ClosingIs ==
  ASSUME ConnConstants, ConnTyped, NEW s \in Subs, C!Closing(s)
  PROVE  /\ closed' \in [Subs -> BOOLEAN] /\ closed'[s]
         /\ pending' \in [Subs -> 0..PendingLimit] /\ pending'[s] = 0
         /\ unhooking' \subseteq Subs /\ unhooking \subseteq unhooking'
         /\ ~closed[s] /\ hooked[s] => s \in unhooking'
         /\ \A t \in Subs \ {s} : /\ closed'[t] = closed[t] /\ pending'[t] = pending[t]
                                  /\ t \in unhooking' <=> t \in unhooking
<1>1. closed' \in [Subs -> BOOLEAN] /\ closed'[s] /\ \A t \in Subs \ {s} : closed'[t] = closed[t]
      BY DEF C!Closing, ConnTyped
<1>2. /\ pending' \in [Subs -> 0..PendingLimit] /\ pending'[s] = 0
      /\ \A t \in Subs \ {s} : pending'[t] = pending[t]
      BY DEF C!Closing, ConnTyped, ConnConstants
<1>3. /\ unhooking' \subseteq Subs /\ unhooking \subseteq unhooking'
      /\ ~closed[s] /\ hooked[s] => s \in unhooking'
      /\ \A t \in Subs \ {s} : t \in unhooking' <=> t \in unhooking
      BY DEF C!Closing, ConnTyped
<1>. QED BY <1>1, <1>2, <1>3

LEMMA CloseFailedStep ==
  ASSUME ConnConstants, ConnInv, NEW s \in Subs, C!CloseFailed(s) PROVE ConnInv'
<1>1. /\ at[s] = "failed" /\ C!Closing(s)
      /\ UNCHANGED <<link, ctxOpen, gate, phase, sender, queue, active, hooked,
                     listening, published, received, answered, C!schedVars>>
      BY DEF C!CloseFailed
<1>2. /\ at' \in [Subs -> Places] /\ at'[s] = "done"
      /\ \A t \in Subs \ {s} : at'[t] = at[t]
      BY DEF C!CloseFailed, C!Goes, ConnInv, ConnTyped, Places
<1>3. /\ closed' \in [Subs -> BOOLEAN] /\ closed'[s]
      /\ pending' \in [Subs -> 0..PendingLimit] /\ pending'[s] = 0
      /\ unhooking' \subseteq Subs /\ unhooking \subseteq unhooking'
      /\ ~closed[s] /\ hooked[s] => s \in unhooking'
      /\ \A t \in Subs \ {s} : /\ closed'[t] = closed[t] /\ pending'[t] = pending[t]
                               /\ t \in unhooking' <=> t \in unhooking
      BY <1>1, ClosingIs DEF ConnInv
<1>4. \A t \in Subs \ {s} : SameOf(t)
      BY <1>1, <1>2, <1>3 DEF SameOf, C!InQueue
<1>5. PlaceOf(s)'
      BY <1>1, <1>2, <1>3 DEF ConnInv, SubInv, PlaceOf
<1>6. CountedOf(s)'
      BY <1>1, <1>3, LessHeld
<1>7. QueuedAnswered' /\ ConnTyped'
      BY <1>1, <1>2, <1>3 DEF ConnInv, QueuedAnswered, ConnTyped
<1>8. EndInv'
      BY <1>1, EndKept DEF ConnInv, ConnTyped, C!schedVars
<1>. QED BY <1>1, <1>4, <1>5, <1>6, <1>7, <1>8, OneStep

LEMMA UnsubscribeStep ==
  ASSUME ConnConstants, ConnInv, NEW s \in Subs, C!Unsubscribe(s) PROVE ConnInv'
<1>1. /\ gate /\ C!Closing(s)
      /\ UNCHANGED <<link, ctxOpen, gate, phase, sender, queue, at, active, hooked,
                     listening, published, received, answered, C!schedVars>>
      BY DEF C!Unsubscribe
<1>2. /\ closed' \in [Subs -> BOOLEAN] /\ closed'[s]
      /\ pending' \in [Subs -> 0..PendingLimit] /\ pending'[s] = 0
      /\ unhooking' \subseteq Subs /\ unhooking \subseteq unhooking'
      /\ ~closed[s] /\ hooked[s] => s \in unhooking'
      /\ \A t \in Subs \ {s} : /\ closed'[t] = closed[t] /\ pending'[t] = pending[t]
                               /\ t \in unhooking' <=> t \in unhooking
      BY <1>1, ClosingIs DEF ConnInv
<1>3. \A t \in Subs \ {s} : SameOf(t)
      BY <1>1, <1>2 DEF SameOf, C!InQueue
<1>4. PlaceOf(s)'
      BY <1>1, <1>2 DEF ConnInv, SubInv, PlaceOf
<1>5. CountedOf(s)'
      BY <1>1, <1>2, LessHeld
<1>6. QueuedAnswered' /\ ConnTyped'
      BY <1>1, <1>2 DEF ConnInv, QueuedAnswered, ConnTyped
<1>7. EndInv'
      BY <1>1, EndKept DEF ConnInv, ConnTyped, C!schedVars
<1>. QED BY <1>1, <1>3, <1>4, <1>5, <1>6, <1>7, OneStep

LEMMA UnhookStep ==
  ASSUME ConnConstants, ConnInv, NEW s \in Subs, C!Unhook(s) PROVE ConnInv'
<1>1. /\ unhooking' = unhooking \ {s} /\ listening' = listening \ {s}
      /\ UNCHANGED <<link, ctxOpen, gate, phase, sender, queue, at, active, closed,
                     pending, hooked, published, received, answered, C!schedVars>>
      BY DEF C!Unhook
<1>2. \A t \in Subs \ {s} : SameOf(t)
      BY <1>1 DEF SameOf, C!InQueue
<1>3. PlaceOf(s)'
      BY <1>1 DEF ConnInv, SubInv, PlaceOf
<1>4. CountedOf(s)'
      BY <1>1 DEF ConnInv, SubInv, CountedOf, C!InQueue
<1>5. QueuedAnswered' /\ ConnTyped'
      BY <1>1 DEF ConnInv, QueuedAnswered, ConnTyped
<1>6. EndInv'
      BY <1>1, EndKept DEF ConnInv, ConnTyped, C!schedVars
<1>. QED BY <1>1, <1>2, <1>3, <1>4, <1>5, <1>6, OneStep

-----------------------------------------------------------------------------
(* The sender, and the end of the connection.                              *)
LEMMA SendStep ==
  ASSUME ConnConstants, ConnInv, C!Send PROVE ConnInv'
<1>1. /\ queue # <<>> /\ queue' = Tail(queue)
      /\ UNCHANGED <<link, gate, phase, at, active, closed, pending, hooked,
                     listening, unhooking, published, answered, C!schedVars>>
      BY DEF C!Send
<1>2. PICK s : s = Head(queue)
      OBVIOUS
<1>3. /\ s \in Subs /\ s = queue[1] /\ 1 \in DOMAIN queue
      /\ queue' \in Seq(Subs) /\ Len(queue') = Len(queue) - 1
      /\ \A i \in DOMAIN queue' : i + 1 \in DOMAIN queue /\ queue'[i] = queue[i + 1]
      /\ \A t \in Subs : Cardinality(InQ(queue', t)) =
           IF t = s THEN Cardinality(InQ(queue, t)) - 1 ELSE Cardinality(InQ(queue, t))
  <2>1. queue \in Seq(Subs) /\ queue # <<>>
        BY <1>1 DEF ConnInv, ConnTyped
  <2>. QED BY <1>1, <1>2, <2>1, CountPart
<1>4. \A t \in Subs : /\ C!InQueue(t) \in Nat
                      /\ C!InQueue(t)' = IF t = s THEN C!InQueue(t) - 1 ELSE C!InQueue(t)
      BY <1>3, InQueueIs, InQueueAfter DEF ConnInv
<1>5. s \in answered
      BY <1>3 DEF ConnInv, QueuedAnswered
<1>6. /\ sender' \in BOOLEAN /\ ctxOpen' \in BOOLEAN /\ (ctxOpen' => ctxOpen)
      /\ received' \in [Subs -> Nat] /\ \A t \in Subs \ {s} : received'[t] = received[t]
      /\ received'[s] = received[s] + 1 \/ (~ctxOpen' /\ received'[s] = received[s])
  <2>1. CASE link
        BY <1>2, <1>3, <2>1 DEF C!Send, ConnInv, ConnTyped
  <2>2. CASE ~link
        BY <1>3, <2>2 DEF C!Send, ConnInv, ConnTyped
  <2>. QED BY <2>1, <2>2
<1>7. \A t \in Subs \ {s} : SameOf(t)
      BY <1>1, <1>4, <1>6 DEF SameOf
<1>8. PlaceOf(s)'
      BY <1>1, <1>3, <1>5 DEF ConnInv, SubInv, PlaceOf
<1>9. CountedOf(s)'
  <2>1. /\ C!InQueue(s) \in Nat /\ received[s] \in Nat /\ published[s] \in Nat /\ pending[s] \in Nat
        BY <1>3, <1>4 DEF ConnInv, ConnTyped, ConnConstants
  <2>2. C!InQueue(s)' = C!InQueue(s) - 1 /\ UNCHANGED <<closed, pending, published>>
        BY <1>1, <1>3, <1>4
  <2>3. CountedOf(s)
        BY <1>3 DEF ConnInv, SubInv
  <2>4. CASE received'[s] = received[s] + 1
        BY ONLY <1>6, <2>1, <2>2, <2>3, <2>4 DEF CountedOf
  <2>5. CASE ~ctxOpen' /\ received'[s] = received[s]
        BY ONLY <2>1, <2>2, <2>3, <2>5 DEF CountedOf
  <2>. QED BY <1>6, <2>4, <2>5
<1>10. QueuedAnswered'
      BY <1>1, <1>3 DEF ConnInv, QueuedAnswered
<1>11. ConnTyped'
  <2>1. Len(queue') <= QueueLimit
        BY <1>3, LenProperties DEF ConnInv, ConnTyped, ConnConstants
  <2>. QED BY <1>1, <1>3, <1>6, <2>1 DEF ConnInv, ConnTyped
<1>12. EndInv'
      BY <1>1, <1>6, EndKept DEF ConnInv, C!schedVars
<1>. QED BY <1>1, <1>3, <1>6, <1>7, <1>8, <1>9, <1>10, <1>11, <1>12, OneStep

LEMMA DownStep ==
  ASSUME ConnConstants, ConnInv, C!SenderEnds \/ C!LinkDown \/ C!Drain PROVE ConnInv'
<1>1. UNCHANGED <<queue, C!subVars, C!schedVars>>
      BY DEF C!SenderEnds, C!LinkDown, C!Drain
<1>2. /\ link' \in BOOLEAN /\ ctxOpen' \in BOOLEAN /\ gate' \in BOOLEAN /\ sender' \in BOOLEAN
      /\ phase' \in {"running", "draining", "closed"}
      BY DEF C!SenderEnds, C!LinkDown, C!Drain, ConnInv, ConnTyped
<1>3. ctxOpen' => ctxOpen
      BY DEF C!SenderEnds, C!LinkDown, C!Drain
<1>4. ConnTyped'
      BY <1>1, <1>2 DEF ConnInv, ConnTyped, C!subVars
<1>5. SubInv' /\ QueuedAnswered'
      BY <1>1, <1>3, SubsKept DEF ConnInv
<1>6. EndInv'
      BY <1>1 DEF C!SenderEnds, C!LinkDown, C!Drain, ConnInv, EndInv, C!Waiting, C!subVars,
         C!schedVars
<1>7. ConnectionCallInv'
      BY <1>1, CallsKept DEF ConnInv
<1>. QED BY <1>4, <1>5, <1>6, <1>7 DEF ConnInv

LEMMA CloseAllStep ==
  ASSUME ConnConstants, ConnInv, C!CloseAll PROVE ConnInv'
<1>1. /\ phase = "draining" /\ C!MayClose /\ phase' = "closed"
      /\ closed' = [s \in Subs |-> TRUE] /\ pending' = [s \in Subs |-> 0]
      /\ unhooking' = unhooking \cup {s \in Subs : ~closed[s] /\ hooked[s]}
      /\ UNCHANGED <<link, ctxOpen, gate, sender, queue, at, active, hooked,
                     listening, published, received, answered, C!schedVars>>
      BY DEF C!CloseAll
<1>2. ConnTyped'
  <2>1. closed' \in [Subs -> BOOLEAN] /\ unhooking' \subseteq Subs
        BY <1>1 DEF ConnInv, ConnTyped
  <2>2. pending' \in [Subs -> 0..PendingLimit]
        BY <1>1 DEF ConnConstants
  <2>. QED BY <1>1, <2>1, <2>2 DEF ConnInv, ConnTyped
<1>3. SubInv'
  <2> SUFFICES ASSUME NEW s \in Subs PROVE PlaceOf(s)' /\ CountedOf(s)'
      BY DEF SubInv
  <2>1. PlaceOf(s)'
        BY <1>1 DEF ConnInv, SubInv, PlaceOf
  <2>2. CountedOf(s)'
        BY <1>1, LessHeld
  <2>. QED BY <2>1, <2>2
<1>4. QueuedAnswered'
      BY <1>1 DEF ConnInv, QueuedAnswered
<1>5. ConnectionCallInv'
      BY <1>1, CallsKept DEF ConnInv
<1>6. EndInv'
  <2>1. \A s \in Subs : at[s] \in {"new", "done"}
        BY <1>1 DEF C!MayClose, C!Handling
  <2>2. \A c \in Own : ~C!Waiting(c)
        BY <1>1 DEF C!MayClose, C!Handling
  <2>. QED BY <1>1, <2>1, <2>2 DEF ConnInv, EndInv, C!Waiting, C!schedVars
<1>. QED BY <1>2, <1>3, <1>4, <1>5, <1>6 DEF ConnInv
-----------------------------------------------------------------------------
(* The writes of the session.                                              *)
LEMMA ConnectionCallStep ==
  ASSUME ConnInv, ConnectionCallInv', EndInv',
         UNCHANGED <<link, ctxOpen, gate, phase, sender, queue, C!subVars>>
  PROVE  ConnInv'
<1>1. ConnTyped'
      BY DEF ConnInv, ConnTyped, C!subVars
<1>2. SubInv' /\ QueuedAnswered'
      BY SubsKept DEF ConnInv
<1>. QED BY <1>1, <1>2 DEF ConnInv

(* What a queue holds.                                                     *)
LEMMA QueueHolds ==
  ASSUME WriteTyped, NEW q \in Calls
  PROVE  /\ QueueOf(q) \in Seq(Calls) /\ Len(QueueOf(q)) \in Nat
         /\ \A i \in 1..Len(QueueOf(q)) : QueueOf(q)[i] \in Calls
         /\ QueueOf(q) # <<>> => Len(QueueOf(q)) # 0 /\ Head(QueueOf(q)) = QueueOf(q)[1]
<1>1. QueueOf(q) \in Seq(Calls)
      BY DEF WriteTyped, QueueOf
<1>. QED BY <1>1, LenProperties, ElementOfSeq, EmptySeq

(* Another place for a goroutine.                                          *)
LEMMA PlaceChanged ==
  ASSUME WriteTyped, NEW k \in Calls, NEW place \in RunnerPlaces,
         runner' = [runner EXCEPT ![k].at = place]
  PROVE  /\ runner' \in [Calls -> [at : RunnerPlaces, queue : Calls, item : Calls]]
         /\ runner'[k].at = place /\ runner'[k].queue = runner[k].queue
         /\ runner'[k].item = runner[k].item
         /\ \A j \in Calls \ {k} : runner'[j] = runner[j]
<1>1. runner \in [Calls -> [at : RunnerPlaces, queue : Calls, item : Calls]]
      BY DEF WriteTyped
<1>2. PICK new : new = [runner[k] EXCEPT !.at = place]
      OBVIOUS
<1>3. runner[k] \in [at : RunnerPlaces, queue : Calls, item : Calls]
      BY <1>1
<1>4. /\ new \in [at : RunnerPlaces, queue : Calls, item : Calls]
      /\ new.at = place /\ new.queue = runner[k].queue /\ new.item = runner[k].item
      BY <1>2, <1>3
<1>5. runner' = [runner EXCEPT ![k] = new]
      BY <1>2
<1>. QED BY <1>1, <1>4, <1>5

(* Another state for a call, or its answer.                                *)
LEMMA CallChanged ==
  ASSUME WriteTyped, NEW c \in Calls, NEW new \in [state : CallStates, done : BOOLEAN],
         scheduled' = [scheduled EXCEPT ![c] = new]
  PROVE  /\ scheduled' \in [Calls -> [state : CallStates, done : BOOLEAN]]
         /\ scheduled'[c] = new /\ \A d \in Calls \ {c} : scheduled'[d] = scheduled[d]
BY DEF WriteTyped

(* A goroutine goes on with its item: checks it, begins, ends or answers.  *)
Onward(k, place) ==
  /\ runner[k].at \in {"taken", "claiming", "running", "answering"}
  /\ runner' = [runner EXCEPT ![k].at = place]
  /\ UNCHANGED <<scheduler, waiter>>
  /\ \/ place = "claiming" /\ scheduled' = scheduled
     \/ place = "answering" /\ scheduled' = scheduled
     \/ /\ place = "running" /\ scheduled[runner[k].item].state = "waiting"
        /\ scheduled' = [scheduled EXCEPT ![runner[k].item].state = "started"]
     \/ /\ place = "popping" /\ scheduled' = [scheduled EXCEPT ![runner[k].item].done = TRUE]

LEMMA OnwardStep ==
  ASSUME ConnectionCallInv, C!Up, NEW k \in Calls, NEW place, Onward(k, place)
  PROVE  ConnectionCallInv'
<1> DEFINE c == runner[k].item
           q == runner[k].queue
<1>1. WriteTyped /\ c \in Calls /\ q \in Calls /\ runner[k].at \in HasItem
      BY DEF ConnectionCallInv, WriteTyped, Onward, HasItem
<1>2. /\ place \in {"claiming", "running", "answering", "popping"}
      /\ runner' \in [Calls -> [at : RunnerPlaces, queue : Calls, item : Calls]]
      /\ runner'[k].at = place /\ runner'[k].queue = q /\ runner'[k].item = c
      /\ \A j \in Calls \ {k} : runner'[j] = runner[j]
  <2>1. place \in {"claiming", "running", "answering", "popping"}
        BY DEF Onward
  <2>2. place \in RunnerPlaces /\ runner' = [runner EXCEPT ![k].at = place]
        BY <2>1 DEF Onward, RunnerPlaces
  <2>. QED BY <1>1, <2>1, <2>2, PlaceChanged
<1>3. \A r \in Calls : QueueOf(r)' = QueueOf(r)
      BY DEF Onward, QueueOf
<1>4. /\ scheduled' \in [Calls -> [state : CallStates, done : BOOLEAN]]
      /\ scheduled'[c].state = IF place = "running" THEN "started" ELSE scheduled[c].state
      /\ scheduled'[c].done = (IF place = "popping" THEN TRUE ELSE scheduled[c].done)
      /\ \A d \in Calls \ {c} : scheduled'[d] = scheduled[d]
  <2>1. scheduled[c] \in [state : CallStates, done : BOOLEAN]
        BY <1>1 DEF WriteTyped
  <2>2. CASE place \in {"claiming", "answering"}
        BY <2>2, <1>1 DEF Onward, WriteTyped
  <2>3. CASE place = "running"
    <3>1. PICK new : new = [scheduled[c] EXCEPT !.state = "started"]
          OBVIOUS
    <3>2. /\ new \in [state : CallStates, done : BOOLEAN]
          /\ new.state = "started" /\ new.done = scheduled[c].done
          BY <2>1, <3>1 DEF CallStates
    <3>3. scheduled' = [scheduled EXCEPT ![c] = new]
          BY <2>3, <3>1 DEF Onward
    <3>. QED BY <2>3, <3>2, <3>3, <1>1, CallChanged
  <2>4. CASE place = "popping"
    <3>1. PICK new : new = [scheduled[c] EXCEPT !.done = TRUE]
          OBVIOUS
    <3>2. /\ new \in [state : CallStates, done : BOOLEAN]
          /\ new.done = TRUE /\ new.state = scheduled[c].state
          BY <2>1, <3>1
    <3>3. scheduled' = [scheduled EXCEPT ![c] = new]
          BY <2>4, <3>1 DEF Onward
    <3>. QED BY <2>4, <3>2, <3>3, <1>1, CallChanged
  <2>. QED BY <2>2, <2>3, <2>4, <1>2
<1>5. /\ scheduled[c].state # "new"
      /\ \A r \in Calls : \A i \in 1..Len(QueueOf(r)) : QueueOf(r)[i] = c => r = q /\ i = 1
      BY <1>1 DEF ConnectionCallInv, ItemIsFirst
<1>6. \A d \in Calls : scheduled'[d].state = "new" <=> scheduled[d].state = "new"
      BY <1>1, <1>4, <1>5
<1> HIDE DEF c, q
<1>7. WriteTyped'
      BY <1>1, <1>2, <1>4 DEF WriteTyped, Onward
<1>8. Unscheduled'
  <2> SUFFICES ASSUME NEW d \in Calls, scheduled'[d].state = "new"
               PROVE  ~scheduled'[d].done /\ runner'[d].at = "none"
      BY DEF Unscheduled
  <2>1. scheduled[d].state = "new" /\ d # c
        BY <1>5, <1>6
  <2>2. ~scheduled[d].done /\ runner[d].at = "none"
        BY <2>1 DEF ConnectionCallInv, Unscheduled
  <2>3. d # k
        BY <2>2, <1>1 DEF HasItem
  <2>. QED BY <2>1, <2>2, <2>3, <1>2, <1>4
<1>9. QueuedOnce'
  <2>1. \A r \in Calls : \A i \in 1..Len(QueueOf(r)) : QueueOf(r)[i] \in Calls
        BY <1>1, QueueHolds
  <2>. QED BY <2>1, <1>3, <1>6 DEF ConnectionCallInv, QueuedOnce
<1>10. ItemIsFirst'
  <2> SUFFICES ASSUME NEW j \in Calls, runner'[j].at \in HasItem
               PROVE  /\ scheduled'[runner'[j].item].state # "new"
                      /\ \A r \in Calls : \A i \in 1..Len(QueueOf(r)) :
                           QueueOf(r)[i] = runner'[j].item => r = runner'[j].queue /\ i = 1
      BY <1>3 DEF ItemIsFirst
  <2>1. CASE j = k
        BY <2>1, <1>1, <1>2, <1>5, <1>6
  <2>2. CASE j # k
    <3>1. runner'[j] = runner[j] /\ runner[j].item \in Calls
          BY <2>2, <1>1, <1>2 DEF WriteTyped
    <3>. QED BY <3>1, <1>6 DEF ConnectionCallInv, ItemIsFirst
  <2>. QED BY <2>1, <2>2
<1>11. AnsweredIsPopped'
  <2> SUFFICES ASSUME NEW r \in Calls, NEW i \in 1..Len(QueueOf(r)), scheduled'[QueueOf(r)[i]].done
               PROVE  \E j \in Calls : /\ runner'[j].at = "popping" /\ runner'[j].queue = r
                                       /\ runner'[j].item = QueueOf(r)[i]
      BY <1>3 DEF AnsweredIsPopped
  <2>1. QueueOf(r)[i] \in Calls
        BY <1>1, QueueHolds
  <2>2. CASE scheduled[QueueOf(r)[i]].done
    <3>1. PICK j \in Calls : /\ runner[j].at = "popping" /\ runner[j].queue = r
                             /\ runner[j].item = QueueOf(r)[i]
          BY <2>2 DEF ConnectionCallInv, AnsweredIsPopped
    <3>2. j # k
          BY <3>1 DEF Onward
    <3>. QED BY <3>1, <3>2, <1>2
  <2>3. CASE ~scheduled[QueueOf(r)[i]].done
    <3>1. QueueOf(r)[i] = c /\ place = "popping"
          BY <2>1, <2>3, <1>4
    <3>. QED BY <3>1, <1>2, <1>5
  <2>. QED BY <2>2, <2>3
<1>12. C!RunsOnce'
  <2> SUFFICES ASSUME NEW a \in Calls, runner'[a].at = "running"
               PROVE  /\ scheduled'[runner'[a].item].state = "started"
                      /\ \A b \in Calls :
                           runner'[b].at = "running" /\ runner'[b].item = runner'[a].item => b = a
      BY DEF C!RunsOnce, C!Runs, C!ItemOf
  <2>1. \A b \in Calls : b # k => runner'[b] = runner[b] /\ runner[b].item \in Calls
        BY <1>1, <1>2 DEF WriteTyped
  <2>2. \A b \in Calls : runner[b].at = "running" =>
          /\ scheduled[runner[b].item].state = "started"
          /\ \A d \in Calls : runner[d].at = "running" /\ runner[d].item = runner[b].item => d = b
        BY DEF ConnectionCallInv, C!RunsOnce, C!Runs, C!ItemOf
  <2>3. place = "running" => scheduled[c].state = "waiting"
        BY DEF Onward, c
  <2>4. \A b \in Calls : b # k /\ runner[b].at = "running" => scheduled'[runner[b].item].state = "started"
        BY <2>1, <2>2, <1>1, <1>4
  <2>5. place = "running" => \A b \in Calls : b # k /\ runner[b].at = "running" => runner[b].item # c
        BY <2>2, <2>3
  <2>6. CASE a = k
    <3>1. place = "running" /\ runner'[k].item = c /\ scheduled'[c].state = "started"
          BY <2>6, <1>2, <1>4
    <3>2. ASSUME NEW b \in Calls, runner'[b].at = "running", runner'[b].item = runner'[a].item, b # k
          PROVE  FALSE
      <4>1. runner[b].at = "running" /\ runner[b].item = c
            BY <3>1, <3>2, <2>1, <2>6
      <4>. QED BY <3>1, <3>2, <4>1, <2>5
    <3>3. \A b \in Calls : runner'[b].at = "running" /\ runner'[b].item = runner'[a].item => b = a
          BY <2>6, <3>2
    <3>. QED BY <2>6, <3>1, <3>3
  <2>7. CASE a # k
    <3>1. runner'[a] = runner[a] /\ runner[a].at = "running"
          BY <2>7, <2>1
    <3>2. ASSUME NEW b \in Calls, runner'[b].at = "running", runner'[b].item = runner'[a].item
          PROVE  b = a
      <4>1. CASE b = k
            BY <3>1, <3>2, <4>1, <2>5, <2>7, <1>2
      <4>2. CASE b # k
            BY <3>1, <3>2, <4>2, <2>1, <2>2
      <4>. QED BY <4>1, <4>2
    <3>3. scheduled'[runner'[a].item].state = "started"
          BY <3>1, <2>4, <2>7
    <3>4. \A b \in Calls : runner'[b].at = "running" /\ runner'[b].item = runner'[a].item => b = a
          BY <3>2
    <3>. QED BY <3>3, <3>4
  <2>. QED BY <2>6, <2>7
<1>13. C!NothingStalls'
  <2> SUFFICES ASSUME NEW r \in Calls, QueueOf(r) # <<>>
               PROVE  \E j \in Calls : runner'[j].queue = r /\ C!GoesOn(j)'
      BY <1>3 DEF C!NothingStalls, QueueOf
  <2>1. PICK j \in Calls : runner[j].queue = r /\ C!GoesOn(j)
        BY DEF ConnectionCallInv, C!NothingStalls, QueueOf
  <2>2. 1 \in 1..Len(QueueOf(r)) /\ Head(QueueOf(r)) = QueueOf(r)[1]
        BY <1>1, QueueHolds
  <2>3. \A b \in Calls : runner'[b].at = "popping" => C!GoesOn(b)'
        BY DEF C!GoesOn, C!Runs
  <2>4. CASE place = "popping"
    <3>1. CASE j = k
          BY <3>1, <2>1, <2>3, <2>4, <1>2 DEF q
    <3>2. CASE j # k /\ runner[j].item # c
      <4>1. runner'[j] = runner[j] /\ runner[j].item \in Calls /\ scheduled'[runner[j].item] = scheduled[runner[j].item]
            BY <3>2, <1>1, <1>2, <1>4 DEF WriteTyped
      <4>2. C!GoesOn(j)'
            BY <4>1, <2>1, <1>3 DEF C!GoesOn, C!Runs, C!Room, C!CallsOf, QueueOf, Onward
      <4>. QED BY <2>1, <4>1, <4>2
    <3>3. CASE j # k /\ runner[j].item = c
      <4>1. CASE runner[j].at \in {"taking", "popping"}
        <5>1. C!GoesOn(j)' /\ runner'[j] = runner[j]
              BY <3>3, <4>1, <1>2 DEF C!GoesOn, C!Runs
        <5>. QED BY <5>1, <2>1
      <4>2. CASE runner[j].at \notin {"taking", "popping"}
        <5>1. Head(QueueOf(r)) = c
              BY <2>1, <3>3, <4>2 DEF C!GoesOn, C!Runs, C!CallsOf, QueueOf
        <5>2. r = q
              BY <5>1, <2>2, <1>5
        <5>. QED BY <5>2, <2>3, <2>4, <1>2
      <4>. QED BY <4>1, <4>2
    <3>. QED BY <3>1, <3>2, <3>3
  <2>5. CASE place # "popping"
    <3>1. \A d \in Calls : scheduled'[d].done = scheduled[d].done
          BY <2>5, <1>1, <1>4
    <3>2. CASE j # k
      <4>1. runner'[j] = runner[j] /\ runner[j].item \in Calls
            BY <3>2, <1>1, <1>2 DEF WriteTyped
      <4>2. C!GoesOn(j)'
            BY <4>1, <3>1, <2>1 DEF C!GoesOn, C!Runs, C!Room, C!CallsOf, Onward
      <4>. QED BY <2>1, <4>1, <4>2
    <3>3. CASE j = k
      <4>1. r = q /\ c = Head(QueueOf(r))
            BY <3>3, <2>1 DEF C!GoesOn, C!Runs, C!CallsOf, QueueOf, Onward, q, c
      <4>2. CASE scheduled[c].done
        <5>1. PICK b \in Calls : /\ runner[b].at = "popping" /\ runner[b].queue = r
                                 /\ runner[b].item = c
              BY <4>1, <4>2, <2>2 DEF ConnectionCallInv, AnsweredIsPopped
        <5>2. b # k
              BY <5>1 DEF Onward
        <5>. QED BY <5>1, <5>2, <2>3, <1>2
      <4>3. CASE ~scheduled[c].done
        <5>1. ~scheduled'[c].done /\ runner'[k].item = Head(QueueOf(r))' /\ runner'[k].queue = r
              BY <4>1, <4>3, <3>1, <1>1, <1>2, <1>3
        <5>2. C!GoesOn(k)'
              BY <5>1, <2>5, <1>2 DEF C!GoesOn, C!Runs, C!Room, C!CallsOf, QueueOf
        <5>. QED BY <5>1, <5>2
      <4>. QED BY <4>2, <4>3
    <3>. QED BY <3>2, <3>3
  <2>. QED BY <2>4, <2>5
<1>. QED BY <1>7, <1>8, <1>9, <1>10, <1>11, <1>12, <1>13 DEF ConnectionCallInv

(* The calls of one queue change.                                          *)
LEMMA QueueChanged ==
  ASSUME WriteTyped, NEW q \in Calls, NEW new \in Seq(Calls), NEW named \in SUBSET Calls,
         scheduler' = [named |-> named, calls |-> [scheduler.calls EXCEPT ![q] = new]]
  PROVE  /\ scheduler' \in [named : SUBSET Calls, calls : [Calls -> Seq(Calls)]]
         /\ QueueOf(q)' = new /\ \A r \in Calls \ {q} : QueueOf(r)' = QueueOf(r)
<1>1. scheduler.calls \in [Calls -> Seq(Calls)]
      BY DEF WriteTyped
<1>2. scheduler'.calls = [scheduler.calls EXCEPT ![q] = new] /\ scheduler'.named = named
      OBVIOUS
<1>. QED BY <1>1, <1>2 DEF QueueOf

(* A goroutine takes the first of its queue, or ends.                      *)
LEMMA GoroutineTakeStep ==
  ASSUME ConnectionCallInv, C!Up, NEW k \in Calls, C!Take(k)
  PROVE  ConnectionCallInv' /\ UNCHANGED waiter
<1>0. PICK q : q = runner[k].queue
      OBVIOUS
<1>1. WriteTyped /\ runner[k].at = "taking" /\ q \in Calls /\ UNCHANGED <<scheduled, waiter>>
      BY <1>0 DEF ConnectionCallInv, WriteTyped, C!Take, C!Runs
<1>2. \/ /\ QueueOf(q) = <<>> /\ runner' = [runner EXCEPT ![k].at = "over"]
         /\ scheduler' = [scheduler EXCEPT !.named = {}]
      \/ /\ QueueOf(q) # <<>> /\ UNCHANGED scheduler
         /\ runner' = [runner EXCEPT ![k].at = "taken", ![k].item = Head(QueueOf(q))]
      BY <1>0, <1>1 DEF C!Take, C!CallsOf, C!Moves, QueueOf
<1>3. /\ scheduler' \in [named : SUBSET Calls, calls : [Calls -> Seq(Calls)]]
      /\ \A r \in Calls : QueueOf(r)' = QueueOf(r)
  <2>1. scheduler \in [named : SUBSET Calls, calls : [Calls -> Seq(Calls)]]
        BY <1>1 DEF WriteTyped
  <2>. QED BY <2>1, <1>2 DEF QueueOf
<1>4. /\ QueueOf(q) \in Seq(Calls) /\ \A r \in Calls : \A i \in 1..Len(QueueOf(r)) : QueueOf(r)[i] \in Calls
      /\ QueueOf(q) # <<>> => 1 \in 1..Len(QueueOf(q)) /\ Head(QueueOf(q)) = QueueOf(q)[1]
      BY <1>1, QueueHolds
<1>5. /\ runner' \in [Calls -> [at : RunnerPlaces, queue : Calls, item : Calls]]
      /\ runner'[k].queue = q
      /\ \/ runner'[k].at = "over" /\ QueueOf(q) = <<>>
         \/ runner'[k].at = "taken" /\ QueueOf(q) # <<>> /\ runner'[k].item = QueueOf(q)[1]
      /\ \A j \in Calls \ {k} : runner'[j] = runner[j]
  <2>1. runner \in [Calls -> [at : RunnerPlaces, queue : Calls, item : Calls]]
        BY <1>1 DEF WriteTyped
  <2>2. runner[k] \in [at : RunnerPlaces, queue : Calls, item : Calls]
        BY <2>1
  <2>3. CASE QueueOf(q) = <<>>
        BY <2>3, <1>1, <1>2, PlaceChanged, <1>0 DEF RunnerPlaces
  <2>4. CASE QueueOf(q) # <<>>
    <3>1. PICK new : new = [runner[k] EXCEPT !.at = "taken", !.item = Head(QueueOf(q))]
          OBVIOUS
    <3>2. Head(QueueOf(q)) \in Calls
          BY <2>4, <1>1, <1>4
    <3>3. /\ new \in [at : RunnerPlaces, queue : Calls, item : Calls]
          /\ new.at = "taken" /\ new.queue = q /\ new.item = Head(QueueOf(q))
          BY <2>2, <3>1, <3>2, <1>0 DEF RunnerPlaces
    <3>4. runner' = [runner EXCEPT ![k] = new]
          BY <2>4, <1>2, <3>1
    <3>. QED BY <2>1, <2>4, <3>3, <3>4, <1>4
  <2>. QED BY <2>3, <2>4
<1>6. WriteTyped'
      BY <1>1, <1>3, <1>5 DEF WriteTyped
<1>7. Unscheduled'
  <2>1. \A c \in Calls : scheduled[c].state = "new" => c # k /\ runner[c].at = "none" /\ ~scheduled[c].done
        BY <1>1 DEF ConnectionCallInv, Unscheduled
  <2>. QED BY <2>1, <1>1, <1>5 DEF Unscheduled
<1>8. QueuedOnce'
      BY <1>1, <1>3 DEF ConnectionCallInv, QueuedOnce
<1>9. ItemIsFirst'
  <2> SUFFICES ASSUME NEW j \in Calls, runner'[j].at \in HasItem
               PROVE  /\ scheduled[runner'[j].item].state # "new"
                      /\ \A r \in Calls : \A i \in 1..Len(QueueOf(r)) :
                           QueueOf(r)[i] = runner'[j].item => r = runner'[j].queue /\ i = 1
      BY <1>1, <1>3 DEF ItemIsFirst
  <2>1. CASE j = k
    <3>1. QueueOf(q) # <<>> /\ runner'[k].item = QueueOf(q)[1] /\ runner'[k].queue = q
          BY <2>1, <1>5 DEF HasItem
    <3>. QED BY <2>1, <3>1, <1>1, <1>4 DEF ConnectionCallInv, QueuedOnce
  <2>2. CASE j # k
        BY <2>2, <1>5 DEF ConnectionCallInv, ItemIsFirst
  <2>. QED BY <2>1, <2>2
<1>10. AnsweredIsPopped'
  <2>0. \A r \in Calls : QueueOf(r)' = QueueOf(r)
        BY <1>3
  <2> SUFFICES ASSUME NEW r \in Calls, NEW i \in 1..Len(QueueOf(r)), scheduled'[QueueOf(r)[i]].done
               PROVE  \E j \in Calls : /\ runner'[j].at = "popping" /\ runner'[j].queue = r
                                       /\ runner'[j].item = QueueOf(r)[i]
      BY <2>0 DEF AnsweredIsPopped
  <2>1. PICK j \in Calls : /\ runner[j].at = "popping" /\ runner[j].queue = r
                           /\ runner[j].item = QueueOf(r)[i]
        BY <1>1 DEF ConnectionCallInv, AnsweredIsPopped
  <2>. QED BY <2>1, <1>1, <1>5
<1>11. C!RunsOnce'
  <2>1. \A j \in Calls : runner'[j].at = "running" => runner'[j] = runner[j]
        BY <1>5
  <2>. QED BY <2>1, <1>1 DEF ConnectionCallInv, C!RunsOnce, C!Runs, C!ItemOf
<1>12. C!NothingStalls'
  <2> SUFFICES ASSUME NEW r \in Calls, QueueOf(r) # <<>>
               PROVE  \E j \in Calls : runner'[j].queue = r /\ C!GoesOn(j)'
      BY <1>3 DEF C!NothingStalls, QueueOf
  <2>1. PICK j \in Calls : runner[j].queue = r /\ C!GoesOn(j)
        BY DEF ConnectionCallInv, C!NothingStalls, QueueOf
  <2>2. CASE j = k
    <3>1. r = q /\ runner'[k].at = "taken" /\ runner'[k].item = Head(QueueOf(q)) /\ runner'[k].queue = q
          BY <2>1, <2>2, <1>0, <1>4, <1>5
    <3>2. C!GoesOn(k)'
          BY <3>1, <1>1, <1>3 DEF C!GoesOn, C!Runs, C!CallsOf, QueueOf
    <3>. QED BY <3>1, <3>2
  <2>3. CASE j # k
    <3>1. runner'[j] = runner[j] /\ C!CallsOf(j)' = C!CallsOf(j)
          BY <2>1, <2>3, <1>3, <1>5 DEF C!CallsOf, QueueOf
    <3>2. C!GoesOn(j)'
          BY <2>1, <3>1, <1>1 DEF C!GoesOn, C!Runs, C!Room
    <3>. QED BY <2>1, <3>1, <3>2
  <2>. QED BY <2>2, <2>3
<1>. QED BY <1>1, <1>6, <1>7, <1>8, <1>9, <1>10, <1>11, <1>12 DEF ConnectionCallInv

(* A goroutine pops the first of its queue, which another may have done.   *)
LEMMA GoroutinePopStep ==
  ASSUME ConnectionCallInv, C!Up, NEW k \in Calls, C!Pop(k)
  PROVE  ConnectionCallInv' /\ UNCHANGED waiter
<1>0. PICK q : q = runner[k].queue
      OBVIOUS
<1>1. WriteTyped /\ runner[k].at = "popping" /\ q \in Calls /\ UNCHANGED <<scheduled, waiter>>
      BY <1>0 DEF ConnectionCallInv, WriteTyped, C!Pop, C!Runs
<1>2. \/ /\ QueueOf(q) = <<>> /\ runner' = [runner EXCEPT ![k].at = "panicked"]
         /\ UNCHANGED scheduler
      \/ /\ QueueOf(q) # <<>> /\ runner' = [runner EXCEPT ![k].at = "taking"]
         /\ scheduler' = [scheduler EXCEPT !.calls[q] = Tail(@)]
      BY <1>0, <1>1 DEF C!Pop, C!CallsOf, C!Moves, QueueOf
<1>3. /\ runner' \in [Calls -> [at : RunnerPlaces, queue : Calls, item : Calls]]
      /\ runner'[k].queue = q /\ \A j \in Calls \ {k} : runner'[j] = runner[j]
      /\ runner'[k].at = IF QueueOf(q) = <<>> THEN "panicked" ELSE "taking"
  <2>1. CASE QueueOf(q) = <<>>
        BY <2>1, <1>1, <1>2, PlaceChanged, <1>0 DEF RunnerPlaces
  <2>2. CASE QueueOf(q) # <<>>
        BY <2>2, <1>1, <1>2, PlaceChanged, <1>0 DEF RunnerPlaces
  <2>. QED BY <2>1, <2>2
<1>4. \A r \in Calls : QueueOf(r) \in Seq(Calls) /\ Len(QueueOf(r)) \in Nat
      BY <1>1, QueueHolds
<1> DEFINE Behind == QueueOf(q) # <<>> /\ Len(QueueOf(q)') = Len(QueueOf(q)) - 1
                     /\ \A i \in 1..Len(QueueOf(q)') : /\ i + 1 \in 1..Len(QueueOf(q)) /\ i + 1 # 1
                                                       /\ QueueOf(q)'[i] = QueueOf(q)[i + 1]
<1>5. /\ scheduler' \in [named : SUBSET Calls, calls : [Calls -> Seq(Calls)]]
      /\ \A r \in Calls \ {q} : QueueOf(r)' = QueueOf(r)
      /\ (QueueOf(q) = <<>> /\ QueueOf(q)' = QueueOf(q)) \/ Behind
  <2>1. CASE QueueOf(q) = <<>>
        BY <2>1, <1>1, <1>2 DEF WriteTyped, QueueOf
  <2>2. CASE QueueOf(q) # <<>>
    <3>1. PICK new : new = Tail(QueueOf(q))
          OBVIOUS
    <3>2. /\ new \in Seq(Calls) /\ Len(new) = Len(QueueOf(q)) - 1
          /\ \A i \in 1..Len(new) : new[i] = QueueOf(q)[i + 1]
          BY <2>2, <3>1, <1>1, <1>4, HeadTailProperties
    <3>3. scheduler' = [named |-> scheduler.named, calls |-> [scheduler.calls EXCEPT ![q] = new]]
          BY <2>2, <3>1, <1>1, <1>2 DEF WriteTyped, QueueOf
    <3>4. scheduler.named \in SUBSET Calls
          BY <1>1 DEF WriteTyped
    <3>5. /\ scheduler' \in [named : SUBSET Calls, calls : [Calls -> Seq(Calls)]]
          /\ QueueOf(q)' = new /\ \A r \in Calls \ {q} : QueueOf(r)' = QueueOf(r)
          BY <3>2, <3>3, <3>4, <1>1, QueueChanged
    <3>6. Len(QueueOf(q)) \in Nat /\ Len(new) = Len(QueueOf(q)) - 1
          BY <3>2, <1>1, <1>4
    <3>7. \A i \in 1..Len(new) : i + 1 \in 1..Len(QueueOf(q)) /\ i + 1 # 1
          BY ONLY <3>6
    <3>8. Behind
          BY <2>2, <3>2, <3>5, <3>7
    <3>. QED BY <3>5, <3>8
  <2>. QED BY <2>1, <2>2
<1> HIDE DEF Behind
(* What is queued after the step was queued before, elsewhere than first.  *)
<1>6. ASSUME NEW r \in Calls, NEW i \in 1..Len(QueueOf(r)')
      PROVE  \E h \in 1..Len(QueueOf(r)) : /\ QueueOf(r)'[i] = QueueOf(r)[h]
                                           /\ r = q => h = i + 1 /\ h # 1
                                           /\ r # q => h = i
  <2>1. CASE r # q
        BY <2>1, <1>5
  <2>2. CASE r = q /\ QueueOf(q) = <<>> /\ QueueOf(q)' = QueueOf(q)
        BY <2>2, <1>4
  <2>3. CASE r = q /\ Behind
        BY <2>3 DEF Behind
  <2>. QED BY <2>1, <2>2, <2>3, <1>5
<1>7. WriteTyped'
      BY <1>1, <1>3, <1>5 DEF WriteTyped
<1>8. Unscheduled'
  <2>1. \A c \in Calls : scheduled[c].state = "new" => c # k /\ runner[c].at = "none" /\ ~scheduled[c].done
        BY <1>1 DEF ConnectionCallInv, Unscheduled
  <2>. QED BY <2>1, <1>1, <1>3 DEF Unscheduled
<1>9. QueuedOnce'
  <2> SUFFICES ASSUME NEW r \in Calls, NEW i \in 1..Len(QueueOf(r)')
               PROVE  /\ scheduled'[QueueOf(r)'[i]].state # "new"
                      /\ \A t \in Calls : \A j \in 1..Len(QueueOf(t)') :
                           QueueOf(t)'[j] = QueueOf(r)'[i] => t = r /\ j = i
      BY DEF QueuedOnce
  <2>1. PICK h \in 1..Len(QueueOf(r)) : /\ QueueOf(r)'[i] = QueueOf(r)[h]
                                        /\ r = q => h = i + 1
                                        /\ r # q => h = i
        BY <1>6
  <2>2. scheduled'[QueueOf(r)'[i]].state # "new"
        BY <2>1, <1>1 DEF ConnectionCallInv, QueuedOnce
  <2>3. ASSUME NEW t \in Calls, NEW j \in 1..Len(QueueOf(t)'), QueueOf(t)'[j] = QueueOf(r)'[i]
        PROVE  t = r /\ j = i
    <3>1. PICK m \in 1..Len(QueueOf(t)) : /\ QueueOf(t)'[j] = QueueOf(t)[m]
                                          /\ t = q => m = j + 1
                                          /\ t # q => m = j
          BY <1>6
    <3>2. QueueOf(t)[m] = QueueOf(r)[h]
          BY <2>1, <2>3, <3>1
    <3>3. t = r /\ m = h
          BY <3>2 DEF ConnectionCallInv, QueuedOnce
    <3>. QED BY <2>1, <3>1, <3>3
  <2>. QED BY <2>2, <2>3
<1>10. ItemIsFirst'
  <2> SUFFICES ASSUME NEW j \in Calls, runner'[j].at \in HasItem
               PROVE  /\ scheduled'[runner'[j].item].state # "new"
                      /\ \A r \in Calls : \A i \in 1..Len(QueueOf(r)') :
                           QueueOf(r)'[i] = runner'[j].item => r = runner'[j].queue /\ i = 1
      BY DEF ItemIsFirst
  <2>1. j # k /\ runner'[j] = runner[j]
        BY <1>3 DEF HasItem
  <2>2. /\ scheduled[runner[j].item].state # "new"
        /\ \A r \in Calls : \A i \in 1..Len(QueueOf(r)) :
             QueueOf(r)[i] = runner[j].item => r = runner[j].queue /\ i = 1
        BY <2>1 DEF ConnectionCallInv, ItemIsFirst
  <2>3. ASSUME NEW r \in Calls, NEW i \in 1..Len(QueueOf(r)'), QueueOf(r)'[i] = runner[j].item
        PROVE  r = runner[j].queue /\ i = 1
        BY <2>2, <2>3, <1>6
  <2>. QED BY <2>1, <2>2, <2>3, <1>1
<1>11. AnsweredIsPopped'
  <2> SUFFICES ASSUME NEW r \in Calls, NEW i \in 1..Len(QueueOf(r)'), scheduled'[QueueOf(r)'[i]].done
               PROVE  \E j \in Calls : /\ runner'[j].at = "popping" /\ runner'[j].queue = r
                                       /\ runner'[j].item = QueueOf(r)'[i]
      BY DEF AnsweredIsPopped
  <2>1. PICK h \in 1..Len(QueueOf(r)) : QueueOf(r)'[i] = QueueOf(r)[h] /\ (r = q => h # 1)
        BY <1>6
  <2>2. PICK j \in Calls : /\ runner[j].at = "popping" /\ runner[j].queue = r
                           /\ runner[j].item = QueueOf(r)[h]
        BY <2>1, <1>1 DEF ConnectionCallInv, AnsweredIsPopped
  <2>3. h = 1
        BY <2>2 DEF ConnectionCallInv, ItemIsFirst, HasItem
  <2>4. j # k
        BY <2>1, <2>2, <2>3, <1>0
  <2>. QED BY <2>1, <2>2, <2>4, <1>3
<1>12. C!RunsOnce'
  <2>1. \A j \in Calls : runner'[j].at = "running" => runner'[j] = runner[j]
        BY <1>3
  <2>. QED BY <2>1, <1>1 DEF ConnectionCallInv, C!RunsOnce, C!Runs, C!ItemOf
<1>13. C!NothingStalls'
  <2> SUFFICES ASSUME C!Up', NEW r \in Calls, QueueOf(r)' # <<>>
               PROVE  \E j \in Calls : runner'[j].queue = r /\ C!GoesOn(j)'
      BY DEF C!NothingStalls, QueueOf
  <2>1. QueueOf(q) # <<>> /\ runner'[k].at = "taking"
        BY <1>3 DEF C!Up, C!Runs
  <2>2. CASE r = q
        BY <2>1, <2>2, <1>3 DEF C!GoesOn, C!Runs
  <2>3. CASE r # q
    <3>1. PICK j \in Calls : runner[j].queue = r /\ C!GoesOn(j)
          BY <2>3, <1>5 DEF ConnectionCallInv, C!NothingStalls, QueueOf
    <3>2. j # k /\ runner'[j] = runner[j] /\ C!CallsOf(j)' = C!CallsOf(j)
          BY <2>3, <3>1, <1>0, <1>3, <1>5 DEF C!CallsOf, QueueOf
    <3>3. C!GoesOn(j)'
          BY <3>1, <3>2, <1>1 DEF C!GoesOn, C!Runs, C!Room
    <3>. QED BY <3>1, <3>2, <3>3
  <2>. QED BY <2>2, <2>3
<1>. QED BY <1>1, <1>7, <1>8, <1>9, <1>10, <1>11, <1>12, <1>13 DEF ConnectionCallInv

-----------------------------------------------------------------------------
LEMMA GoroutineStep ==
  ASSUME ConnectionCallInv, NEW k \in Calls, C!Work(k)
  PROVE  /\ ConnectionCallInv'
         /\ UNCHANGED <<link, ctxOpen, gate, phase, sender, queue, C!subVars, waiter>>
<1>1. C!Up /\ UNCHANGED <<link, ctxOpen, gate, phase, sender, queue, C!subVars>>
      BY DEF C!Work, C!Take, C!CheckCtx, C!Claim, C!BodyEnds, C!Answer, C!Pop
<1>2. CASE C!Take(k)
      BY <1>1, <1>2, GoroutineTakeStep
<1>3. CASE C!Pop(k)
      BY <1>1, <1>3, GoroutinePopStep
<1>4. CASE C!CheckCtx(k) \/ C!BodyEnds(k)
  <2>1. Onward(k, "claiming") \/ Onward(k, "answering")
        BY <1>4 DEF C!CheckCtx, C!BodyEnds, C!Runs, C!Moves, Onward
  <2>. QED BY <1>1, <2>1, OnwardStep DEF Onward
<1>5. CASE C!Claim(k)
  <2>1. Onward(k, "running") \/ Onward(k, "answering")
        BY <1>5 DEF C!Claim, C!ItemOf, C!Runs, C!Moves, Onward
  <2>. QED BY <1>1, <2>1, OnwardStep DEF Onward
<1>6. CASE C!Answer(k)
  <2>1. Onward(k, "popping")
        BY <1>6 DEF C!Answer, C!Runs, C!Moves, Onward
  <2>. QED BY <1>1, <2>1, OnwardStep DEF Onward
<1>. QED BY <1>2, <1>3, <1>4, <1>5, <1>6 DEF C!Work

LEMMA WorkStep ==
  ASSUME ConnConstants, ConnInv, NEW k \in Calls, C!Work(k) PROVE ConnInv'
<1>1. /\ ConnectionCallInv'
      /\ UNCHANGED <<link, ctxOpen, gate, phase, sender, queue, C!subVars, waiter>>
      BY GoroutineStep DEF ConnInv
<1>2. EndInv'
      BY <1>1 DEF ConnInv, EndInv, C!Waiting, C!subVars
<1>. QED BY <1>1, <1>2, ConnectionCallStep

(* A caller gives up, or receives its answer.                              *)
LEMMA WaiterStep ==
  ASSUME ConnConstants, ConnInv, NEW c \in Calls, C!Abandon(c) \/ C!Return(c) PROVE ConnInv'
<1>1. /\ waiter' = [waiter EXCEPT ![c] = "returned"] /\ UNCHANGED <<scheduler, runner>>
      /\ UNCHANGED <<link, ctxOpen, gate, phase, sender, queue, C!subVars>>
      BY DEF C!Abandon, C!Return
<1>2. ConnectionCallInv /\ WriteTyped
      BY DEF ConnInv, ConnectionCallInv
<1>3. /\ waiter' \in [Calls -> {"none", "waiting", "returned"}]
      /\ \A d \in Calls : waiter'[d] = "waiting" => waiter[d] = "waiting"
      BY <1>1, <1>2 DEF WriteTyped
<1>4. /\ scheduled' \in [Calls -> [state : CallStates, done : BOOLEAN]]
      /\ \A d \in Calls : /\ scheduled'[d].state = scheduled[d].state
                             \/ (scheduled[d].state = "waiting" /\ scheduled'[d].state = "abandoned")
                          /\ scheduled'[d].done => scheduled[d].done
  <2>1. scheduled[c] \in [state : CallStates, done : BOOLEAN]
        BY <1>2 DEF WriteTyped
  <2>2. CASE C!Abandon(c)
    <3>1. PICK new : new = [scheduled[c] EXCEPT !.state = "abandoned"]
          OBVIOUS
    <3>2. /\ new \in [state : CallStates, done : BOOLEAN]
          /\ new.state = "abandoned" /\ new.done = scheduled[c].done
          BY <2>1, <3>1 DEF CallStates
    <3>3. scheduled[c].state = "waiting" /\ scheduled' = [scheduled EXCEPT ![c] = new]
          BY <2>2, <3>1 DEF C!Abandon, C!MayAbandon
    <3>4. /\ scheduled' \in [Calls -> [state : CallStates, done : BOOLEAN]]
          /\ scheduled'[c] = new /\ \A d \in Calls \ {c} : scheduled'[d] = scheduled[d]
          BY <3>2, <3>3, <1>2, CallChanged
    <3>5. \A d \in Calls : d = c \/ scheduled'[d] = scheduled[d]
          BY <3>4
    <3>6. /\ scheduled'[c].state = scheduled[c].state
             \/ (scheduled[c].state = "waiting" /\ scheduled'[c].state = "abandoned")
          /\ scheduled'[c].done => scheduled[c].done
          BY <3>2, <3>3, <3>4
    <3>. QED BY <3>4, <3>5, <3>6
  <2>3. CASE C!Return(c)
    <3>1. PICK new : new = [scheduled[c] EXCEPT !.done = FALSE]
          OBVIOUS
    <3>2. /\ new \in [state : CallStates, done : BOOLEAN]
          /\ new.state = scheduled[c].state /\ new.done = FALSE
          BY <2>1, <3>1
    <3>3. scheduled' = [scheduled EXCEPT ![c] = new]
          BY <2>3, <3>1 DEF C!Return
    <3>4. /\ scheduled' \in [Calls -> [state : CallStates, done : BOOLEAN]]
          /\ scheduled'[c] = new /\ \A d \in Calls \ {c} : scheduled'[d] = scheduled[d]
          BY <3>2, <3>3, <1>2, CallChanged
    <3>5. \A d \in Calls : d = c \/ scheduled'[d] = scheduled[d]
          BY <3>4
    <3>6. /\ scheduled'[c].state = scheduled[c].state
             \/ (scheduled[c].state = "waiting" /\ scheduled'[c].state = "abandoned")
          /\ scheduled'[c].done => scheduled[c].done
          BY <3>2, <3>3, <3>4
    <3>. QED BY <3>4, <3>5, <3>6
  <2>. QED BY <2>2, <2>3
<1>5. \A d \in Calls : scheduled'[d].state = "new" <=> scheduled[d].state = "new"
      BY <1>4
<1>6. \A q \in Calls : QueueOf(q)' = QueueOf(q)
      BY <1>1 DEF QueueOf
<1>7. \A q \in Calls : \A i \in 1..Len(QueueOf(q)) : QueueOf(q)[i] \in Calls
      BY <1>2, QueueHolds
<1>8. \A k \in Calls : runner'[k] = runner[k] /\ runner[k].item \in Calls
      BY <1>1, <1>2 DEF WriteTyped
<1>9. WriteTyped'
      BY <1>1, <1>2, <1>3, <1>4 DEF WriteTyped
<1>10. Unscheduled'
      BY <1>2, <1>4, <1>5, <1>8 DEF ConnectionCallInv, Unscheduled
<1>11. QueuedOnce'
      BY <1>2, <1>5, <1>6, <1>7 DEF ConnectionCallInv, QueuedOnce
<1>12. ItemIsFirst'
      BY <1>2, <1>5, <1>6, <1>8 DEF ConnectionCallInv, ItemIsFirst
<1>13. AnsweredIsPopped'
      BY <1>2, <1>4, <1>6, <1>7, <1>8 DEF ConnectionCallInv, AnsweredIsPopped
<1>14. C!RunsOnce'
      BY <1>2, <1>4, <1>8 DEF ConnectionCallInv, C!RunsOnce, C!Runs, C!ItemOf
<1>15. C!NothingStalls'
  <2>1. ASSUME NEW k \in Calls, C!GoesOn(k) PROVE C!GoesOn(k)'
        BY <2>1, <1>1, <1>4, <1>8 DEF C!GoesOn, C!Runs, C!CallsOf, C!Room
  <2>. QED BY <2>1, <1>1, <1>2, <1>8 DEF ConnectionCallInv, C!NothingStalls, C!Up, C!Runs
<1>16. EndInv'
      BY <1>1, <1>3 DEF ConnConstants, ConnInv, EndInv, C!Waiting, C!subVars
<1>17. ConnectionCallInv'
      BY <1>9, <1>10, <1>11, <1>12, <1>13, <1>14, <1>15 DEF ConnectionCallInv
<1>. QED BY <1>1, <1>16, <1>17, ConnectionCallStep

(* A write is queued, last of its queue, with a goroutine if it is first.  *)
LEMMA ScheduleStep ==
  ASSUME ConnConstants, ConnInv, C!Up, NEW c \in Calls, C!Schedule(c) PROVE ConnInv'
<1>1. /\ scheduled[c].state = "new" /\ (c \in Own => gate)
      /\ waiter' = [waiter EXCEPT ![c] = "waiting"]
      /\ UNCHANGED <<link, ctxOpen, gate, phase, sender, queue, C!subVars>>
      BY DEF C!Schedule
<1>2. ConnectionCallInv /\ WriteTyped
      BY DEF ConnInv, ConnectionCallInv
<1>3. PICK q \in Calls :
        /\ scheduler' = [named |-> {q}, calls |-> [scheduler.calls EXCEPT ![q] = Append(QueueOf(q), c)]]
        /\ runner' = IF QueueOf(q) = <<>>
                     THEN [runner EXCEPT ![c] = [at |-> "taking", queue |-> q, item |-> c]]
                     ELSE runner
  <2>1. scheduler.named \subseteq Calls
        BY <1>2 DEF WriteTyped
  <2>2. PICK q \in IF scheduler.named = {} THEN {c} ELSE scheduler.named :
          /\ scheduler' = [named |-> {q}, calls |-> [scheduler.calls EXCEPT ![q] = Append(@, c)]]
          /\ runner' = IF scheduler.calls[q] = <<>>
                       THEN [runner EXCEPT ![c] = [at |-> "taking", queue |-> q, item |-> c]]
                       ELSE runner
        BY DEF C!Schedule
  <2>3. q \in Calls
        BY <2>1, <2>2
  <2>4. scheduler' = [named |-> {q}, calls |-> [scheduler.calls EXCEPT ![q] = Append(QueueOf(q), c)]]
        BY <2>2 DEF QueueOf
  <2>. QED BY <2>2, <2>3, <2>4 DEF QueueOf
<1>4. \A r \in Calls : /\ QueueOf(r) \in Seq(Calls) /\ Len(QueueOf(r)) \in Nat
                       /\ \A i \in 1..Len(QueueOf(r)) : QueueOf(r)[i] \in Calls
      BY <1>2, QueueHolds
<1>5. /\ waiter' \in [Calls -> {"none", "waiting", "returned"}]
      /\ \A d \in Calls \ {c} : waiter'[d] = waiter[d]
      BY <1>1, <1>2 DEF WriteTyped
<1>6. /\ scheduled' \in [Calls -> [state : CallStates, done : BOOLEAN]]
      /\ scheduled'[c].state = "waiting" /\ ~scheduled'[c].done
      /\ \A d \in Calls \ {c} : scheduled'[d] = scheduled[d]
  <2>1. PICK new : new = [scheduled[c] EXCEPT !.state = "waiting"]
        OBVIOUS
  <2>2. scheduled[c] \in [state : CallStates, done : BOOLEAN]
        BY <1>2 DEF WriteTyped
  <2>3. /\ new \in [state : CallStates, done : BOOLEAN]
        /\ new.state = "waiting" /\ new.done = scheduled[c].done
        BY <2>1, <2>2 DEF CallStates
  <2>4. scheduled' = [scheduled EXCEPT ![c] = new]
        BY <2>1 DEF C!Schedule
  <2>5. ~scheduled[c].done
        BY <1>1, <1>2 DEF ConnectionCallInv, Unscheduled
  <2>. QED BY <2>3, <2>4, <2>5, <1>2, CallChanged
<1>7. /\ scheduler' \in [named : SUBSET Calls, calls : [Calls -> Seq(Calls)]]
      /\ QueueOf(q)' = Append(QueueOf(q), c)
      /\ \A r \in Calls \ {q} : QueueOf(r)' = QueueOf(r)
  <2>1. PICK new : new = Append(QueueOf(q), c)
        OBVIOUS
  <2>2. new \in Seq(Calls) /\ {q} \in SUBSET Calls
        BY <2>1, <1>4
  <2>3. scheduler' = [named |-> {q}, calls |-> [scheduler.calls EXCEPT ![q] = new]]
        BY <2>1, <1>3
  <2>. QED BY <2>1, <2>2, <2>3, <1>2, QueueChanged
<1>8. /\ Len(QueueOf(q)') = Len(QueueOf(q)) + 1
      /\ \A i \in 1..Len(QueueOf(q)) : QueueOf(q)'[i] = QueueOf(q)[i]
      /\ QueueOf(q)'[Len(QueueOf(q)) + 1] = c
      BY <1>4, <1>7
(* What is queued after the step: what was, and c.                         *)
<1>9. ASSUME NEW r \in Calls, NEW i \in 1..Len(QueueOf(r)')
      PROVE  \/ i \in 1..Len(QueueOf(r)) /\ QueueOf(r)'[i] = QueueOf(r)[i]
             \/ r = q /\ i = Len(QueueOf(q)) + 1 /\ QueueOf(r)'[i] = c
  <2>1. CASE r # q
        BY <2>1, <1>7
  <2>2. CASE r = q
    <3>1. i \in 1..(Len(QueueOf(q)) + 1) /\ Len(QueueOf(q)) \in Nat
          BY <2>2, <1>4, <1>8
    <3>2. i \in 1..Len(QueueOf(q)) \/ i = Len(QueueOf(q)) + 1
          BY ONLY <3>1
    <3>. QED BY <2>2, <3>2, <1>8
  <2>. QED BY <2>1, <2>2
<1>10. \A r \in Calls : \A i \in 1..Len(QueueOf(r)) : QueueOf(r)[i] # c
      BY <1>1, <1>2 DEF ConnectionCallInv, QueuedOnce
<1>11. /\ runner' \in [Calls -> [at : RunnerPlaces, queue : Calls, item : Calls]]
       /\ runner[c].at = "none" /\ \A k \in Calls \ {c} : runner'[k] = runner[k]
       /\ \/ runner'[c] = runner[c] /\ QueueOf(q) # <<>>
          \/ runner'[c].at = "taking" /\ runner'[c].queue = q
  <2>1. runner[c].at = "none" /\ runner \in [Calls -> [at : RunnerPlaces, queue : Calls, item : Calls]]
        BY <1>1, <1>2 DEF ConnectionCallInv, Unscheduled, WriteTyped
  <2>2. PICK new : new = [at |-> "taking", queue |-> q, item |-> c]
        OBVIOUS
  <2>3. new \in [at : RunnerPlaces, queue : Calls, item : Calls] /\ new.at = "taking" /\ new.queue = q
        BY <2>2 DEF RunnerPlaces
  <2>4. CASE QueueOf(q) = <<>>
        BY <2>1, <2>2, <2>3, <2>4, <1>3
  <2>5. CASE QueueOf(q) # <<>>
        BY <2>1, <2>5, <1>3
  <2>. QED BY <2>4, <2>5
<1>12. \A k \in Calls : runner'[k].at \in HasItem =>
         /\ k # c /\ runner'[k] = runner[k] /\ runner[k].item \in Calls \ {c}
         /\ scheduled'[runner[k].item] = scheduled[runner[k].item]
  <2> SUFFICES ASSUME NEW k \in Calls, runner'[k].at \in HasItem
               PROVE  /\ k # c /\ runner'[k] = runner[k] /\ runner[k].item \in Calls \ {c}
                      /\ scheduled'[runner[k].item] = scheduled[runner[k].item]
      OBVIOUS
  <2>1. k # c /\ runner'[k] = runner[k] /\ runner[k].item \in Calls
        BY <1>2, <1>11 DEF HasItem, WriteTyped
  <2>2. scheduled[runner[k].item].state # "new"
        BY <2>1, <1>2 DEF ConnectionCallInv, ItemIsFirst
  <2>. QED BY <2>1, <2>2, <1>1, <1>6
<1>13. WriteTyped'
      BY <1>5, <1>6, <1>7, <1>11 DEF WriteTyped
<1>14. Unscheduled'
      BY <1>2, <1>6, <1>11 DEF ConnectionCallInv, Unscheduled
<1>15. QueuedOnce'
  <2> SUFFICES ASSUME NEW r \in Calls, NEW i \in 1..Len(QueueOf(r)')
               PROVE  /\ scheduled'[QueueOf(r)'[i]].state # "new"
                      /\ \A t \in Calls : \A j \in 1..Len(QueueOf(t)') :
                           QueueOf(t)'[j] = QueueOf(r)'[i] => t = r /\ j = i
      BY DEF QueuedOnce
  <2>1. CASE i \in 1..Len(QueueOf(r)) /\ QueueOf(r)'[i] = QueueOf(r)[i]
    <3>1. QueueOf(r)[i] \in Calls \ {c} /\ scheduled[QueueOf(r)[i]].state # "new"
          BY <2>1, <1>2, <1>4, <1>10 DEF ConnectionCallInv, QueuedOnce
    <3>2. scheduled'[QueueOf(r)'[i]].state # "new"
          BY <2>1, <3>1, <1>6
    <3>3. ASSUME NEW t \in Calls, NEW j \in 1..Len(QueueOf(t)'), QueueOf(t)'[j] = QueueOf(r)'[i]
          PROVE  t = r /\ j = i
      <4>1. j \in 1..Len(QueueOf(t)) /\ QueueOf(t)[j] = QueueOf(r)[i]
            BY <2>1, <3>1, <3>3, <1>9
      <4>. QED BY <2>1, <4>1, <1>2 DEF ConnectionCallInv, QueuedOnce
    <3>. QED BY <3>2, <3>3
  <2>2. CASE r = q /\ i = Len(QueueOf(q)) + 1 /\ QueueOf(r)'[i] = c
    <3>1. ASSUME NEW t \in Calls, NEW j \in 1..Len(QueueOf(t)'), QueueOf(t)'[j] = c
          PROVE  t = r /\ j = i
          BY <2>2, <3>1, <1>9, <1>10
    <3>. QED BY <2>2, <3>1, <1>6
  <2>. QED BY <2>1, <2>2, <1>9
<1>16. ItemIsFirst'
  <2> SUFFICES ASSUME NEW k \in Calls, runner'[k].at \in HasItem
               PROVE  /\ scheduled'[runner'[k].item].state # "new"
                      /\ \A r \in Calls : \A i \in 1..Len(QueueOf(r)') :
                           QueueOf(r)'[i] = runner'[k].item => r = runner'[k].queue /\ i = 1
      BY DEF ItemIsFirst
  <2>1. /\ runner'[k] = runner[k] /\ runner[k].item # c
        /\ scheduled'[runner[k].item] = scheduled[runner[k].item]
        BY <1>12
  <2>2. /\ scheduled[runner[k].item].state # "new"
        /\ \A r \in Calls : \A i \in 1..Len(QueueOf(r)) :
             QueueOf(r)[i] = runner[k].item => r = runner[k].queue /\ i = 1
        BY <2>1, <1>2 DEF ConnectionCallInv, ItemIsFirst
  <2>3. ASSUME NEW r \in Calls, NEW i \in 1..Len(QueueOf(r)'), QueueOf(r)'[i] = runner[k].item
        PROVE  r = runner[k].queue /\ i = 1
        BY <2>1, <2>2, <2>3, <1>9
  <2>. QED BY <2>1, <2>2, <2>3
<1>17. AnsweredIsPopped'
  <2> SUFFICES ASSUME NEW r \in Calls, NEW i \in 1..Len(QueueOf(r)'), scheduled'[QueueOf(r)'[i]].done
               PROVE  \E k \in Calls : /\ runner'[k].at = "popping" /\ runner'[k].queue = r
                                       /\ runner'[k].item = QueueOf(r)'[i]
      BY DEF AnsweredIsPopped
  <2>1. i \in 1..Len(QueueOf(r)) /\ QueueOf(r)'[i] = QueueOf(r)[i]
        BY <1>6, <1>9
  <2>2. QueueOf(r)[i] \in Calls \ {c} /\ scheduled[QueueOf(r)[i]].done
        BY <2>1, <1>4, <1>6, <1>10
  <2>3. PICK k \in Calls : /\ runner[k].at = "popping" /\ runner[k].queue = r
                           /\ runner[k].item = QueueOf(r)[i]
        BY <2>1, <2>2, <1>2 DEF ConnectionCallInv, AnsweredIsPopped
  <2>4. runner'[k] = runner[k]
        BY <2>3, <1>11
  <2>. QED BY <2>1, <2>3, <2>4
<1>18. C!RunsOnce'
  <2>1. \A k \in Calls : runner'[k].at = "running" =>
          runner'[k] = runner[k] /\ scheduled'[runner[k].item] = scheduled[runner[k].item]
        BY <1>12 DEF HasItem
  <2>. QED BY <2>1, <1>2 DEF ConnectionCallInv, C!RunsOnce, C!Runs, C!ItemOf
<1>19. C!NothingStalls'
  <2> SUFFICES ASSUME NEW r \in Calls, QueueOf(r)' # <<>>
               PROVE  \E k \in Calls : runner'[k].queue = r /\ C!GoesOn(k)'
      BY DEF C!NothingStalls, QueueOf
  <2>1. CASE r = q /\ QueueOf(q) = <<>>
    <3>1. runner'[c].at = "taking" /\ runner'[c].queue = r
          BY <2>1, <1>11
    <3>. QED BY <3>1 DEF C!GoesOn, C!Runs
  <2>2. CASE QueueOf(r) # <<>>
    <3>1. PICK k \in Calls : runner[k].queue = r /\ C!GoesOn(k)
          BY <2>2, <1>2 DEF ConnectionCallInv, C!NothingStalls, QueueOf
    <3>2. k # c /\ runner'[k] = runner[k]
          BY <3>1, <1>11 DEF C!GoesOn, C!Runs
    <3>3. Head(QueueOf(r)') = Head(QueueOf(r))
      <4>1. 1 \in 1..Len(QueueOf(r)) /\ Head(QueueOf(r)) = QueueOf(r)[1]
            BY <2>2, <1>2, QueueHolds
      <4>2. QueueOf(r)' = QueueOf(r) \/ (r = q /\ QueueOf(r)'[1] = QueueOf(r)[1])
            BY <4>1, <1>7, <1>8
      <4>3. Head(QueueOf(r)') = QueueOf(r)'[1]
            OBVIOUS
      <4>. QED BY <4>1, <4>2, <4>3
    <3>4. CASE runner[k].at \in {"taking", "popping"}
          BY <3>1, <3>2, <3>4 DEF C!GoesOn, C!Runs
    <3>5. CASE runner[k].at \notin {"taking", "popping"}
      <4>1. runner[k].at \in HasItem /\ runner[k].item = Head(QueueOf(r))
            BY <3>1, <3>5 DEF C!GoesOn, C!Runs, C!CallsOf, QueueOf, HasItem
      <4>2. scheduled'[runner[k].item] = scheduled[runner[k].item]
            BY <3>2, <4>1, <1>12
      <4>3. C!GoesOn(k)'
            BY <3>1, <3>2, <3>3, <4>1, <4>2 DEF C!GoesOn, C!Runs, C!CallsOf, C!Room, QueueOf
      <4>. QED BY <3>1, <3>2, <4>3
    <3>. QED BY <3>4, <3>5
  <2>. QED BY <2>1, <2>2, <1>7
<1>20. EndInv'
  <2>1. phase # "running" => c \notin Own
        BY <1>1 DEF ConnInv, EndInv
  <2>. QED BY <1>1, <1>5, <2>1 DEF ConnConstants, ConnInv, EndInv, C!Waiting, C!subVars
<1>21. ConnectionCallInv'
      BY <1>13, <1>14, <1>15, <1>16, <1>17, <1>18, <1>19 DEF ConnectionCallInv
<1>. QED BY <1>1, <1>20, <1>21, ConnectionCallStep

-----------------------------------------------------------------------------
LEMMA ConnInvStep ==
  ASSUME ConnConstants, ConnInv, [C!Next]_(C!connVars) PROVE ConnInv'
<1>1. CASE UNCHANGED C!connVars
  <2>1. ConnectionCallInv' /\ EndInv'
        BY <1>1, CallsKept DEF C!connVars, C!subVars, C!schedVars, ConnInv, EndInv,
           C!Waiting
  <2>. QED BY <1>1, <2>1, ConnectionCallStep DEF C!connVars
<1>2. ASSUME NEW s \in Subs, C!Create(s) \/ C!SubStep(s) \/ C!Unsubscribe(s) \/ C!Notify(s)
      PROVE  ConnInv'
      BY <1>2, ConnectionCreateStep, ListenStep, HookStep, ReplyStep, ActivateStep,
         CloseFailedStep, UnhookStep, UnsubscribeStep, NotifyStep DEF C!SubStep
<1>3. ASSUME NEW c \in Calls, (C!Up /\ C!Schedule(c)) \/ C!Waits(c) \/ C!Work(c) PROVE ConnInv'
      BY <1>3, ScheduleStep, WaiterStep, WorkStep DEF C!Waits
<1>4. CASE C!Send \/ C!SenderEnds \/ C!LinkDown \/ C!Drain \/ C!CloseAll
      BY <1>4, SendStep, DownStep, CloseAllStep
<1>. QED BY <1>1, <1>2, <1>3, <1>4 DEF C!Next

LEMMA ConnInvHolds == ASSUME ConnConstants PROVE ConnectionBehaviour => []ConnInv
<1>1. C!Init => ConnInv
      BY ConnInvInit
<1>2. ConnInv /\ [C!Next]_(C!connVars) => ConnInv'
      BY ConnInvStep
<1>. QED BY <1>1, <1>2, PTL DEF ConnectionBehaviour

-----------------------------------------------------------------------------
(* The state of the model keeps its types: the queue of notifications and  *)
(* what is held of a subscription stay within their limits                 *)
(* (clientconn/connection.go, clientconn/notifications.go).                *)
THEOREM ConnectionsTypeCorrect == ASSUME ConnConstants PROVE ConnectionBehaviour => []C!TypeOK
<1>1. ConnInv => C!TypeOK
  <2> SUFFICES ASSUME ConnInv PROVE C!TypeOK
      OBVIOUS
  <2>1. ASSUME NEW s \in Subs PROVE received[s] <= published[s]
    <3>1. C!InQueue(s) \in Nat
          BY InQueueIs DEF ConnInv
    <3>2. pending[s] \in Nat /\ received[s] \in Nat /\ published[s] \in Nat
          BY DEF ConnInv, ConnTyped, ConnConstants
    <3>. QED BY <3>1, <3>2 DEF ConnInv, SubInv, CountedOf
  <2>. QED BY <2>1 DEF ConnInv, ConnTyped, ConnectionCallInv, WriteTyped, CallStates,
              RunnerPlaces, C!TypeOK, Places
<1>. QED BY <1>1, ConnInvHolds, PTL

(* As long as the client is connected, an event that its subscription      *)
(* heard is delivered, queued or held until the response, exactly once     *)
(* (clientconn/notifications.go:106-139, connection.go:199-210).           *)
THEOREM NothingLostHolds == ASSUME ConnConstants PROVE ConnectionBehaviour => []C!NothingLost
<1>1. ConnInv => C!NothingLost
      BY DEF ConnInv, SubInv, CountedOf, C!NothingLost
<1>. QED BY <1>1, ConnInvHolds, PTL

(* No notification of a subscription passes the response that names it     *)
(* (clientconn/connection.go:130).                                         *)
THEOREM AfterResponseHolds == ASSUME ConnConstants PROVE ConnectionBehaviour => []C!AfterResponse
<1>1. ConnInv => C!AfterResponse
      BY DEF ConnInv, SubInv, PlaceOf, C!AfterResponse
<1>. QED BY <1>1, ConnInvHolds, PTL

(* A connection that is over, its cleanups run, hears no event and waits   *)
(* for no write (clientconn/connection.go:69-79, notifications.go:93-103). *)
THEOREM ClosedHearsNothingHolds == ASSUME ConnConstants PROVE ConnectionBehaviour => []C!ClosedHearsNothing
<1>1. ConnInv => C!ClosedHearsNothing
  <2> SUFFICES ASSUME ConnInv, phase = "closed", unhooking = {}
               PROVE  listening = {} /\ \A c \in Own : ~C!Waiting(c)
      BY DEF C!ClosedHearsNothing
  <2>1. \A s \in Subs : s \notin listening
        BY DEF ConnInv, EndInv, SubInv, PlaceOf
  <2>. QED BY <2>1 DEF ConnInv, ConnTyped, EndInv
<1>. QED BY <1>1, ConnInvHolds, PTL

(* A write that was given up does not run, and no write runs in two        *)
(* goroutines, however many of them took it (rpc/scheduler.go:64, 84).     *)
THEOREM RunsOnceHolds == ASSUME ConnConstants PROVE ConnectionBehaviour => []C!RunsOnce
<1>1. ConnInv => C!RunsOnce
      BY DEF ConnInv, ConnectionCallInv
<1>. QED BY <1>1, ConnInvHolds, PTL

(* The writes of a session never come to a standstill: a queue with calls  *)
(* has a goroutine that can go on, though others may wait for ever to      *)
(* leave a second answer (rpc/scheduler.go:52-55, 74-92).                  *)
THEOREM NothingStallsHolds == ASSUME ConnConstants PROVE ConnectionBehaviour => []C!NothingStalls
<1>1. ConnInv => C!NothingStalls
      BY DEF ConnInv, ConnectionCallInv
<1>. QED BY <1>1, ConnInvHolds, PTL
=============================================================================

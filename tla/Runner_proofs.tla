-------------------------- MODULE Runner_proofs --------------------------
(***************************************************************************)
(* Theorems about Runner, for every set of sessions, runs, calls and       *)
(* messages, with and without disk faults and failing listeners: what may  *)
(* run, stop, hold and be observed at the same time; then how a run ends,  *)
(* what of its inputs is in the ledger when it says so, and that nothing   *)
(* is written after Close; then that an input enters a ledger at most      *)
(* once, a caller is answered at most once, and the Runner implements      *)
(* InputLog; last that the inputs of a run are recorded in the order of    *)
(* their admission and without gaps, over any number of checkpoints.       *)
(***************************************************************************)
EXTENDS Runner, SequenceTheorems, TLAPS

(* The elements of the empty sequence. *)
LEMMA EmptyHasNoElements == ToSet(<<>>) = {}
  BY DEF ToSet

(* Holding one more input adds it to what is held, and nothing else. *)
LEMMA AppendAddsOne ==
  ASSUME NEW S, NEW s \in Seq(S), NEW x \in S
  PROVE  ToSet(Append(s, x)) = ToSet(s) \cup {x}
  <1>1. ToSet(s) \cup {x} \subseteq ToSet(Append(s, x))
    <2>1. ASSUME NEW k \in DOMAIN s
          PROVE  k \in DOMAIN Append(s, x) /\ Append(s, x)[k] = s[k]
      OBVIOUS
    <2>2. Len(s) + 1 \in DOMAIN Append(s, x) /\ Append(s, x)[Len(s) + 1] = x
      OBVIOUS
    <2>3. QED
      BY <2>1, <2>2 DEF ToSet
  <1>2. ToSet(Append(s, x)) \subseteq ToSet(s) \cup {x}
    BY DEF ToSet
  <1>3. QED
    BY <1>1, <1>2

-----------------------------------------------------------------------------
(* Type correctness, one group of variables after the other. *)

(* A step that leaves a group of variables alone keeps their types. *)
LEMMA Frame ==
  ASSUME TypeOK
  PROVE  /\ UNCHANGED runVars => RunsTyped'
         /\ UNCHANGED inputVars => InputsTyped'
         /\ UNCHANGED batchVars => BatchesTyped'
         /\ UNCHANGED callVars => CallsTyped'
         /\ UNCHANGED ledger => (ledger \in [Sessions -> Seq(Entries)])'
         /\ UNCHANGED closeVars => (closing \in {"no", "stopping", "closed"})' /\ (toStop \in SUBSET Runs)'
  BY DEF TypeOK, RunsTyped, InputsTyped, BatchesTyped, CallsTyped,
         runVars, inputVars, batchVars, callVars, closeVars

(* finishInputs keeps the types of the variables it writes. *)
LEMMA FinishInputsType ==
  ASSUME TypeOK, NEW r \in Runs, FinishInputs(r)
  PROVE  InputsTyped'
  <1>1. steering' \in [Runs -> {"initializing", "open", "closed"}]
    BY DEF TypeOK, InputsTyped, FinishInputs
  <1>2. cancelled' \in [Runs -> BOOLEAN]
    BY DEF TypeOK, InputsTyped, FinishInputs
  <1>3. pending' \in [Runs -> Seq(Inputs)]
    BY DEF TypeOK, InputsTyped, FinishInputs
  <1>4. answer' \in [Steers -> {"none", "nil", "changed", "failed"}]
    BY DEF TypeOK, InputsTyped, FinishInputs
  <1>5. QED
    BY <1>1, <1>2, <1>3, <1>4 DEF InputsTyped

(* Every step keeps every type. *)
LEMMA TypeKept == TypeOK /\ [Next]_vars => TypeOK'
  <1> SUFFICES ASSUME TypeOK, [Next]_vars PROVE TypeOK'
    OBVIOUS
  <1> USE DEF Goto, GotoWith
  <1>1. ASSUME NEW r \in Runs, NEW k \in {"turn", "compact"}, Begin(r, k)
        PROVE  TypeOK'
    <2>1. RunsTyped'
      BY <1>1, RunnerAssumption DEF TypeOK, RunsTyped, Begin, Phases
    <2>2. QED
      BY <1>1, <2>1, Frame DEF TypeOK, Begin
  <1>2. ASSUME NEW r \in Runs, Prepare(r) PROVE TypeOK'
    <2>1. RunsTyped'
      BY <1>2 DEF TypeOK, RunsTyped, Prepare, Phases
    <2>2. QED
      BY <1>2, <2>1, Frame DEF TypeOK, Prepare
  <1>3. ASSUME NEW r \in Runs, AppendPrompt(r) PROVE TypeOK'
    <2>1. RunsTyped'
      BY <1>3 DEF TypeOK, RunsTyped, AppendPrompt, Phases
    <2>2. ledger' \in [Sessions -> Seq(Entries)]
      <3>1. ledger \in [Sessions -> Seq(Entries)] /\ Home[r] \in Sessions
        BY RunnerAssumption DEF TypeOK
      <3>. Entry(r, "prompt") \in Entries
        BY DEF Entry, Entries
      <3>. Append(ledger[Home[r]], Entry(r, "prompt")) \in Seq(Entries)
        BY <3>1
      <3>2. \/ ledger' = [ledger EXCEPT ![Home[r]] = Append(@, Entry(r, "prompt"))]
            \/ ledger' = ledger
        BY <1>3 DEF AppendPrompt
      <3>3. QED
        BY <3>1, <3>2
    <2>3. QED
      BY <1>3, <2>1, <2>2, Frame DEF TypeOK, AppendPrompt
  <1>4. ASSUME NEW r \in Runs, SaveRunning(r) PROVE TypeOK'
    <2>1. RunsTyped'
      BY <1>4 DEF TypeOK, RunsTyped, SaveRunning, Phases
    <2>2. QED
      BY <1>4, <2>1, Frame DEF TypeOK, SaveRunning
  <1>5. ASSUME NEW r \in Runs, AnnouncePrompt(r) PROVE TypeOK'
    <2>1. RunsTyped'
      BY <1>5 DEF TypeOK, RunsTyped, AnnouncePrompt, Phases
    <2>2. QED
      BY <1>5, <2>1, Frame DEF TypeOK, AnnouncePrompt
  <1>6. ASSUME NEW r \in Runs, OpenSteering(r) PROVE TypeOK'
    <2>1. RunsTyped'
      <3>1. \/ pc' = [pc EXCEPT ![r] = "starting"] /\ err' = err
            \/ pc' = [pc EXCEPT ![r] = "finish"] /\ err' = [err EXCEPT ![r] = "cancelled"]
        BY <1>6 DEF OpenSteering
      <3>2. UNCHANGED <<live, kind, told, record>>
        BY <1>6 DEF OpenSteering
      <3>3. QED
        BY <3>1, <3>2 DEF TypeOK, RunsTyped, Phases
    <2>2. InputsTyped'
      BY <1>6 DEF TypeOK, InputsTyped, OpenSteering
    <2>3. QED
      BY <1>6, <2>1, <2>2, Frame DEF TypeOK, OpenSteering
  <1>7. ASSUME NEW r \in Runs, AnnounceStarted(r) PROVE TypeOK'
    <2>1. RunsTyped'
      BY <1>7 DEF TypeOK, RunsTyped, AnnounceStarted, Phases
    <2>2. QED
      BY <1>7, <2>1, Frame DEF TypeOK, AnnounceStarted
  <1>8. ASSUME NEW r \in Runs, NEW phase \in {"continue", "final"}, CheckpointEmpty(r, phase)
        PROVE  TypeOK'
    <2>1. RunsTyped'
      BY <1>8 DEF TypeOK, RunsTyped, CheckpointEmpty, Phases
    <2>2. InputsTyped'
      BY <1>8 DEF TypeOK, InputsTyped, CheckpointEmpty
    <2>3. QED
      BY <1>8, <2>1, <2>2, Frame DEF TypeOK, CheckpointEmpty
  <1>9. ASSUME NEW r \in Runs, CheckpointCommit(r) PROVE TypeOK'
    <2> DEFINE taken(n) == [k \in 1..n |-> Entry(r, pending[r][k])]
    <2>1. PICK n \in 0..Len(pending[r]) :
            /\ ledger' = [ledger EXCEPT ![Home[r]] = @ \o taken(n)]
            /\ good' = [good EXCEPT ![r] = n]
            /\ faulty' = [faulty EXCEPT ![r] = n < Len(pending[r])]
      BY <1>9 DEF CheckpointCommit
    <2>2. pending[r] \in Seq(Inputs)
      BY DEF TypeOK, InputsTyped
    <2>3. taken(n) \in Seq(Entries)
      <3>1. \A k \in 1..n : Entry(r, pending[r][k]) \in Entries
        BY <2>2 DEF Entry, Entries
      <3>2. QED
        BY <3>1
    <2>4. ledger' \in [Sessions -> Seq(Entries)]
      <3>1. ledger \in [Sessions -> Seq(Entries)]
        BY DEF TypeOK
      <3>2. ledger[Home[r]] \o taken(n) \in Seq(Entries)
        BY <2>3, <3>1, RunnerAssumption
      <3>3. QED
        BY <2>1, <3>1, <3>2
    <2>5. RunsTyped'
      BY <1>9 DEF TypeOK, RunsTyped, CheckpointCommit, Phases
    <2>6. InputsTyped'
      BY <1>9 DEF TypeOK, InputsTyped, CheckpointCommit
    <2>7. BatchesTyped'
      <3>1. batch' \in [Runs -> Seq(Inputs)]
        BY <1>9, <2>2 DEF TypeOK, BatchesTyped, CheckpointCommit
      <3>2. good' \in [Runs -> Nat] /\ faulty' \in [Runs -> BOOLEAN]
        BY <2>1, <2>2 DEF TypeOK, BatchesTyped
      <3>3. QED
        BY <3>1, <3>2 DEF BatchesTyped
    <2>8. QED
      BY <1>9, <2>4, <2>5, <2>6, <2>7, Frame DEF TypeOK, CheckpointCommit
  <1>10. ASSUME NEW r \in Runs, AnswerNext(r) PROVE TypeOK'
    <2>1. InputsTyped'
      BY <1>10 DEF TypeOK, InputsTyped, AnswerNext, AnswerHead
    <2>2. BatchesTyped'
      <3>1. batch[r] \in Seq(Inputs) /\ batch[r] # <<>> /\ OneLess(good[r]) \in Nat
        BY <1>10 DEF TypeOK, BatchesTyped, AnswerNext, OneLess
      <3>2. batch' \in [Runs -> Seq(Inputs)]
        BY <1>10, <3>1 DEF TypeOK, BatchesTyped, AnswerNext
      <3>3. good' \in [Runs -> Nat] /\ faulty' \in [Runs -> BOOLEAN]
        BY <1>10, <3>1 DEF TypeOK, BatchesTyped, AnswerNext
      <3>4. QED
        BY <3>2, <3>3 DEF BatchesTyped
    <2>3. QED
      BY <1>10, <2>1, <2>2, Frame DEF TypeOK, AnswerNext
  <1>11. ASSUME NEW r \in Runs, FinishBatch(r) PROVE TypeOK'
    <2>1. RunsTyped'
      <3>1. \/ pc' = [pc EXCEPT ![r] = "finish"] /\ err' = [err EXCEPT ![r] = "failed"]
            \/ pc' = [pc EXCEPT ![r] = "loop"] /\ err' = err
        BY <1>11 DEF FinishBatch
      <3>2. UNCHANGED <<live, kind, told, record>>
        BY <1>11 DEF FinishBatch
      <3>3. QED
        BY <3>1, <3>2 DEF TypeOK, RunsTyped, Phases
    <2>2. InputsTyped'
      BY <1>11, FinishInputsType, Frame DEF FinishBatch
    <2>3. QED
      BY <1>11, <2>1, <2>2, Frame DEF TypeOK, FinishBatch
  <1>12. ASSUME NEW r \in Runs, LoopReturn(r) PROVE TypeOK'
    <2>1. RunsTyped'
      BY <1>12 DEF TypeOK, RunsTyped, LoopReturn, Phases
    <2>2. QED
      BY <1>12, <2>1, Frame DEF TypeOK, LoopReturn
  <1>13. ASSUME NEW r \in Runs, CompactReturn(r) PROVE TypeOK'
    <2>1. RunsTyped'
      BY <1>13 DEF TypeOK, RunsTyped, CompactReturn, Phases
    <2>2. ledger' \in [Sessions -> Seq(Entries)]
      <3>1. ledger \in [Sessions -> Seq(Entries)] /\ Home[r] \in Sessions
        BY RunnerAssumption DEF TypeOK
      <3>. Entry(r, "summary") \in Entries
        BY DEF Entry, Entries
      <3>. Append(ledger[Home[r]], Entry(r, "summary")) \in Seq(Entries)
        BY <3>1
      <3>2. \/ ledger' = [ledger EXCEPT ![Home[r]] = Append(@, Entry(r, "summary"))]
            \/ ledger' = ledger
        BY <1>13 DEF CompactReturn
      <3>3. QED
        BY <3>1, <3>2
    <2>3. QED
      BY <1>13, <2>1, <2>2, Frame DEF TypeOK, CompactReturn
  <1>14. ASSUME NEW r \in Runs, Finish(r) PROVE TypeOK'
    <2>1. RunsTyped'
      <3>1. pc' \in [Runs -> Phases]
        BY <1>14 DEF TypeOK, RunsTyped, Finish, Phases
      <3>2. err' = err \/ err' = [err EXCEPT ![r] = "failed"]
        BY <1>14 DEF Finish
      <3>3. QED
        BY <1>14, <3>1, <3>2 DEF TypeOK, RunsTyped, Finish
    <2>2. InputsTyped'
      BY <1>14, FinishInputsType DEF Finish
    <2>3. QED
      BY <1>14, <2>1, <2>2, Frame DEF TypeOK, Finish
  <1>15. ASSUME NEW r \in Runs, SaveEnd(r) PROVE TypeOK'
    <2>1. RunsTyped'
      <3>1. pc' \in [Runs -> Phases]
        BY <1>15 DEF TypeOK, RunsTyped, SaveEnd, Phases
      <3>2. err' = err \/ err' = [err EXCEPT ![r] = "failed"]
        BY <1>15 DEF SaveEnd
      <3>3. Status(err[r]) \in {"succeeded", "cancelled", "failed"}
        BY DEF TypeOK, RunsTyped, Status
      <3>4. record' = record \/ record' = [record EXCEPT ![r] = Status(err[r])]
        BY <1>15 DEF SaveEnd
      <3>5. err' \in [Runs -> {"nil", "cancelled", "failed"}]
        BY <3>2 DEF TypeOK, RunsTyped
      <3>6. record' \in [Runs -> {"none", "running", "succeeded", "cancelled", "failed"}]
        BY <3>3, <3>4 DEF TypeOK, RunsTyped
      <3>7. UNCHANGED <<live, kind, told>>
        BY <1>15 DEF SaveEnd
      <3>8. QED
        BY <3>1, <3>5, <3>6, <3>7 DEF TypeOK, RunsTyped
    <2>2. QED
      BY <1>15, <2>1, Frame DEF TypeOK, SaveEnd
  <1>16. ASSUME NEW r \in Runs, AnnounceEnd(r) PROVE TypeOK'
    <2>1. RunsTyped'
      BY <1>16 DEF TypeOK, RunsTyped, AnnounceEnd, Phases
    <2>2. QED
      BY <1>16, <2>1, Frame DEF TypeOK, AnnounceEnd
  <1>17. ASSUME NEW r \in Runs, Release(r) PROVE TypeOK'
    <2>1. RunsTyped'
      BY <1>17 DEF TypeOK, RunsTyped, Release, Phases
    <2>2. InputsTyped'
      BY <1>17, FinishInputsType DEF Release
    <2>3. QED
      BY <1>17, <2>1, <2>2, Frame DEF TypeOK, Release
  <1>18. ASSUME NEW r \in Runs, Complete(r) PROVE TypeOK'
    <2>1. RunsTyped'
      BY <1>18 DEF TypeOK, RunsTyped, Complete, Phases
    <2>2. QED
      BY <1>18, <2>1, Frame DEF TypeOK, Complete
  <1>19. ASSUME NEW i \in Steers, NEW r \in Runs, SteerLookup(i, r) PROVE TypeOK'
    <2>1. CallsTyped'
      BY <1>19 DEF TypeOK, CallsTyped, SteerLookup, Inputs
    <2>2. QED
      BY <1>19, <2>1, Frame DEF TypeOK, SteerLookup
  <1>20. ASSUME NEW i \in Steers, SteerAdmit(i) PROVE TypeOK'
    <2>1. i \in Inputs /\ target[i] \in Runs /\ target' = target /\ offer' = offer
      BY <1>20 DEF TypeOK, CallsTyped, SteerAdmit, Inputs
    <2>2. call' = [call EXCEPT ![i] = "waiting"] \/ call' = [call EXCEPT ![i] = "changed"]
      BY <1>20 DEF SteerAdmit
    <2>3. admitted' \in [Runs -> Seq(Inputs)]
      <3>1. admitted \in [Runs -> Seq(Inputs)]
        BY DEF TypeOK, CallsTyped
      <3>2. admitted' = [admitted EXCEPT ![target[i]] = Append(@, i)] \/ admitted' = admitted
        BY <1>20 DEF SteerAdmit
      <3>3. Append(admitted[target[i]], i) \in Seq(Inputs)
        BY <2>1, <3>1
      <3>4. QED
        BY <3>1, <3>2, <3>3
    <2>4. CallsTyped'
      BY <2>1, <2>2, <2>3 DEF TypeOK, CallsTyped
    <2>5. pending' \in [Runs -> Seq(Inputs)]
      <3>1. pending \in [Runs -> Seq(Inputs)]
        BY DEF TypeOK, InputsTyped
      <3>2. pending' = [pending EXCEPT ![target[i]] = Append(@, i)] \/ pending' = pending
        BY <1>20 DEF SteerAdmit
      <3>3. Append(pending[target[i]], i) \in Seq(Inputs)
        BY <2>1, <3>1
      <3>4. QED
        BY <3>1, <3>2, <3>3
    <2>6. InputsTyped'
      BY <1>20, <2>5 DEF TypeOK, InputsTyped, SteerAdmit
    <2>7. QED
      BY <1>20, <2>4, <2>6, Frame DEF TypeOK, SteerAdmit
  <1>21. ASSUME NEW i \in Steers, SteerReturn(i) PROVE TypeOK'
    <2>1. CallsTyped'
      BY <1>21 DEF TypeOK, CallsTyped, InputsTyped, SteerReturn
    <2>2. QED
      BY <1>21, <2>1, Frame DEF TypeOK, SteerReturn
  <1>22. ASSUME NEW i \in Steers, SteerAbandon(i) PROVE TypeOK'
    <2>1. CallsTyped'
      BY <1>22 DEF TypeOK, CallsTyped, SteerAbandon
    <2>2. QED
      BY <1>22, <2>1, Frame DEF TypeOK, SteerAbandon
  <1>23. ASSUME NEW m \in Messages, ReceiveLookup(m) PROVE TypeOK'
    <2>1. live[Home[m]] \in Runs \cup {NoRun}
      BY RunnerAssumption DEF TypeOK, RunsTyped
    <2>2. m \in Inputs /\ m \notin Steers
      BY RunnerAssumption DEF Inputs
    <2>3. CallsTyped'
      <3>1. CASE InLedger(Home[m], m)
        BY <1>23, <2>2, <3>1 DEF TypeOK, CallsTyped, ReceiveLookup
      <3>2. CASE ~InLedger(Home[m], m)
        <4>1. /\ offer' = [offer EXCEPT ![m] = "looked"]
              /\ target' = [target EXCEPT ![m] = live[Home[m]]]
              /\ live[Home[m]] \in Runs
              /\ UNCHANGED <<call, admitted>>
          BY <1>23, <2>1, <3>2 DEF ReceiveLookup
        <4>2. QED
          BY <2>2, <4>1 DEF TypeOK, CallsTyped
      <3>3. QED
        BY <3>1, <3>2
    <2>4. QED
      BY <1>23, <2>3, Frame DEF TypeOK, ReceiveLookup
  <1>24. ASSUME NEW m \in Messages, ReceiveAdmit(m) PROVE TypeOK'
    <2>1. m \in Inputs /\ target[m] \in Runs /\ target' = target /\ call' = call
      BY <1>24 DEF TypeOK, CallsTyped, ReceiveAdmit, Inputs
    <2>2. offer' = [offer EXCEPT ![m] = "delivered"] \/ offer' = [offer EXCEPT ![m] = "idle"]
      BY <1>24 DEF ReceiveAdmit
    <2>3. \/ pending' = pending /\ admitted' = admitted
          \/ /\ pending' = [pending EXCEPT ![target[m]] = Append(@, m)]
             /\ admitted' = [admitted EXCEPT ![target[m]] = Append(@, m)]
      BY <1>24 DEF ReceiveAdmit
    <2>4. admitted' \in [Runs -> Seq(Inputs)]
      <3>1. admitted \in [Runs -> Seq(Inputs)]
        BY DEF TypeOK, CallsTyped
      <3>2. Append(admitted[target[m]], m) \in Seq(Inputs)
        BY <2>1, <3>1
      <3>3. QED
        BY <2>3, <3>1, <3>2
    <2>5. CallsTyped'
      BY <2>1, <2>2, <2>4 DEF TypeOK, CallsTyped
    <2>6. pending' \in [Runs -> Seq(Inputs)]
      <3>1. pending \in [Runs -> Seq(Inputs)]
        BY DEF TypeOK, InputsTyped
      <3>2. Append(pending[target[m]], m) \in Seq(Inputs)
        BY <2>1, <3>1
      <3>3. QED
        BY <2>3, <3>1, <3>2
    <2>7. InputsTyped'
      BY <1>24, <2>6 DEF TypeOK, InputsTyped, ReceiveAdmit
    <2>8. QED
      BY <1>24, <2>5, <2>7, Frame DEF TypeOK, ReceiveAdmit
  <1>25. ASSUME NEW r \in Runs, Stop(r) PROVE TypeOK'
    BY <1>25, FinishInputsType, Frame DEF TypeOK, Stop
  <1>26. ASSUME NEW r \in Runs, ContextCancelled(r) PROVE TypeOK'
    <2>1. InputsTyped'
      BY <1>26 DEF TypeOK, InputsTyped, ContextCancelled
    <2>2. QED
      BY <1>26, <2>1, Frame DEF TypeOK, ContextCancelled
  <1>27. CASE CloseBegin
    BY <1>27, Frame DEF TypeOK, CloseBegin, RunsToStop
  <1>28. ASSUME NEW r \in Runs, CloseStop(r) PROVE TypeOK'
    BY <1>28, FinishInputsType, Frame DEF TypeOK, CloseStop
  <1>29. CASE CloseReturn
    BY <1>29, Frame DEF TypeOK, CloseReturn
  <1>30. CASE UNCHANGED vars
    BY <1>30, Frame DEF TypeOK, vars
  <1>31. QED
    BY <1>1, <1>2, <1>3, <1>4, <1>5, <1>6, <1>7, <1>8, <1>9, <1>10, <1>11, <1>12,
       <1>13, <1>14, <1>15, <1>16, <1>17, <1>18, <1>19, <1>20, <1>21, <1>22, <1>23,
       <1>24, <1>25, <1>26, <1>27, <1>28, <1>29, <1>30 DEF Next, RunStep

(* Every variable keeps to the values the goroutines of runner give it, *)
(* whatever listeners, disk and callers do.                             *)
THEOREM TypeCorrect == Spec => []TypeOK
  <1>1. Init => TypeOK
    <2> SUFFICES ASSUME Init PROVE TypeOK
      OBVIOUS
    <2>1. RunsTyped /\ InputsTyped /\ BatchesTyped
      BY DEF Init, RunsTyped, InputsTyped, BatchesTyped, Phases
    <2>2. CallsTyped
      BY DEF Init, CallsTyped
    <2>3. QED
      BY <2>1, <2>2 DEF Init, TypeOK
  <1>2. QED
    BY <1>1, TypeKept, PTL DEF Spec

-----------------------------------------------------------------------------
(* One live run per session. *)

(* A step of the goroutine of a run moves no other run. *)
LEMMA OthersStay ==
  ASSUME TypeOK, NEW r \in Runs,
         \/ RunStep(r)
         \/ LoopReturn(r)
         \/ \E phase \in {"continue", "final"} : CheckpointEmpty(r, phase)
         \/ \E k \in {"turn", "compact"} : Begin(r, k)
  PROVE  /\ \A q \in Runs \ {r} : pc'[q] = pc[q]
         /\ pc' \in [Runs -> Phases]
  <1>1. \E p \in Phases : pc' = [pc EXCEPT ![r] = p]
    <2> USE DEF Phases, Goto, GotoWith
    <2>1. CASE \E k \in {"turn", "compact"} : Begin(r, k)
      BY <2>1 DEF Begin
    <2>2. CASE Prepare(r) \/ AppendPrompt(r) \/ SaveRunning(r) \/ AnnouncePrompt(r)
      BY <2>2 DEF Prepare, AppendPrompt, SaveRunning, AnnouncePrompt
    <2>3. CASE OpenSteering(r) \/ AnnounceStarted(r) \/ CheckpointCommit(r)
      BY <2>3 DEF OpenSteering, AnnounceStarted, CheckpointCommit
    <2>4. CASE AnswerNext(r)
      BY <2>4 DEF AnswerNext, runVars, TypeOK, RunsTyped
    <2>5. CASE FinishBatch(r) \/ CompactReturn(r) \/ LoopReturn(r)
      BY <2>5 DEF FinishBatch, CompactReturn, LoopReturn
    <2>6. CASE Finish(r) \/ SaveEnd(r) \/ AnnounceEnd(r) \/ Release(r) \/ Complete(r)
      BY <2>6 DEF Finish, SaveEnd, AnnounceEnd, Release, Complete
    <2>7. CASE \E phase \in {"continue", "final"} : CheckpointEmpty(r, phase)
      BY <2>7 DEF CheckpointEmpty
    <2>8. QED
      BY <2>1, <2>2, <2>3, <2>4, <2>5, <2>6, <2>7 DEF RunStep
  <1>2. pc \in [Runs -> Phases]
    BY DEF TypeOK, RunsTyped
  <1>3. QED
    BY <1>1, <1>2

(* The occupied session of a run that goes on stays occupied by it. *)
LEMMA StaysLive ==
  ASSUME OneActiveRun, NEW r \in Runs, Active(r), live' = live,
         \A q \in Runs \ {r} : pc'[q] = pc[q]
  PROVE  OneActiveRun'
  BY DEF OneActiveRun, Active

(* begin admits a run only into a free session and release frees only   *)
(* its own: two runs of one session never write at the same time.       *)
THEOREM OneActiveRunHolds == Spec => []OneActiveRun
  <1>1. Init => OneActiveRun
    BY DEF Init, OneActiveRun, Active
  <1>2. TypeOK /\ OneActiveRun /\ [Next]_vars => OneActiveRun'
    <2> SUFFICES ASSUME TypeOK, OneActiveRun, [Next]_vars PROVE OneActiveRun'
      OBVIOUS
    <2>1. ASSUME NEW r \in Runs, NEW k \in {"turn", "compact"}, Begin(r, k)
          PROVE  OneActiveRun'
      <3>1. live \in [Sessions -> Runs \cup {NoRun}] /\ Home[r] \in Sessions /\ NoRun \notin Runs
        BY RunnerAssumption DEF TypeOK, RunsTyped
      <3>2. /\ live[Home[r]] = NoRun
            /\ live' = [live EXCEPT ![Home[r]] = r]
            /\ \A q \in Runs \ {r} : pc'[q] = pc[q]
        BY <2>1, OthersStay DEF Begin, MayBegin
      <3>3. ASSUME NEW q \in Runs \ {r}, Active(q)' PROVE live'[Home[q]] = q
        <4>1. Active(q) /\ live[Home[q]] = q /\ Home[q] # Home[r]
          BY <3>1, <3>2, <3>3 DEF Active, OneActiveRun
        <4>2. QED
          BY <3>1, <3>2, <4>1
      <3>4. live'[Home[r]] = r
        BY <3>1, <3>2
      <3>5. QED
        BY <3>3, <3>4 DEF OneActiveRun
    <2>2. ASSUME NEW r \in Runs, Release(r) PROVE OneActiveRun'
      <3>1. live \in [Sessions -> Runs \cup {NoRun}] /\ Home[r] \in Sessions /\ pc \in [Runs -> Phases]
        BY RunnerAssumption DEF TypeOK, RunsTyped
      <3>0. live[Home[r]] = r
        BY <2>2 DEF Release, OneActiveRun, Active
      <3>2. /\ live' = [live EXCEPT ![Home[r]] = NoRun]
            /\ pc[r] = "release"
            /\ pc' = [pc EXCEPT ![r] = "complete"]
        BY <2>2, <3>0 DEF Release, Goto
      <3>3. live[Home[r]] = r /\ ~Active(r)'
        BY <3>1, <3>2, <3>0 DEF Active
      <3>4. ASSUME NEW q \in Runs \ {r}, Active(q)' PROVE live'[Home[q]] = q
        <4>1. Active(q) /\ live[Home[q]] = q /\ Home[q] # Home[r]
          BY <3>1, <3>2, <3>3, <3>4 DEF Active, OneActiveRun
        <4>2. QED
          BY <3>1, <3>2, <4>1
      <3>5. QED
        BY <3>3, <3>4 DEF OneActiveRun
    <2>3. ASSUME NEW r \in Runs, Complete(r) PROVE OneActiveRun'
      <3>1. live' = live /\ pc \in [Runs -> Phases] /\ pc' = [pc EXCEPT ![r] = "done"]
        BY <2>3 DEF TypeOK, RunsTyped, Complete, Goto
      <3>2. QED
        BY <3>1 DEF OneActiveRun, Active
    <2>4. ASSUME NEW r \in Runs, RunStep(r), ~Release(r), ~Complete(r) PROVE OneActiveRun'
      <3>1. \A q \in Runs \ {r} : pc'[q] = pc[q]
        BY <2>4, OthersStay
      <3>2. live' = live /\ Active(r)
        BY <2>4 DEF RunStep, Active, Prepare, AppendPrompt, SaveRunning, AnnouncePrompt, OpenSteering,
             AnnounceStarted, CheckpointCommit, AnswerNext, FinishBatch, CompactReturn, Finish,
             SaveEnd, AnnounceEnd, runVars
      <3>3. QED
        BY <3>1, <3>2, StaysLive
    <2>5. ASSUME NEW r \in Runs,
                 LoopReturn(r) \/ \E phase \in {"continue", "final"} : CheckpointEmpty(r, phase)
          PROVE  OneActiveRun'
      <3>1. \A q \in Runs \ {r} : pc'[q] = pc[q]
        BY <2>5, OthersStay
      <3>2. live' = live /\ Active(r)
        BY <2>5 DEF LoopReturn, CheckpointEmpty, Active
      <3>3. QED
        BY <3>1, <3>2, StaysLive
    <2>6. ASSUME UNCHANGED runVars PROVE OneActiveRun'
      BY <2>6 DEF OneActiveRun, Active, runVars
    <2>7. ASSUME NEW r \in Runs, Stop(r) \/ ContextCancelled(r) \/ CloseStop(r)
          PROVE  UNCHANGED runVars
      BY <2>7 DEF Stop, ContextCancelled, CloseStop
    <2>8. ASSUME NEW i \in Steers,
                 \/ \E r \in Runs : SteerLookup(i, r)
                 \/ SteerAdmit(i) \/ SteerReturn(i) \/ SteerAbandon(i)
          PROVE  UNCHANGED runVars
      BY <2>8 DEF SteerLookup, SteerAdmit, SteerReturn, SteerAbandon
    <2>9. ASSUME NEW m \in Messages, ReceiveLookup(m) \/ ReceiveAdmit(m)
          PROVE  UNCHANGED runVars
      BY <2>9 DEF ReceiveLookup, ReceiveAdmit
    <2>10. CASE CloseBegin \/ CloseReturn \/ UNCHANGED vars
      BY <2>6, <2>10 DEF CloseBegin, CloseReturn, vars
    <2>11. QED
      BY <2>1, <2>2, <2>3, <2>4, <2>5, <2>6, <2>7, <2>8, <2>9, <2>10 DEF Next
  <1>3. QED
    BY <1>1, <1>2, TypeCorrect, PTL DEF Spec

-----------------------------------------------------------------------------
(* Inputs are held only while admission is open. *)

(* The part of NothingStranded that is about one run. *)
Sound(r) ==
  /\ pending[r] # <<>> => steering[r] = "open"
  /\ pc[r] \in {"new", "prepare", "append", "record", "announce", "open"} => steering[r] # "open"
  /\ pc[r] \in {"complete", "done"} => steering[r] = "closed"

(* finishInputs closes admission of its run, drops what it held, and    *)
(* leaves the other runs alone.                                         *)
LEMMA FinishInputsEffect ==
  ASSUME TypeOK, NEW r \in Runs, FinishInputs(r)
  PROVE  /\ steering'[r] = "closed" /\ pending'[r] = <<>>
         /\ \A q \in Runs \ {r} : steering'[q] = steering[q] /\ pending'[q] = pending[q]
  BY DEF FinishInputs, TypeOK, InputsTyped

(* A run whose admission has been closed satisfies Sound in any phase. *)
LEMMA ClosedIsSound ==
  ASSUME NothingStranded, TypeOK, NEW r \in Runs, FinishInputs(r), \A q \in Runs \ {r} : pc'[q] = pc[q]
  PROVE  NothingStranded'
  <1>1. Sound(r)'
    BY FinishInputsEffect DEF Sound
  <1>2. ASSUME NEW q \in Runs \ {r} PROVE Sound(q)'
    BY FinishInputsEffect, <1>2 DEF Sound, NothingStranded
  <1>3. QED
    BY <1>1, <1>2 DEF Sound, NothingStranded

(* However Steer, Receive, Stop, Close and the checkpoints of a run     *)
(* interleave, no run holds an input that nobody will settle.           *)
THEOREM NothingStrandedHolds == Spec => []NothingStranded
  <1>1. Init => NothingStranded
    BY DEF Init, NothingStranded
  <1>2. TypeOK /\ NothingStranded /\ [Next]_vars => NothingStranded'
    <2> SUFFICES ASSUME TypeOK, NothingStranded, [Next]_vars PROVE NothingStranded'
      OBVIOUS
    <2>1. ASSUME NEW r \in Runs, NEW k \in {"turn", "compact"}, Begin(r, k)
          PROVE  NothingStranded'
      <3>1. pc[r] = "new" /\ pc' = [pc EXCEPT ![r] = "prepare"] /\ UNCHANGED <<pending, steering>>
        BY <2>1 DEF Begin, Goto, inputVars
      <3>2. QED
        BY <3>1 DEF TypeOK, RunsTyped, NothingStranded
    <2>2. ASSUME NEW r \in Runs, Prepare(r) \/ AppendPrompt(r) \/ SaveRunning(r) \/ AnnouncePrompt(r)
          PROVE  NothingStranded'
      <3> DEFINE early == {"prepare", "append", "record", "announce", "open"}
      <3>1. /\ pc[r] \in early /\ pc'[r] \in early \cup {"starting", "finish", "release"}
            /\ UNCHANGED <<pending, steering>>
        BY <2>2 DEF Prepare, AppendPrompt, SaveRunning, AnnouncePrompt, Goto, GotoWith, inputVars,
                    TypeOK, RunsTyped
      <3>2. \A q \in Runs \ {r} : pc'[q] = pc[q]
        BY <2>2, OthersStay DEF RunStep
      <3>3. QED
        BY <3>1, <3>2 DEF NothingStranded
    <2>3. ASSUME NEW r \in Runs, OpenSteering(r) PROVE NothingStranded'
      <3>1. \A q \in Runs \ {r} : pc'[q] = pc[q] /\ steering'[q] = steering[q]
        BY <2>3, OthersStay DEF RunStep, OpenSteering, TypeOK, InputsTyped
      <3>2. pc[r] = "open" /\ pc'[r] \in {"starting", "finish"} /\ UNCHANGED pending
        BY <2>3 DEF OpenSteering, Goto, GotoWith, TypeOK, RunsTyped
      <3>3. pending[r] = <<>>
        BY <3>2 DEF NothingStranded
      <3>4. QED
        BY <3>1, <3>2, <3>3 DEF NothingStranded
    <2>4. ASSUME NEW r \in Runs, NEW phase \in {"continue", "final"}, CheckpointEmpty(r, phase)
          PROVE  NothingStranded'
      <3>1. \A q \in Runs \ {r} : pc'[q] = pc[q] /\ steering'[q] = steering[q]
        BY <2>4, OthersStay DEF CheckpointEmpty, TypeOK, InputsTyped
      <3>2. pending[r] = <<>> /\ UNCHANGED pending /\ pc'[r] \in {"loop", "finish"}
        BY <2>4 DEF CheckpointEmpty, Goto, TypeOK, RunsTyped
      <3>3. QED
        BY <3>1, <3>2 DEF NothingStranded
    <2>5. ASSUME NEW r \in Runs, CheckpointCommit(r) PROVE NothingStranded'
      <3>1. \A q \in Runs \ {r} : pc'[q] = pc[q] /\ pending'[q] = pending[q]
        BY <2>5, OthersStay DEF RunStep, CheckpointCommit, TypeOK, InputsTyped
      <3>2. pending'[r] = <<>> /\ UNCHANGED steering /\ pc'[r] = "answer"
        BY <2>5 DEF CheckpointCommit, Goto, TypeOK, RunsTyped, InputsTyped
      <3>3. QED
        BY <3>1, <3>2 DEF NothingStranded
    <2>6. ASSUME NEW r \in Runs, FinishBatch(r) PROVE NothingStranded'
      <3>1. \A q \in Runs \ {r} : pc'[q] = pc[q]
        BY <2>6, OthersStay DEF RunStep
      <3>2. CASE faulty[r]
        BY <2>6, <3>1, <3>2, ClosedIsSound DEF FinishBatch
      <3>3. CASE ~faulty[r]
        <4>1. UNCHANGED <<steering, pending>> /\ pc'[r] = "loop"
          BY <2>6, <3>3 DEF FinishBatch, inputVars, Goto, TypeOK, RunsTyped
        <4>2. QED
          BY <3>1, <4>1 DEF NothingStranded
      <3>4. QED
        BY <3>2, <3>3
    <2>7. ASSUME NEW r \in Runs, Finish(r) \/ Release(r) PROVE NothingStranded'
      <3>1. \A q \in Runs \ {r} : pc'[q] = pc[q]
        BY <2>7, OthersStay DEF RunStep
      <3>2. QED
        BY <2>7, <3>1, ClosedIsSound DEF Finish, Release
    <2>8. ASSUME NEW r \in Runs,
                 \/ AnnounceStarted(r) \/ AnswerNext(r) \/ LoopReturn(r)
                 \/ CompactReturn(r) \/ SaveEnd(r) \/ AnnounceEnd(r)
          PROVE  NothingStranded'
      <3>1. \A q \in Runs \ {r} : pc'[q] = pc[q]
        BY <2>8, OthersStay DEF RunStep
      <3>2. UNCHANGED <<pending, steering>>
        BY <2>8 DEF AnnounceStarted, AnswerNext, LoopReturn, CompactReturn, SaveEnd, AnnounceEnd, inputVars
      <3>3. pc'[r] \in {"initial", "loop", "answer", "compacting", "finish", "save", "end", "release"}
        BY <2>8 DEF AnnounceStarted, AnswerNext, LoopReturn, CompactReturn, SaveEnd, AnnounceEnd,
                    runVars, Goto, GotoWith, TypeOK, RunsTyped
      <3>4. QED
        BY <3>1, <3>2, <3>3 DEF NothingStranded
    <2>9. ASSUME NEW r \in Runs, Complete(r) PROVE NothingStranded'
      <3>1. pc[r] = "complete" /\ pc' = [pc EXCEPT ![r] = "done"] /\ UNCHANGED <<pending, steering>>
        BY <2>9 DEF Complete, Goto, inputVars
      <3>2. QED
        BY <3>1 DEF TypeOK, RunsTyped, NothingStranded
    <2>10. ASSUME NEW i \in Steers, SteerAdmit(i) PROVE NothingStranded'
      <3>1. target[i] \in Runs /\ pending \in [Runs -> Seq(Inputs)]
        BY <2>10 DEF TypeOK, CallsTyped, InputsTyped, SteerAdmit, Inputs
      <3>2. UNCHANGED <<pc, steering>>
        BY <2>10 DEF SteerAdmit, runVars
      <3>3. \/ pending' = pending
            \/ /\ steering[target[i]] = "open"
               /\ pending' = [pending EXCEPT ![target[i]] = Append(@, i)]
        BY <2>10 DEF SteerAdmit, Admitting
      <3>4. QED
        BY <3>1, <3>2, <3>3 DEF NothingStranded
    <2>11. ASSUME NEW m \in Messages, ReceiveAdmit(m) PROVE NothingStranded'
      <3>1. target[m] \in Runs /\ pending \in [Runs -> Seq(Inputs)]
        BY <2>11 DEF TypeOK, CallsTyped, InputsTyped, ReceiveAdmit, Inputs
      <3>2. UNCHANGED <<pc, steering>>
        BY <2>11 DEF ReceiveAdmit, runVars
      <3>3. \/ pending' = pending
            \/ /\ steering[target[m]] = "open"
               /\ pending' = [pending EXCEPT ![target[m]] = Append(@, m)]
        BY <2>11 DEF ReceiveAdmit, Admitting
      <3>4. QED
        BY <3>1, <3>2, <3>3 DEF NothingStranded
    <2>12. ASSUME NEW r \in Runs, Stop(r) \/ CloseStop(r) PROVE NothingStranded'
      BY <2>12, ClosedIsSound DEF Stop, CloseStop, runVars
    <2>13. ASSUME UNCHANGED <<pc, steering, pending>> PROVE NothingStranded'
      BY <2>13 DEF NothingStranded
    <2>14. ASSUME NEW r \in Runs, ContextCancelled(r) PROVE UNCHANGED <<pc, steering, pending>>
      BY <2>14 DEF ContextCancelled, runVars
    <2>15. ASSUME NEW i \in Steers,
                  (\E r \in Runs : SteerLookup(i, r)) \/ SteerReturn(i) \/ SteerAbandon(i)
           PROVE  UNCHANGED <<pc, steering, pending>>
      BY <2>15 DEF SteerLookup, SteerReturn, SteerAbandon, runVars, inputVars
    <2>16. ASSUME NEW m \in Messages, ReceiveLookup(m) PROVE UNCHANGED <<pc, steering, pending>>
      BY <2>16 DEF ReceiveLookup, runVars, inputVars
    <2>17. CASE CloseBegin \/ CloseReturn \/ UNCHANGED vars
      BY <2>13, <2>17 DEF CloseBegin, CloseReturn, vars, runVars, inputVars
    <2>18. QED
      BY <2>1, <2>2, <2>3, <2>4, <2>5, <2>6, <2>7, <2>8, <2>9, <2>10, <2>11, <2>12, <2>13,
         <2>14, <2>15, <2>16, <2>17 DEF Next, RunStep
  <1>3. QED
    BY <1>1, <1>2, TypeCorrect, PTL DEF Spec

-----------------------------------------------------------------------------
(* A refused Steer is never recorded. *)

(* RefusedNeverRecorded is not inductive: FinishInputs refuses what is     *)
(* held, so what is held must not have been recorded, and be held once.    *)
Placed == RefusedNeverRecorded /\ SteersInOnePlace

(* An entry in the ledger after a step that extends it was there before or *)
(* is one of those added.                                                  *)
LEMMA AppendRecordsOne ==
  ASSUME TypeOK, NEW d \in Sessions, NEW e \in Entries,
         ledger' = [ledger EXCEPT ![d] = Append(@, e)],
         NEW s \in Sessions, NEW x, InLedger(s, x)'
  PROVE  InLedger(s, x) \/ x = e.item
  <1>1. ledger \in [Sessions -> Seq(Entries)]
    BY DEF TypeOK
  <1>2. CASE s # d
    BY <1>1, <1>2 DEF InLedger
  <1>3. CASE s = d
    <2>1. ledger'[s] = Append(ledger[s], e) /\ ledger[s] \in Seq(Entries)
      BY <1>1, <1>3
    <2>2. PICK k \in DOMAIN Append(ledger[s], e) : Append(ledger[s], e)[k].item = x
      BY <2>1 DEF InLedger
    <2>3. CASE k = Len(ledger[s]) + 1
      BY <2>1, <2>2, <2>3
    <2>4. CASE k # Len(ledger[s]) + 1
      <3>1. k \in DOMAIN ledger[s] /\ ledger[s][k].item = x
        BY <2>1, <2>2, <2>4
      <3>2. QED
        BY <3>1 DEF InLedger
    <2>5. QED
      BY <2>3, <2>4
  <1>4. QED
    BY <1>2, <1>3

(* A checkpoint records nothing but what the run held. *)
LEMMA CommitRecordsHeld ==
  ASSUME TypeOK, NEW r \in Runs, CheckpointCommit(r),
         NEW s \in Sessions, NEW x, InLedger(s, x)'
  PROVE  InLedger(s, x) \/ x \in Held(r)
  <1> DEFINE taken(n) == [k \in 1..n |-> Entry(r, pending[r][k])]
  <1>1. PICK n \in 0..Len(pending[r]) : ledger' = [ledger EXCEPT ![Home[r]] = @ \o taken(n)]
    BY DEF CheckpointCommit
  <1>2. ledger \in [Sessions -> Seq(Entries)] /\ pending[r] \in Seq(Inputs)
    BY DEF TypeOK, InputsTyped
  <1>3. CASE s # Home[r]
    BY <1>1, <1>2, <1>3 DEF InLedger
  <1>4. CASE s = Home[r]
    <2>1. ledger'[s] = ledger[s] \o taken(n) /\ ledger[s] \in Seq(Entries)
      BY <1>1, <1>2, <1>4
    <2>2. /\ DOMAIN taken(n) = 1..n /\ n \in Nat /\ Len(taken(n)) = n
          /\ \A k \in 1..n : taken(n)[k].item = pending[r][k]
      BY <1>2 DEF Entry
    <2>. HIDE DEF taken
    <2>3. PICK k \in DOMAIN (ledger[s] \o taken(n)) : (ledger[s] \o taken(n))[k].item = x
      BY <2>1 DEF InLedger
    <2>4. CASE k \in 1..Len(ledger[s])
      <3>1. k \in DOMAIN ledger[s] /\ ledger[s][k].item = x
        BY <2>1, <2>2, <2>3, <2>4
      <3>2. QED
        BY <3>1 DEF InLedger
    <2>5. CASE k \notin 1..Len(ledger[s])
      <3>1. PICK j \in 1..n : taken(n)[j].item = x
        <4>1. k \in 1..(Len(ledger[s]) + n)
          BY <2>1, <2>2, <2>3
        <4>2. k - Len(ledger[s]) \in 1..n
          BY <4>1, <2>1, <2>2, <2>5
        <4>3. (ledger[s] \o taken(n))[k] = taken(n)[k - Len(ledger[s])]
          BY <4>1, <2>1, <2>2, <2>5
        <4>4. QED
          BY <4>2, <4>3, <2>3
      <3>2. j \in DOMAIN pending[r] /\ pending[r][j] = x
        BY <3>1, <2>2, <1>2
      <3>3. QED
        BY <3>2 DEF Held, ToSet
    <2>6. QED
      BY <2>4, <2>5
  <1>5. QED
    BY <1>3, <1>4

(* A step that moves no Steer and adds no input to a ledger. *)
LEMMA PlacedStays ==
  ASSUME Placed, UNCHANGED <<call, answer>>, \A i \in Steers : target'[i] = target[i],
         \A i \in Steers : Nowhere(i) => Nowhere(i)',
         \A i \in Steers : \A r \in Runs : i \in Held(r)' =>
             i \in Held(r) /\ \A s \in Sessions : InLedger(s, i)' => InLedger(s, i)
  PROVE  Placed'
  BY DEF Placed, RefusedNeverRecorded, SteersInOnePlace

(* The prompt and the summary are no inputs. *)
LEMMA OpeningKeepsPlaced ==
  ASSUME TypeOK, Placed, NEW r \in Runs, NEW x \in {"prompt", "summary"},
         ledger' = [ledger EXCEPT ![Home[r]] = Append(@, Entry(r, x))] \/ UNCHANGED ledger,
         UNCHANGED <<call, answer, target, pending>>
  PROVE  Placed'
  <1>1. Home[r] \in Sessions /\ Entry(r, x) \in Entries /\ Entry(r, x).item = x /\ x \notin Steers
    BY RunnerAssumption DEF Entry, Entries, Inputs
  <1>2. ASSUME NEW i \in Steers, NEW s \in Sessions, InLedger(s, i)' PROVE InLedger(s, i)
    <2>1. CASE UNCHANGED ledger
      BY <1>2, <2>1 DEF InLedger
    <2>2. CASE ledger' = [ledger EXCEPT ![Home[r]] = Append(@, Entry(r, x))]
      BY <1>1, <1>2, <2>2, AppendRecordsOne
    <2>3. QED
      BY <2>1, <2>2
  <1>3. \A q \in Runs : Held(q)' = Held(q)
    BY DEF Held
  <1>4. QED
    BY <1>2, <1>3, PlacedStays DEF Nowhere

(* finishInputs refuses exactly what its run holds, none of it recorded. *)
LEMMA FinishInputsKeepsPlaced ==
  ASSUME TypeOK, Placed, NEW r \in Runs, FinishInputs(r), UNCHANGED <<call, target, ledger>>
  PROVE  Placed'
  <1>1. \A s \in Sessions, i \in Steers : InLedger(s, i)' <=> InLedger(s, i)
    BY DEF InLedger
  <1>2. Held(r)' = {} /\ \A q \in Runs \ {r} : Held(q)' = Held(q)
    BY FinishInputsEffect, EmptyHasNoElements DEF Held
  <1>3. \A i \in Steers : answer'[i] = IF i \in Held(r) THEN "changed" ELSE answer[i]
    BY DEF FinishInputs
  <1>4. ASSUME NEW i \in Steers, i \in Held(r)
        PROVE  Nowhere(i)' /\ call[i] \notin {"idle", "looked", "changed"}
    BY <1>1, <1>2, <1>4 DEF Placed, SteersInOnePlace, Nowhere
  <1>5. ASSUME NEW i \in Steers, i \notin Held(r)
        PROVE  answer'[i] = answer[i] /\ (Nowhere(i) => Nowhere(i)')
    BY <1>1, <1>2, <1>3, <1>5 DEF Nowhere
  <1>6. RefusedNeverRecorded'
    BY <1>4, <1>5 DEF Placed, RefusedNeverRecorded
  <1>7. ASSUME NEW i \in Steers, call[i] \in {"idle", "looked"}
        PROVE  answer'[i] # "changed" /\ Nowhere(i)'
    <2>1. i \notin Held(r)
      BY <1>4, <1>7
    <2>2. QED
      BY <2>1, <1>5, <1>7 DEF Placed, SteersInOnePlace
  <1>8. ASSUME NEW i \in Steers, NEW q \in Runs, i \in Held(q)'
        PROVE  /\ call[i] \notin {"idle", "looked", "changed"} /\ target[i] = q /\ answer'[i] # "changed"
               /\ \A s \in Sessions : ~InLedger(s, i)'
    <2>1. q # r /\ i \in Held(q)
      BY <1>2, <1>8
    <2>2. /\ call[i] \notin {"idle", "looked", "changed"} /\ target[i] = q /\ answer[i] # "changed"
          /\ \A s \in Sessions : ~InLedger(s, i)
      BY <2>1 DEF Placed, SteersInOnePlace
    <2>3. i \notin Held(r)
      BY <2>1, <2>2 DEF Placed, SteersInOnePlace
    <2>4. QED
      BY <2>2, <2>3, <1>1, <1>5
  <1>9. QED
    BY <1>6, <1>7, <1>8 DEF Placed, SteersInOnePlace

(* The inductive step: one step per action. *)
LEMMA PlacedInductive == TypeOK /\ Placed /\ [Next]_vars => Placed'
  <1> SUFFICES ASSUME TypeOK, Placed, [Next]_vars PROVE Placed'
    OBVIOUS
  <1>1. ASSUME UNCHANGED <<pending, ledger, answer, call>>, \A i \in Steers : target'[i] = target[i]
        PROVE  Placed'
    <2>1. /\ \A i \in Steers, s \in Sessions : InLedger(s, i)' <=> InLedger(s, i)
          /\ \A q \in Runs : Held(q)' = Held(q)
      BY <1>1 DEF InLedger, Held
    <2>2. QED
      BY <1>1, <2>1, PlacedStays DEF Nowhere
  <1>2. ASSUME NEW r \in Runs,
               \/ Prepare(r) \/ SaveRunning(r) \/ AnnouncePrompt(r) \/ OpenSteering(r)
               \/ AnnounceStarted(r) \/ SaveEnd(r) \/ AnnounceEnd(r) \/ Complete(r)
               \/ LoopReturn(r) \/ ContextCancelled(r)
               \/ \E k \in {"turn", "compact"} : Begin(r, k)
               \/ \E phase \in {"continue", "final"} : CheckpointEmpty(r, phase)
        PROVE  Placed'
    <2>1. UNCHANGED <<pending, ledger, answer, call, target>>
      BY <1>2 DEF Prepare, SaveRunning, AnnouncePrompt, OpenSteering, AnnounceStarted, SaveEnd, AnnounceEnd,
                  Complete, LoopReturn, ContextCancelled, Begin, CheckpointEmpty, inputVars, callVars
    <2>2. QED
      BY <1>1, <2>1
  <1>3. ASSUME NEW r \in Runs, AppendPrompt(r) PROVE Placed'
    <2>1. /\ ledger' = [ledger EXCEPT ![Home[r]] = Append(@, Entry(r, "prompt"))] \/ UNCHANGED ledger
          /\ UNCHANGED <<call, answer, target, pending>>
      BY <1>3 DEF AppendPrompt, inputVars, callVars
    <2>2. QED
      BY <2>1, OpeningKeepsPlaced
  <1>4. ASSUME NEW r \in Runs, CompactReturn(r) PROVE Placed'
    <2>1. /\ ledger' = [ledger EXCEPT ![Home[r]] = Append(@, Entry(r, "summary"))] \/ UNCHANGED ledger
          /\ UNCHANGED <<call, answer, target, pending>>
      BY <1>4 DEF CompactReturn, inputVars, callVars
    <2>2. QED
      BY <2>1, OpeningKeepsPlaced
  <1>5. ASSUME NEW r \in Runs, CheckpointCommit(r) PROVE Placed'
    <2>1. UNCHANGED <<call, answer, target>>
      BY <1>5 DEF CheckpointCommit, callVars
    <2>2. Held(r)' = {} /\ \A q \in Runs \ {r} : Held(q)' = Held(q)
      BY <1>5, EmptyHasNoElements DEF CheckpointCommit, Held, TypeOK, InputsTyped
    <2>3. ASSUME NEW i \in Steers, Nowhere(i) PROVE Nowhere(i)'
      BY <1>5, <2>2, <2>3, CommitRecordsHeld DEF Nowhere
    <2>4. ASSUME NEW i \in Steers, NEW q \in Runs, i \in Held(q)'
          PROVE  i \in Held(q) /\ \A s \in Sessions : InLedger(s, i)' => InLedger(s, i)
      <3>1. q # r /\ i \in Held(q)
        BY <2>2, <2>4
      <3>2. i \notin Held(r)
        BY <3>1 DEF Placed, SteersInOnePlace
      <3>3. QED
        BY <1>5, <3>1, <3>2, CommitRecordsHeld
    <2>5. QED
      BY <2>1, <2>3, <2>4, PlacedStays
  <1>6. ASSUME NEW r \in Runs, AnswerNext(r) PROVE Placed'
    <2>1. UNCHANGED <<call, target, pending, ledger>>
      BY <1>6 DEF AnswerNext, callVars
    <2>2. \A i \in Steers : answer'[i] = "changed" => answer[i] = "changed"
      BY <1>6 DEF AnswerNext, AnswerHead
    <2>3. /\ \A i \in Steers, s \in Sessions : InLedger(s, i)' <=> InLedger(s, i)
          /\ \A q \in Runs : Held(q)' = Held(q)
      BY <2>1 DEF InLedger, Held
    <2>4. \A i \in Steers : Nowhere(i)' <=> Nowhere(i)
      BY <2>3 DEF Nowhere
    <2>5. QED
      BY <2>1, <2>2, <2>3, <2>4 DEF Placed, RefusedNeverRecorded, SteersInOnePlace
  <1>7. ASSUME NEW r \in Runs, FinishBatch(r) PROVE Placed'
    <2>1. CASE faulty[r]
      <3>1. FinishInputs(r) /\ UNCHANGED <<call, target, ledger>>
        BY <1>7, <2>1 DEF FinishBatch, callVars
      <3>2. QED
        BY <3>1, FinishInputsKeepsPlaced
    <2>2. CASE ~faulty[r]
      BY <1>1, <1>7, <2>2 DEF FinishBatch, inputVars, callVars
    <2>3. QED
      BY <2>1, <2>2
  <1>8. ASSUME NEW r \in Runs, Finish(r) \/ Release(r) \/ Stop(r) \/ CloseStop(r) PROVE Placed'
    <2>1. FinishInputs(r) /\ UNCHANGED <<call, target, ledger>>
      BY <1>8 DEF Finish, Release, Stop, CloseStop, callVars
    <2>2. QED
      BY <2>1, FinishInputsKeepsPlaced
  <1>9. ASSUME NEW i \in Steers, NEW r \in Runs, SteerLookup(i, r) PROVE Placed'
    <2>1. /\ call[i] = "idle" /\ UNCHANGED <<pending, ledger, answer>>
          /\ \A j \in Steers \ {i} : call'[j] = call[j] /\ target'[j] = target[j]
          /\ call'[i] \in {"looked", "changed"}
      BY <1>9 DEF SteerLookup, inputVars, TypeOK, CallsTyped, Inputs
    <2>2. /\ \A j \in Steers, s \in Sessions : InLedger(s, j)' <=> InLedger(s, j)
          /\ \A q \in Runs : Held(q)' = Held(q)
      BY <2>1 DEF InLedger, Held
    <2>3. \A j \in Steers : Nowhere(j)' <=> Nowhere(j)
      BY <2>2 DEF Nowhere
    <2>4. answer[i] # "changed" /\ Nowhere(i)
      BY <2>1 DEF Placed, SteersInOnePlace
    <2>5. \A q \in Runs : i \notin Held(q)
      BY <2>4 DEF Nowhere
    <2>6. QED
      BY <2>1, <2>2, <2>3, <2>4, <2>5 DEF Placed, RefusedNeverRecorded, SteersInOnePlace
  <1>10. ASSUME NEW i \in Steers, SteerAdmit(i) PROVE Placed'
    <2>1. /\ call[i] = "looked" /\ UNCHANGED <<target, ledger, answer>> /\ target[i] \in Runs
          /\ \A j \in Steers \ {i} : call'[j] = call[j]
      BY <1>10 DEF SteerAdmit, TypeOK, CallsTyped
    <2>2. answer[i] # "changed" /\ Nowhere(i)
      BY <2>1 DEF Placed, SteersInOnePlace
    <2>3. \A j \in Steers, s \in Sessions : InLedger(s, j)' <=> InLedger(s, j)
      BY <2>1 DEF InLedger
    <2>4. CASE Admitting(target[i])
      <3>1. call'[i] = "waiting" /\ pending' = [pending EXCEPT ![target[i]] = Append(@, i)]
        BY <1>10, <2>4 DEF SteerAdmit, TypeOK, CallsTyped
      <3>2. pending \in [Runs -> Seq(Inputs)] /\ i \in Inputs
        BY DEF TypeOK, InputsTyped, Inputs
      <3>3. /\ Held(target[i])' = Held(target[i]) \cup {i}
            /\ \A q \in Runs \ {target[i]} : Held(q)' = Held(q)
        <4>1. ToSet(Append(pending[target[i]], i)) = ToSet(pending[target[i]]) \cup {i}
          BY <2>1, <3>2, AppendAddsOne
        <4>2. QED
          BY <2>1, <3>1, <3>2, <4>1 DEF Held
      <3>4. ASSUME NEW j \in Steers \ {i} PROVE Nowhere(j)' <=> Nowhere(j)
        <4>1. \A q \in Runs : j \in Held(q)' <=> j \in Held(q)
          BY <2>1, <3>3
        <4>2. QED
          BY <2>3, <4>1 DEF Nowhere
      <3>5. RefusedNeverRecorded'
        BY <2>1, <2>2, <3>1, <3>4 DEF Placed, RefusedNeverRecorded
      <3>6. SteersInOnePlace'
        BY <2>1, <2>2, <2>3, <3>1, <3>3, <3>4 DEF Placed, SteersInOnePlace, Nowhere
      <3>7. QED
        BY <3>5, <3>6 DEF Placed
    <2>5. CASE ~Admitting(target[i])
      <3>1. call'[i] = "changed" /\ UNCHANGED pending
        BY <1>10, <2>5 DEF SteerAdmit, TypeOK, CallsTyped
      <3>2. \A q \in Runs : Held(q)' = Held(q)
        BY <3>1 DEF Held
      <3>3. \A j \in Steers : Nowhere(j)' <=> Nowhere(j)
        BY <2>3, <3>2 DEF Nowhere
      <3>4. \A q \in Runs : i \notin Held(q)
        BY <2>2 DEF Nowhere
      <3>5. QED
        BY <2>1, <2>2, <2>3, <3>1, <3>2, <3>3, <3>4 DEF Placed, RefusedNeverRecorded, SteersInOnePlace
    <2>6. QED
      BY <2>4, <2>5
  <1>11. ASSUME NEW i \in Steers, SteerReturn(i) \/ SteerAbandon(i) PROVE Placed'
    <2>1. /\ call[i] = "waiting" /\ UNCHANGED <<pending, ledger, answer, target>>
          /\ \A j \in Steers \ {i} : call'[j] = call[j]
          /\ \/ call'[i] = answer[i] /\ answer[i] \in {"nil", "changed", "failed"}
             \/ call'[i] = "abandoned"
      BY <1>11 DEF SteerReturn, SteerAbandon, inputVars, TypeOK, CallsTyped, InputsTyped
    <2>2. /\ \A j \in Steers, s \in Sessions : InLedger(s, j)' <=> InLedger(s, j)
          /\ \A q \in Runs : Held(q)' = Held(q)
      BY <2>1 DEF InLedger, Held
    <2>3. \A j \in Steers : Nowhere(j)' <=> Nowhere(j)
      BY <2>2 DEF Nowhere
    <2>4. RefusedNeverRecorded'
      BY <2>1, <2>3 DEF Placed, RefusedNeverRecorded
    <2>5. call'[i] = "changed" => \A q \in Runs : i \notin Held(q)
      BY <2>1 DEF Placed, SteersInOnePlace
    <2>6. SteersInOnePlace'
      BY <2>1, <2>2, <2>3, <2>5 DEF Placed, SteersInOnePlace
    <2>7. QED
      BY <2>4, <2>6 DEF Placed
  <1>12. ASSUME NEW m \in Messages, ReceiveLookup(m) PROVE Placed'
    <2>1. UNCHANGED <<pending, ledger, answer, call>> /\ \A i \in Steers : target'[i] = target[i]
      BY <1>12, RunnerAssumption DEF ReceiveLookup, inputVars, TypeOK, CallsTyped, Inputs
    <2>2. QED
      BY <1>1, <2>1
  <1>13. ASSUME NEW m \in Messages, ReceiveAdmit(m) PROVE Placed'
    <2>1. UNCHANGED <<ledger, answer, call, target>> /\ m \notin Steers
      BY <1>13, RunnerAssumption DEF ReceiveAdmit
    <2>2. \/ pending' = pending
          \/ pending' = [pending EXCEPT ![target[m]] = Append(@, m)]
      BY <1>13 DEF ReceiveAdmit
    <2>3. pending \in [Runs -> Seq(Inputs)] /\ m \in Inputs
      BY DEF TypeOK, InputsTyped, Inputs
    <2>4. \A q \in Runs : Held(q)' \subseteq Held(q) \cup {m}
      <3>1. CASE pending' = pending
        BY <3>1 DEF Held
      <3>2. CASE pending' = [pending EXCEPT ![target[m]] = Append(@, m)]
        <4>1. target[m] \in Runs
          BY <1>13 DEF ReceiveAdmit, TypeOK, CallsTyped
        <4>2. ToSet(Append(pending[target[m]], m)) = ToSet(pending[target[m]]) \cup {m}
          BY <2>3, <4>1, AppendAddsOne
        <4>3. QED
          BY <2>3, <3>2, <4>1, <4>2 DEF Held
      <3>3. QED
        BY <2>2, <3>1, <3>2
    <2>5. \A i \in Steers, s \in Sessions : InLedger(s, i)' <=> InLedger(s, i)
      BY <2>1 DEF InLedger
    <2>6. \A i \in Steers : Nowhere(i) => Nowhere(i)'
      BY <2>1, <2>4, <2>5 DEF Nowhere
    <2>7. QED
      BY <2>1, <2>4, <2>5, <2>6, PlacedStays
  <1>14. CASE CloseBegin \/ CloseReturn \/ UNCHANGED vars
    BY <1>1, <1>14 DEF CloseBegin, CloseReturn, vars, inputVars, callVars
  <1>15. QED
    BY <1>2, <1>3, <1>4, <1>5, <1>6, <1>7, <1>8, <1>9, <1>10, <1>11, <1>12, <1>13, <1>14
    DEF Next, RunStep

(* ErrRunChanged from steer.go means the message is in no ledger and    *)
(* never will be, so that conversations may send it again as a turn.    *)
THEOREM RefusedNeverRecordedHolds == Spec => []RefusedNeverRecorded
  <1>1. Init => Placed
    BY EmptyHasNoElements
    DEF Init, Placed, RefusedNeverRecorded, SteersInOnePlace, Nowhere, InLedger, Held
  <1>2. Placed => RefusedNeverRecorded
    BY DEF Placed
  <1>3. QED
    BY <1>1, <1>2, PlacedInductive, TypeCorrect, PTL DEF Spec

(* A Steer is in one place: nowhere before its admission, held by the run  *)
(* it was addressed to alone, or recorded, and never both (steer.go).      *)
THEOREM SteersInOnePlaceHolds == Spec => []SteersInOnePlace
  <1>1. Init => Placed
    BY EmptyHasNoElements
    DEF Init, Placed, RefusedNeverRecorded, SteersInOnePlace, Nowhere, InLedger, Held
  <1>2. Placed => SteersInOnePlace
    BY DEF Placed
  <1>3. QED
    BY <1>1, <1>2, PlacedInductive, TypeCorrect, PTL DEF Spec

-----------------------------------------------------------------------------
(* Every run that was announced is ended. *)

(* StartedIsEnded is not inductive: what a run owes at its end depends on  *)
(* how far it came, on its record and on what it still has to answer.      *)
EndsWell(r) ==
  /\ batch[r] # <<>> => pc[r] = "answer"
  /\ pc[r] \in {"new", "prepare", "append", "record"} => record[r] = "none" /\ told[r] = "nothing"
  /\ pc[r] \in {"announce", "open", "starting"} => record[r] # "none"
  /\ told[r] = "started" => record[r] # "none"
  /\ pc[r] \in {"end", "release", "complete", "done"} => (record[r] = "running" => err[r] = "failed")
  /\ pc[r] \in {"release", "complete", "done"} => told[r] # "started"

(* What EndsWell says of a run stays when none of it changes. *)
Unmoved(r) ==
  /\ pc'[r] = pc[r] /\ batch'[r] = batch[r] /\ record'[r] = record[r]
  /\ told'[r] = told[r] /\ err'[r] = err[r]

(* The steps of a run before its loop, one after the other. *)
LEMMA BeginningsEndWell ==
  ASSUME TypeOK, NEW r \in Runs, EndsWell(r),
         \/ \E k \in {"turn", "compact"} : Begin(r, k)
         \/ Prepare(r) \/ AppendPrompt(r) \/ SaveRunning(r)
         \/ AnnouncePrompt(r) \/ OpenSteering(r) \/ AnnounceStarted(r)
  PROVE  EndsWell(r)' /\ \A q \in Runs \ {r} : Unmoved(q)
  <1> USE DEF TypeOK, RunsTyped, BatchesTyped, EndsWell, Unmoved, Goto, GotoWith, batchVars
  <1>1. CASE \E k \in {"turn", "compact"} : Begin(r, k)
    BY <1>1 DEF Begin
  <1>2. CASE Prepare(r)
    BY <1>2 DEF Prepare
  <1>3. CASE AppendPrompt(r)
    BY <1>3 DEF AppendPrompt
  <1>4. CASE SaveRunning(r)
    BY <1>4 DEF SaveRunning
  <1>5. CASE AnnouncePrompt(r)
    BY <1>5 DEF AnnouncePrompt
  <1>6. CASE OpenSteering(r)
    BY <1>6 DEF OpenSteering
  <1>7. CASE AnnounceStarted(r)
    BY <1>7 DEF AnnounceStarted
  <1>8. QED
    BY <1>1, <1>2, <1>3, <1>4, <1>5, <1>6, <1>7

(* The checkpoints of the loop, and its return. *)
LEMMA LoopsEndWell ==
  ASSUME TypeOK, NEW r \in Runs, EndsWell(r),
         \/ \E phase \in {"continue", "final"} : CheckpointEmpty(r, phase)
         \/ CheckpointCommit(r) \/ AnswerNext(r) \/ FinishBatch(r)
         \/ LoopReturn(r) \/ CompactReturn(r)
  PROVE  EndsWell(r)' /\ \A q \in Runs \ {r} : Unmoved(q)
  <1> USE DEF TypeOK, RunsTyped, BatchesTyped, EndsWell, Unmoved, Goto, GotoWith, batchVars, runVars
  <1>1. CASE \E phase \in {"continue", "final"} : CheckpointEmpty(r, phase)
    BY <1>1 DEF CheckpointEmpty
  <1>2. CASE CheckpointCommit(r)
    BY <1>2 DEF CheckpointCommit
  <1>3. CASE AnswerNext(r)
    <2>1. /\ pc[r] = "answer" /\ UNCHANGED runVars
          /\ \A q \in Runs \ {r} : batch'[q] = batch[q]
      BY <1>3 DEF AnswerNext
    <2>2. QED
      BY <2>1
  <1>4. CASE FinishBatch(r)
    BY <1>4 DEF FinishBatch
  <1>5. CASE LoopReturn(r)
    BY <1>5 DEF LoopReturn
  <1>6. CASE CompactReturn(r)
    BY <1>6 DEF CompactReturn
  <1>7. QED
    BY <1>1, <1>2, <1>3, <1>4, <1>5, <1>6

(* The ending itself. *)
LEMMA EndingsEndWell ==
  ASSUME TypeOK, NEW r \in Runs, EndsWell(r),
         Finish(r) \/ SaveEnd(r) \/ AnnounceEnd(r) \/ Release(r) \/ Complete(r)
  PROVE  EndsWell(r)' /\ \A q \in Runs \ {r} : Unmoved(q)
  <1> USE DEF TypeOK, RunsTyped, BatchesTyped, EndsWell, Unmoved, Goto, GotoWith, batchVars
  <1>1. CASE Finish(r)
    BY <1>1 DEF Finish
  <1>2. CASE SaveEnd(r)
    BY <1>2 DEF SaveEnd, Status, EndOwed
  <1>3. CASE AnnounceEnd(r)
    BY <1>3 DEF AnnounceEnd
  <1>4. CASE Release(r)
    BY <1>4 DEF Release
  <1>5. CASE Complete(r)
    BY <1>5 DEF Complete
  <1>6. QED
    BY <1>1, <1>2, <1>3, <1>4, <1>5

(* Callers and Close leave the goroutine of a run where it is. *)
LEMMA CallersMoveNoRun ==
  ASSUME \/ \E r \in Runs : Stop(r) \/ ContextCancelled(r) \/ CloseStop(r)
         \/ \E i \in Steers : \/ \E r \in Runs : SteerLookup(i, r)
                              \/ SteerAdmit(i) \/ SteerReturn(i) \/ SteerAbandon(i)
         \/ \E m \in Messages : ReceiveLookup(m) \/ ReceiveAdmit(m)
         \/ CloseBegin \/ CloseReturn \/ UNCHANGED vars
  PROVE  UNCHANGED <<runVars, batchVars, ledger>>
  <1>1. ASSUME NEW r \in Runs, Stop(r) \/ ContextCancelled(r) \/ CloseStop(r)
        PROVE  UNCHANGED <<runVars, batchVars, ledger>>
    BY <1>1 DEF Stop, ContextCancelled, CloseStop
  <1>2. ASSUME NEW i \in Steers, \/ \E r \in Runs : SteerLookup(i, r)
                                 \/ SteerAdmit(i) \/ SteerReturn(i) \/ SteerAbandon(i)
        PROVE  UNCHANGED <<runVars, batchVars, ledger>>
    BY <1>2 DEF SteerLookup, SteerAdmit, SteerReturn, SteerAbandon
  <1>3. ASSUME NEW m \in Messages, ReceiveLookup(m) \/ ReceiveAdmit(m)
        PROVE  UNCHANGED <<runVars, batchVars, ledger>>
    BY <1>3 DEF ReceiveLookup, ReceiveAdmit
  <1>4. CASE CloseBegin \/ CloseReturn \/ UNCHANGED vars
    BY <1>4 DEF CloseBegin, CloseReturn, vars
  <1>5. QED
    BY <1>1, <1>2, <1>3, <1>4

(* A step is one of the goroutine of a run or one that leaves it alone. *)
LEMMA WhoSteps ==
  ASSUME [Next]_vars
  PROVE  \/ UNCHANGED <<runVars, batchVars, ledger>>
         \/ \E r \in Runs : \/ \E k \in {"turn", "compact"} : Begin(r, k)
                            \/ RunStep(r)
                            \/ \E phase \in {"continue", "final"} : CheckpointEmpty(r, phase)
                            \/ LoopReturn(r)
  BY CallersMoveNoRun DEF Next

(* RunEnded follows every RunStarted before the session is free, and the   *)
(* record is final by then unless it could not be written (run.go:643-678). *)
THEOREM StartedIsEndedHolds == Spec => []StartedIsEnded
  <1> DEFINE EndWell == \A r \in Runs : EndsWell(r)
  <1>1. Init => EndWell
    BY DEF Init, EndsWell
  <1>2. TypeOK /\ EndWell /\ [Next]_vars => EndWell'
    <2> SUFFICES ASSUME TypeOK, EndWell, [Next]_vars PROVE EndWell'
      OBVIOUS
    <2>1. CASE UNCHANGED <<runVars, batchVars, ledger>>
      BY <2>1 DEF EndsWell, runVars, batchVars
    <2>2. ASSUME NEW r \in Runs,
                 \/ \E k \in {"turn", "compact"} : Begin(r, k)
                 \/ RunStep(r)
                 \/ \E phase \in {"continue", "final"} : CheckpointEmpty(r, phase)
                 \/ LoopReturn(r)
          PROVE  EndWell'
      <3>1. EndsWell(r)' /\ \A q \in Runs \ {r} : Unmoved(q)
        BY <2>2, BeginningsEndWell, LoopsEndWell, EndingsEndWell DEF RunStep
      <3>2. ASSUME NEW q \in Runs \ {r} PROVE EndsWell(q)'
        BY <3>1, <3>2 DEF Unmoved, EndsWell
      <3>3. QED
        BY <3>1, <3>2
    <2>3. QED
      BY <2>1, <2>2, WhoSteps
  <1>3. EndWell => StartedIsEnded
    BY DEF EndsWell, StartedIsEnded
  <1>4. QED
    BY <1>1, <1>2, <1>3, TypeCorrect, PTL DEF Spec

-----------------------------------------------------------------------------
(* Nothing is written after Close. *)

(* When Close has returned every run is new or done, and none begins. *)
ClosedIsDone == closing = "closed" => \A r \in Runs : pc[r] \in {"new", "done"}

(* Only Close changes how far Close has come. *)
LEMMA OnlyCloseCloses ==
  ASSUME [Next]_vars, closing' # closing
  PROVE  CloseBegin \/ CloseReturn
  <1>1. ASSUME NEW r \in Runs, Stop(r) \/ ContextCancelled(r) \/ CloseStop(r)
        PROVE  closing' = closing
    BY <1>1 DEF Stop, ContextCancelled, CloseStop, closeVars
  <1>2. ASSUME NEW i \in Steers, \/ \E r \in Runs : SteerLookup(i, r)
                                 \/ SteerAdmit(i) \/ SteerReturn(i) \/ SteerAbandon(i)
        PROVE  closing' = closing
    BY <1>2 DEF SteerLookup, SteerAdmit, SteerReturn, SteerAbandon, closeVars
  <1>3. ASSUME NEW m \in Messages, ReceiveLookup(m) \/ ReceiveAdmit(m)
        PROVE  closing' = closing
    BY <1>3 DEF ReceiveLookup, ReceiveAdmit, closeVars
  <1>4. ASSUME NEW r \in Runs,
               \/ \E k \in {"turn", "compact"} : Begin(r, k)
               \/ RunStep(r)
               \/ \E phase \in {"continue", "final"} : CheckpointEmpty(r, phase)
               \/ LoopReturn(r)
        PROVE  closing' = closing
    BY <1>4 DEF Begin, RunStep, Prepare, AppendPrompt, SaveRunning, AnnouncePrompt,
       OpenSteering, AnnounceStarted, CheckpointEmpty, CheckpointCommit, AnswerNext, FinishBatch,
       LoopReturn, CompactReturn, Finish, SaveEnd, AnnounceEnd, Release, Complete, closeVars
  <1>5. ASSUME UNCHANGED vars PROVE closing' = closing
    BY <1>5 DEF vars, closeVars
  <1>6. QED
    BY <1>1, <1>2, <1>3, <1>4, <1>5 DEF Next

(* A run that has neither begun nor ended is needed for every write. *)
LEMMA QuietSteps ==
  ASSUME ClosedIsDone, [Next]_vars, closing = "closed"
  PROVE  UNCHANGED <<runVars, ledger>> /\ closing' = "closed"
  <1>1. ASSUME NEW r \in Runs,
               \/ \E k \in {"turn", "compact"} : Begin(r, k)
               \/ RunStep(r)
               \/ \E phase \in {"continue", "final"} : CheckpointEmpty(r, phase)
               \/ LoopReturn(r)
        PROVE  FALSE
    <2>1. pc[r] \in {"new", "done"}
      BY DEF ClosedIsDone
    <2>2. QED
      BY <1>1, <2>1 DEF Begin, MayBegin, RunStep, Prepare, AppendPrompt, SaveRunning, AnnouncePrompt,
         OpenSteering, AnnounceStarted, CheckpointEmpty, CheckpointCommit, AnswerNext, FinishBatch,
         LoopReturn, CompactReturn, Finish, SaveEnd, AnnounceEnd, Release, Complete
  <1>2. QED
    BY <1>1, WhoSteps, OnlyCloseCloses DEF CloseBegin, CloseReturn

(* Close waits for the runs it found and admits no other: what it leaves   *)
(* is a runner that writes nothing any more (run.go:527-540, 569-581).     *)
THEOREM ClosedIsQuietHolds == Spec => ClosedIsQuiet
  <1>1. Init => ClosedIsDone
    BY DEF Init, ClosedIsDone
  <1>2. ClosedIsDone /\ [Next]_vars => ClosedIsDone'
    <2> SUFFICES ASSUME ClosedIsDone, [Next]_vars PROVE ClosedIsDone'
      OBVIOUS
    <2>1. CASE closing = "closed"
      BY <2>1, QuietSteps DEF ClosedIsDone, runVars
    <2>2. CASE closing # "closed" /\ closing' = "closed"
      BY <2>2, OnlyCloseCloses DEF CloseBegin, CloseReturn, ClosedIsDone, runVars
    <2>3. CASE closing' # "closed"
      BY <2>3 DEF ClosedIsDone
    <2>4. QED
      BY <2>1, <2>2, <2>3
  <1>3. ClosedIsDone /\ [Next]_vars => [closing = "closed" => UNCHANGED <<ledger, record, live, told>>]_vars
    BY QuietSteps DEF runVars
  <1>4. QED
    BY <1>1, <1>2, <1>3, PTL DEF Spec, ClosedIsQuiet

-----------------------------------------------------------------------------
(* Ledgers only grow, by entries of the run that occupies the session. *)

(* The step adds entries of run r behind what its ledger had. *)
Extends(r) ==
  /\ \A s \in Sessions \ {Home[r]} : ledger'[s] = ledger[s]
  /\ Len(ledger[Home[r]]) <= Len(ledger'[Home[r]])
  /\ \A k \in 1..Len(ledger[Home[r]]) : ledger'[Home[r]][k] = ledger[Home[r]][k]
  /\ \A k \in (Len(ledger[Home[r]]) + 1)..Len(ledger'[Home[r]]) : ledger'[Home[r]][k].run = r

(* The prompt or the summary of a run. *)
LEMMA OpeningExtends ==
  ASSUME TypeOK, NEW r \in Runs, NEW x \in {"prompt", "summary"},
         ledger' = [ledger EXCEPT ![Home[r]] = Append(@, Entry(r, x))]
  PROVE  /\ Extends(r)
         /\ Len(ledger'[Home[r]]) = Len(ledger[Home[r]]) + 1
         /\ ledger'[Home[r]][Len(ledger[Home[r]]) + 1] = Entry(r, x)
  <1>1. ledger \in [Sessions -> Seq(Entries)] /\ Home[r] \in Sessions /\ Entry(r, x) \in Entries
    BY RunnerAssumption DEF TypeOK, Entry, Entries
  <1>2. ledger'[Home[r]] = Append(ledger[Home[r]], Entry(r, x)) /\ ledger[Home[r]] \in Seq(Entries)
    BY <1>1
  <1>3. Entry(r, x).run = r
    BY DEF Entry
  <1>4. \A s \in Sessions \ {Home[r]} : ledger'[s] = ledger[s]
    BY <1>1
  <1>5. QED
    BY <1>1, <1>2, <1>3, <1>4 DEF Extends

(* The length of a concatenation. *)
LEMMA ConcatLength ==
  ASSUME NEW S, NEW s \in Seq(S), NEW t \in Seq(S)
  PROVE  Len(s \o t) = Len(s) + Len(t)
  OBVIOUS

(* What a checkpoint records: the first good[r] of what was held, in order. *)
LEMMA CommitExtends ==
  ASSUME TypeOK, NEW r \in Runs, CheckpointCommit(r)
  PROVE  /\ Extends(r)
         /\ good'[r] \in 0..Len(pending[r])
         /\ Len(ledger'[Home[r]]) = Len(ledger[Home[r]]) + good'[r]
         /\ \A k \in 1..good'[r] :
              ledger'[Home[r]][Len(ledger[Home[r]]) + k] = Entry(r, pending[r][k])
  <1>1. PICK n \in 0..Len(pending[r]) :
          /\ ledger' = [ledger EXCEPT ![Home[r]] = @ \o [k \in 1..n |-> Entry(r, pending[r][k])]]
          /\ good' = [good EXCEPT ![r] = n]
    BY DEF CheckpointCommit
  <1> DEFINE taken == [k \in 1..n |-> Entry(r, pending[r][k])]
  <1>2. /\ ledger \in [Sessions -> Seq(Entries)] /\ Home[r] \in Sessions
        /\ pending[r] \in Seq(Inputs) /\ n \in Nat
    BY RunnerAssumption DEF TypeOK, InputsTyped
  <1>3. /\ \A k \in 1..n : pending[r][k] \in Inputs
        /\ taken \in Seq(Entries) /\ Len(taken) = n
        /\ \A k \in 1..n : taken[k] = Entry(r, pending[r][k]) /\ taken[k].run = r
    BY <1>1, <1>2 DEF Entry, Entries
  <1>4. ledger'[Home[r]] = ledger[Home[r]] \o taken /\ ledger[Home[r]] \in Seq(Entries)
    BY <1>1, <1>2
  <1>5. good'[r] = n
    BY <1>1 DEF TypeOK, BatchesTyped
  <1>6. \A s \in Sessions \ {Home[r]} : ledger'[s] = ledger[s]
    BY <1>1, <1>2
  <1> HIDE DEF taken
  <1>7. Len(ledger'[Home[r]]) = Len(ledger[Home[r]]) + n
    <2>1. Len(ledger[Home[r]] \o taken) = Len(ledger[Home[r]]) + Len(taken)
      BY <1>3, <1>4, ConcatLength
    <2>2. QED
      BY <2>1, <1>3, <1>4
  <1>8. \A k \in 1..Len(ledger[Home[r]]) : ledger'[Home[r]][k] = ledger[Home[r]][k]
    BY <1>3, <1>4
  <1>9. \A k \in 1..n : ledger'[Home[r]][Len(ledger[Home[r]]) + k] = taken[k]
    BY <1>3, <1>4
  <1>10. ASSUME NEW k \in (Len(ledger[Home[r]]) + 1)..Len(ledger'[Home[r]])
         PROVE  ledger'[Home[r]][k].run = r
    <2>1. k - Len(ledger[Home[r]]) \in 1..n /\ ledger'[Home[r]][k] = taken[k - Len(ledger[Home[r]])]
      BY <1>2, <1>3, <1>4, <1>7
    <2>2. QED
      BY <1>3, <2>1
  <1>11. QED
    BY <1>2, <1>3, <1>4, <1>5, <1>6, <1>7, <1>8, <1>9, <1>10 DEF Extends

(* Every other step of a run leaves the ledgers alone. *)
LEMMA WhoWrites ==
  ASSUME TypeOK, [Next]_vars
  PROVE  \/ UNCHANGED ledger
         \/ \E r \in Runs : \/ AppendPrompt(r) /\ ledger' = [ledger EXCEPT ![Home[r]] = Append(@, Entry(r, "prompt"))]
                            \/ CompactReturn(r) /\ ledger' = [ledger EXCEPT ![Home[r]] = Append(@, Entry(r, "summary"))]
                            \/ CheckpointCommit(r)
  <1>1. ASSUME NEW r \in Runs,
               \/ \E k \in {"turn", "compact"} : Begin(r, k)
               \/ RunStep(r) /\ ~AppendPrompt(r) /\ ~CompactReturn(r) /\ ~CheckpointCommit(r)
               \/ \E phase \in {"continue", "final"} : CheckpointEmpty(r, phase)
               \/ LoopReturn(r)
        PROVE  UNCHANGED ledger
    BY <1>1 DEF Begin, RunStep, Prepare, SaveRunning, AnnouncePrompt, OpenSteering, AnnounceStarted,
       CheckpointEmpty, AnswerNext, FinishBatch, LoopReturn, Finish, SaveEnd, AnnounceEnd, Release, Complete
  <1>2. ASSUME NEW r \in Runs, AppendPrompt(r) \/ CompactReturn(r)
        PROVE  \/ UNCHANGED ledger
               \/ AppendPrompt(r) /\ ledger' = [ledger EXCEPT ![Home[r]] = Append(@, Entry(r, "prompt"))]
               \/ CompactReturn(r) /\ ledger' = [ledger EXCEPT ![Home[r]] = Append(@, Entry(r, "summary"))]
    BY <1>2 DEF AppendPrompt, CompactReturn
  <1>3. QED
    BY <1>1, <1>2, WhoSteps

(* What is in a ledger stays there. *)
LEMMA LedgersGrow ==
  ASSUME TypeOK, [Next]_vars, NEW s \in Sessions
  PROVE  \A k \in DOMAIN ledger[s] : k \in DOMAIN ledger'[s] /\ ledger'[s][k] = ledger[s][k]
  <1>1. ASSUME NEW r \in Runs, Extends(r), ledger'[s] \in Seq(Entries)
        PROVE  \A k \in DOMAIN ledger[s] : k \in DOMAIN ledger'[s] /\ ledger'[s][k] = ledger[s][k]
    <2>1. ledger[s] \in Seq(Entries)
      BY DEF TypeOK
    <2>2. QED
      BY <1>1, <2>1 DEF Extends
  <1>2. TypeOK'
    BY TypeKept
  <1>3. ledger'[s] \in Seq(Entries)
    BY <1>2 DEF TypeOK
  <1>4. QED
    BY <1>1, <1>3, WhoWrites, OpeningExtends, CommitExtends

-----------------------------------------------------------------------------
(* The entries of a run are one block. *)

(* From its prompt on, the last entry of the session is of the run that    *)
(* goes on adding inputs to it.                                            *)
Writing(r) ==
  \/ pc[r] \in {"announce", "open", "initial", "loop", "answer"}
  \/ pc[r] \in {"record", "starting"} /\ kind[r] = "turn"
Headed(r) == Writing(r) => /\ ledger[Home[r]] # <<>>
                           /\ ledger[Home[r]][Len(ledger[Home[r]])].run = r
Blocks == RunsAreBlocks /\ \A r \in Runs : Headed(r)

(* A run that did not write yet does not begin to without its prompt. *)
LEMMA NobodyBeginsToWrite ==
  ASSUME TypeOK, [Next]_vars, UNCHANGED ledger, NEW q \in Runs, Writing(q)', Len(ledger[Home[q]]) \in Nat
  PROVE  Writing(q)
  <1> USE DEF TypeOK, RunsTyped, Writing, Goto, GotoWith
  <1>1. CASE UNCHANGED <<runVars, batchVars, ledger>>
    BY <1>1 DEF runVars
  <1>2. ASSUME NEW r \in Runs, \E k \in {"turn", "compact"} : Begin(r, k) PROVE Writing(q)
    BY <1>2 DEF Begin
  <1>3. ASSUME NEW r \in Runs, Prepare(r) \/ SaveRunning(r) \/ AnnouncePrompt(r) PROVE Writing(q)
    BY <1>3 DEF Prepare, SaveRunning, AnnouncePrompt
  <1>4. ASSUME NEW r \in Runs, AppendPrompt(r) PROVE Writing(q)
    <2>1. ledger' = [ledger EXCEPT ![Home[r]] = Append(@, Entry(r, "prompt"))] => FALSE
      <3>1. ASSUME ledger' = [ledger EXCEPT ![Home[r]] = Append(@, Entry(r, "prompt"))] PROVE FALSE
        <4>1. Len(ledger'[Home[r]]) = Len(ledger[Home[r]]) + 1 /\ Len(ledger[Home[r]]) \in Nat
          BY <3>1, OpeningExtends, RunnerAssumption
        <4>2. QED
          BY <4>1
      <3>2. QED
        BY <3>1
    <2>2. pc' = [pc EXCEPT ![r] = "finish"] /\ kind' = kind
      BY <1>4, <2>1 DEF AppendPrompt
    <2>3. QED
      BY <2>2
  <1>5. ASSUME NEW r \in Runs, OpenSteering(r) \/ AnnounceStarted(r) PROVE Writing(q)
    BY <1>5 DEF OpenSteering, AnnounceStarted
  <1>6. ASSUME NEW r \in Runs, \E phase \in {"continue", "final"} : CheckpointEmpty(r, phase) PROVE Writing(q)
    BY <1>6 DEF CheckpointEmpty
  <1>7. ASSUME NEW r \in Runs, CheckpointCommit(r) \/ FinishBatch(r) PROVE Writing(q)
    BY <1>7 DEF CheckpointCommit, FinishBatch
  <1>8. ASSUME NEW r \in Runs, AnswerNext(r) PROVE Writing(q)
    BY <1>8 DEF AnswerNext, runVars
  <1>9. ASSUME NEW r \in Runs, LoopReturn(r) \/ CompactReturn(r) PROVE Writing(q)
    BY <1>9 DEF LoopReturn, CompactReturn
  <1>10. ASSUME NEW r \in Runs, Finish(r) \/ SaveEnd(r) \/ AnnounceEnd(r) \/ Release(r) \/ Complete(r)
         PROVE  Writing(q)
    BY <1>10 DEF Finish, SaveEnd, AnnounceEnd, Release, Complete
  <1>11. QED
    BY <1>1, <1>2, <1>3, <1>4, <1>5, <1>6, <1>7, <1>8, <1>9, <1>10, WhoSteps DEF RunStep

(* Entries of the one active run of a session, behind an entry of it or    *)
(* behind an opening, keep the blocks whole.                               *)
LEMMA ExtendedBlocks ==
  ASSUME TypeOK, TypeOK', OneActiveRun, Blocks, NEW r \in Runs, Active(r), Extends(r),
         kind' = kind, \A q \in Runs \ {r} : pc'[q] = pc[q],
         \A k \in (Len(ledger[Home[r]]) + 1)..Len(ledger'[Home[r]]) :
            \/ ledger'[Home[r]][k].item \in {"prompt", "summary"}
            \/ k > 1 /\ ledger'[Home[r]][k - 1].run = r,
         Writing(r)' => Writing(r) \/ Len(ledger[Home[r]]) < Len(ledger'[Home[r]])
  PROVE  Blocks'
  <1>1. ledger \in [Sessions -> Seq(Entries)] /\ ledger' \in [Sessions -> Seq(Entries)] /\ Home[r] \in Sessions
    BY RunnerAssumption DEF TypeOK
  <1>2. /\ Len(ledger[Home[r]]) \in Nat /\ Len(ledger'[Home[r]]) \in Nat
        /\ DOMAIN ledger[Home[r]] = 1..Len(ledger[Home[r]])
        /\ DOMAIN ledger'[Home[r]] = 1..Len(ledger'[Home[r]])
    BY <1>1
  <1>3. ASSUME NEW s \in Sessions, NEW k \in DOMAIN ledger'[s]
        PROVE  \/ ledger'[s][k].item \in {"prompt", "summary"}
               \/ k > 1 /\ ledger'[s][k - 1].run = ledger'[s][k].run
    <2>1. CASE s # Home[r]
      BY <1>3, <2>1 DEF Extends, Blocks, RunsAreBlocks
    <2>2. CASE s = Home[r] /\ k \in 1..Len(ledger[Home[r]])
      <3>1. \/ ledger[s][k].item \in {"prompt", "summary"}
            \/ k > 1 /\ ledger[s][k - 1].run = ledger[s][k].run
        BY <1>2, <2>2 DEF Blocks, RunsAreBlocks
      <3>2. ledger'[s][k] = ledger[s][k] /\ (k > 1 => ledger'[s][k - 1] = ledger[s][k - 1])
        BY <1>2, <2>2 DEF Extends
      <3>3. QED
        BY <3>1, <3>2
    <2>3. CASE s = Home[r] /\ k \notin 1..Len(ledger[Home[r]])
      <3>1. k \in (Len(ledger[Home[r]]) + 1)..Len(ledger'[Home[r]])
        BY <1>2, <1>3, <2>3
      <3>2. ledger'[s][k].run = r
        BY <2>3, <3>1 DEF Extends
      <3>3. QED
        BY <2>3, <3>1, <3>2
    <2>4. QED
      BY <2>1, <2>2, <2>3
  <1>4. ASSUME NEW q \in Runs \ {r}, Writing(q)'
        PROVE  ledger'[Home[q]] # <<>> /\ ledger'[Home[q]][Len(ledger'[Home[q]])].run = q
    <2>1. Writing(q) /\ Active(q)
      BY <1>4 DEF Writing, Active
    <2>2. Home[q] # Home[r] /\ Home[q] \in Sessions
      BY <2>1, RunnerAssumption DEF OneActiveRun
    <2>3. ledger'[Home[q]] = ledger[Home[q]]
      BY <2>2 DEF Extends
    <2>4. QED
      BY <2>1, <2>3 DEF Blocks, Headed
  <1>5. ASSUME Writing(r)'
        PROVE  ledger'[Home[r]] # <<>> /\ ledger'[Home[r]][Len(ledger'[Home[r]])].run = r
    <2>1. CASE Len(ledger[Home[r]]) < Len(ledger'[Home[r]])
      <3>1. Len(ledger'[Home[r]]) \in (Len(ledger[Home[r]]) + 1)..Len(ledger'[Home[r]])
        BY <1>2, <2>1
      <3>2. ledger'[Home[r]] # <<>>
        BY <1>2, <2>1
      <3>3. QED
        BY <3>1, <3>2 DEF Extends
    <2>2. CASE ~(Len(ledger[Home[r]]) < Len(ledger'[Home[r]]))
      <3>1. Len(ledger'[Home[r]]) = Len(ledger[Home[r]]) /\ Writing(r)
        BY <1>2, <1>5, <2>2 DEF Extends
      <3>2. ledger[Home[r]] # <<>> /\ ledger[Home[r]][Len(ledger[Home[r]])].run = r
        BY <3>1 DEF Blocks, Headed
      <3>3. Len(ledger[Home[r]]) \in 1..Len(ledger[Home[r]])
        BY <1>1, <3>2
      <3>4. ledger'[Home[r]][Len(ledger'[Home[r]])] = ledger[Home[r]][Len(ledger[Home[r]])]
        BY <3>1, <3>3 DEF Extends
      <3>5. ledger'[Home[r]] # <<>>
        BY <1>1, <3>1, <3>3
      <3>6. QED
        BY <3>2, <3>4, <3>5
    <2>3. QED
      BY <2>1, <2>2
  <1>6. \A q \in Runs : Headed(q)'
    BY <1>4, <1>5 DEF Headed
  <1>7. RunsAreBlocks'
    BY <1>3 DEF RunsAreBlocks
  <1>8. QED
    BY <1>6, <1>7 DEF Blocks

(* No input reaches the ledger before the prompt it steers, and none after *)
(* the next turn has begun (steer.go:142-206, run.go:381-388).             *)
THEOREM RunsAreBlocksHolds == Spec => []RunsAreBlocks
  <1>1. Init => Blocks
    BY DEF Init, Blocks, RunsAreBlocks, Headed, Writing
  <1>2. TypeOK /\ OneActiveRun /\ Blocks /\ [Next]_vars => Blocks'
    <2> SUFFICES ASSUME TypeOK, OneActiveRun, Blocks, [Next]_vars PROVE Blocks'
      OBVIOUS
    <2>1. TypeOK'
      BY TypeKept
    <2>2. CASE UNCHANGED ledger
      <3>1. \A q \in Runs : Len(ledger[Home[q]]) \in Nat
        BY RunnerAssumption DEF TypeOK
      <3>2. \A q \in Runs : Writing(q)' => Writing(q)
        BY <2>2, <3>1, NobodyBeginsToWrite
      <3>3. QED
        BY <2>2, <3>2 DEF Blocks, RunsAreBlocks, Headed
    <2>3. ASSUME NEW r \in Runs, AppendPrompt(r),
                 ledger' = [ledger EXCEPT ![Home[r]] = Append(@, Entry(r, "prompt"))]
          PROVE  Blocks'
      <3>1. /\ Extends(r) /\ Len(ledger'[Home[r]]) = Len(ledger[Home[r]]) + 1
            /\ ledger'[Home[r]][Len(ledger[Home[r]]) + 1] = Entry(r, "prompt")
        BY <2>3, OpeningExtends
      <3>2. Active(r) /\ kind' = kind /\ \A q \in Runs \ {r} : pc'[q] = pc[q]
        BY <2>3, OthersStay DEF AppendPrompt, Active, RunStep
      <3>3. Len(ledger[Home[r]]) \in Nat
        BY RunnerAssumption DEF TypeOK
      <3>4. QED
        BY <2>1, <3>1, <3>2, <3>3, ExtendedBlocks DEF Entry
    <2>4. ASSUME NEW r \in Runs, CompactReturn(r),
                 ledger' = [ledger EXCEPT ![Home[r]] = Append(@, Entry(r, "summary"))]
          PROVE  Blocks'
      <3>1. /\ Extends(r) /\ Len(ledger'[Home[r]]) = Len(ledger[Home[r]]) + 1
            /\ ledger'[Home[r]][Len(ledger[Home[r]]) + 1] = Entry(r, "summary")
        BY <2>4, OpeningExtends
      <3>2. Active(r) /\ kind' = kind /\ \A q \in Runs \ {r} : pc'[q] = pc[q]
        BY <2>4, OthersStay DEF CompactReturn, Active, RunStep
      <3>3. Len(ledger[Home[r]]) \in Nat
        BY RunnerAssumption DEF TypeOK
      <3>4. QED
        BY <2>1, <3>1, <3>2, <3>3, ExtendedBlocks DEF Entry
    <2>5. ASSUME NEW r \in Runs, CheckpointCommit(r) PROVE Blocks'
      <3>1. Extends(r)
        BY <2>5, CommitExtends
      <3>2. /\ Active(r) /\ Writing(r) /\ kind' = kind
            /\ \A q \in Runs \ {r} : pc'[q] = pc[q]
        BY <2>5, OthersStay DEF CheckpointCommit, Active, Writing, RunStep
      <3>3. /\ ledger[Home[r]] \in Seq(Entries) /\ ledger'[Home[r]] \in Seq(Entries)
            /\ ledger[Home[r]] # <<>> /\ ledger[Home[r]][Len(ledger[Home[r]])].run = r
        BY <2>1, <3>2, RunnerAssumption DEF TypeOK, Blocks, Headed
      <3>4. ASSUME NEW k \in (Len(ledger[Home[r]]) + 1)..Len(ledger'[Home[r]])
            PROVE  k > 1 /\ ledger'[Home[r]][k - 1].run = r
        <4>1. Len(ledger[Home[r]]) \in 1..Len(ledger[Home[r]]) /\ k > 1
          BY <3>3
        <4>2. CASE k = Len(ledger[Home[r]]) + 1
          <5>1. k - 1 = Len(ledger[Home[r]])
            BY <4>1, <4>2
          <5>2. ledger'[Home[r]][k - 1] = ledger[Home[r]][Len(ledger[Home[r]])]
            BY <3>1, <4>1, <5>1 DEF Extends
          <5>3. QED
            BY <3>3, <4>1, <5>2
        <4>3. CASE k # Len(ledger[Home[r]]) + 1
          <5>1. k - 1 \in (Len(ledger[Home[r]]) + 1)..Len(ledger'[Home[r]])
            BY <3>3, <4>3
          <5>2. QED
            BY <3>1, <4>1, <5>1 DEF Extends
        <4>4. QED
          BY <4>2, <4>3
      <3>5. QED
        BY <2>1, <3>1, <3>2, <3>4, ExtendedBlocks
    <2>6. QED
      BY <2>2, <2>3, <2>4, <2>5, WhoWrites
  <1>3. Blocks => RunsAreBlocks
    BY DEF Blocks
  <1>4. QED
    BY <1>1, <1>2, <1>3, TypeCorrect, OneActiveRunHolds, PTL DEF Spec

-----------------------------------------------------------------------------
(* What a Steer call is told is what happened to its message. *)

(* The entries a run finds in its session, in no order. *)
Logged == [r \in Runs |-> {ledger[Home[r]][j] : j \in DOMAIN ledger[Home[r]]}]
Recorded(r, x) == Entry(r, x) \in Logged[r]

(* AcknowledgedIsRecorded is not inductive: the answers of a checkpoint    *)
(* are given one after the other when its entries are written already, and *)
(* a run whose checkpoint failed is to end.                                *)
Gives(r) ==
  /\ faulty[r] => pc[r] = "answer" \/ steering[r] = "closed"
  /\ \A k \in DOMAIN batch[r] :
       /\ k <= good[r] => Recorded(r, batch[r][k])
       /\ batch[r][k] \in Steers => target[batch[r][k]] = r /\ call[batch[r][k]] # "idle"
Takes(i) ==
  /\ call[i] = "idle" => answer[i] = "none"
  /\ answer[i] \in {"nil", "failed"} => target[i] \in Runs
  /\ answer[i] = "nil" => Recorded(target[i], i)
  /\ answer[i] = "failed" => faulty[target[i]] \/ steering[target[i]] = "closed"
Answers == (\A r \in Runs : Gives(r)) /\ (\A i \in Steers : Takes(i))

(* A step that lets every call which has begun keep its run. *)
CallsGoOn ==
  \A i \in Steers : /\ call'[i] = "idle" => call[i] = "idle"
                    /\ call[i] # "idle" => target'[i] = target[i]

(* A run that failed goes on answering or has closed its admission. *)
GoesDown(r) ==
  /\ steering[r] = "closed" => steering'[r] = "closed"
  /\ pc[r] = "answer" => pc'[r] = "answer" \/ ~faulty[r] \/ steering'[r] = "closed"

(* What is recorded stays recorded. *)
LEMMA LoggedGrows ==
  ASSUME TypeOK, [Next]_vars, NEW r \in Runs
  PROVE  Logged[r] \subseteq Logged'[r]
  <1>1. Home[r] \in Sessions
    BY RunnerAssumption
  <1>2. QED
    BY <1>1, LedgersGrow DEF Logged

LEMMA LoggedStays == UNCHANGED ledger => Logged' = Logged
  BY DEF Logged

(* A step without an answer and without a checkpoint. *)
LEMMA AnswersStay ==
  ASSUME TypeOK, Answers, [Next]_vars, UNCHANGED <<batchVars, answer>>, CallsGoOn,
         \A r \in Runs : GoesDown(r)
  PROVE  Answers'
  <1>1. ASSUME NEW r \in Runs PROVE Gives(r)'
    <2>1. Gives(r) /\ GoesDown(r) /\ UNCHANGED <<batch, good, faulty>>
      BY DEF Answers, batchVars
    <2>2. Logged[r] \subseteq Logged'[r]
      BY LoggedGrows
    <2>3. QED
      BY <2>1, <2>2 DEF Gives, GoesDown, CallsGoOn, Recorded, Entry
  <1>2. ASSUME NEW i \in Steers PROVE Takes(i)'
    <2>1. Takes(i) /\ UNCHANGED <<answer, faulty>>
      BY DEF Answers, batchVars
    <2>2. CASE call[i] = "idle"
      BY <2>1, <2>2 DEF Takes
    <2>3. CASE call[i] # "idle"
      <3>1. target'[i] = target[i] /\ call'[i] # "idle"
        BY <2>3 DEF CallsGoOn
      <3>2. target[i] \in Runs => Logged[target[i]] \subseteq Logged'[target[i]]
        BY LoggedGrows
      <3>3. QED
        BY <2>1, <3>1, <3>2 DEF Takes, GoesDown, Recorded, Entry
    <2>4. QED
      BY <2>2, <2>3
  <1>3. QED
    BY <1>1, <1>2 DEF Answers

(* finishInputs refuses what is held and answers nothing else. *)
LEMMA RefusalsKeepAnswers ==
  ASSUME TypeOK, Answers, Placed, NEW r \in Runs, FinishInputs(r),
         UNCHANGED <<batchVars, call, target, ledger>>,
         \A q \in Runs \ {r} : pc'[q] = pc[q]
  PROVE  Answers'
  <1>1. /\ steering'[r] = "closed"
        /\ \A q \in Runs \ {r} : steering'[q] = steering[q]
        /\ \A i \in Steers : answer'[i] = IF i \in Held(r) THEN "changed" ELSE answer[i]
    BY DEF FinishInputs, TypeOK, InputsTyped
  <1>2. UNCHANGED <<batch, good, faulty>> /\ Logged' = Logged
    BY LoggedStays DEF batchVars
  <1>3. ASSUME NEW q \in Runs PROVE Gives(q)'
    BY <1>1, <1>2 DEF Answers, Gives, Recorded
  <1>4. ASSUME NEW i \in Steers PROVE Takes(i)'
    <2>1. CASE i \in Held(r)
      BY <1>1, <2>1 DEF Takes, Placed, SteersInOnePlace
    <2>2. CASE i \notin Held(r)
      <3>1. answer'[i] = answer[i] /\ Takes(i)
        BY <1>1, <2>2 DEF Answers
      <3>2. answer[i] \in {"nil", "failed"} =>
              target[i] \in Runs /\ (steering[target[i]] = "closed" => steering'[target[i]] = "closed")
        BY <1>1, <3>1 DEF Takes
      <3>3. QED
        BY <1>2, <3>1, <3>2 DEF Takes, Recorded
    <2>3. QED
      BY <2>1, <2>2
  <1>5. QED
    BY <1>3, <1>4 DEF Answers

(* A checkpoint: what is answered nil later is recorded now. *)
LEMMA CommitKeepsAnswers ==
  ASSUME TypeOK, Answers, Placed, NothingStranded, [Next]_vars, NEW r \in Runs, CheckpointCommit(r)
  PROVE  Answers'
  <1>1. /\ UNCHANGED <<call, target, answer, steering>> /\ pc'[r] = "answer"
        /\ \A q \in Runs \ {r} : /\ pc'[q] = pc[q] /\ batch'[q] = batch[q]
                                 /\ good'[q] = good[q] /\ faulty'[q] = faulty[q]
        /\ batch'[r] = pending[r] /\ pending[r] # <<>> /\ pc[r] \in {"initial", "loop"}
    BY DEF CheckpointCommit, callVars, Goto, TypeOK, RunsTyped, InputsTyped, BatchesTyped
  <1>2. ~faulty[r] /\ steering[r] = "open"
    BY <1>1 DEF NothingStranded, Answers, Gives
  <1>3. ASSUME NEW q \in Runs \ {r} PROVE Gives(q)'
    <2>1. Logged[q] \subseteq Logged'[q]
      BY LoggedGrows
    <2>2. QED
      BY <1>1, <2>1 DEF Answers, Gives, Recorded, Entry
  <1>4. Gives(r)'
    <2>1. ASSUME NEW k \in DOMAIN pending[r], k <= good'[r] PROVE Entry(r, pending[r][k]) \in Logged'[r]
      <3>1. /\ pending[r] \in Seq(Inputs) /\ ledger[Home[r]] \in Seq(Entries)
            /\ ledger'[Home[r]] \in Seq(Entries)
        BY TypeKept, RunnerAssumption DEF TypeOK, InputsTyped
      <3>2. /\ Len(ledger'[Home[r]]) = Len(ledger[Home[r]]) + good'[r]
            /\ good'[r] \in Nat
            /\ k \in 1..good'[r] => ledger'[Home[r]][Len(ledger[Home[r]]) + k] = Entry(r, pending[r][k])
        BY <3>1, CommitExtends
      <3>3. k \in 1..good'[r] /\ Len(ledger[Home[r]]) + k \in DOMAIN ledger'[Home[r]]
        <4>1. k \in 1..good'[r]
          BY <2>1, <3>1, <3>2
        <4>2. Len(ledger[Home[r]]) \in Nat
          BY <3>1
        <4>3. Len(ledger[Home[r]]) + k \in 1..(Len(ledger[Home[r]]) + good'[r])
          <5>1. \A a, b \in Nat : \A j \in 1..b : a + j \in 1..(a + b)
            OBVIOUS
          <5>2. good'[r] \in Nat
            BY <3>2
          <5>3. QED
            BY <4>1, <4>2, <5>1, <5>2
        <4>4. DOMAIN ledger'[Home[r]] = 1..(Len(ledger[Home[r]]) + good'[r])
          BY <3>1, <3>2
        <4>5. QED
          BY <4>1, <4>3, <4>4
      <3>4. QED
        BY <3>2, <3>3 DEF Logged
    <2>2. ASSUME NEW k \in DOMAIN pending[r], pending[r][k] \in Steers
          PROVE  target[pending[r][k]] = r /\ call[pending[r][k]] # "idle"
      <3>1. pending[r][k] \in Held(r)
        BY DEF Held, ToSet
      <3>2. QED
        BY <2>2, <3>1 DEF Placed, SteersInOnePlace
    <2>3. QED
      BY <1>1, <2>1, <2>2 DEF Gives, Recorded, Entry
  <1>5. ASSUME NEW i \in Steers PROVE Takes(i)'
    <2>1. Takes(i)
      BY DEF Answers
    <2>2. target[i] \in Runs => Logged[target[i]] \subseteq Logged'[target[i]]
      BY LoggedGrows
    <2>3. answer[i] = "failed" => target[i] # r
      BY <1>2, <2>1 DEF Takes
    <2>4. QED
      BY <1>1, <2>1, <2>2, <2>3 DEF Takes, Recorded, Entry
  <1>6. QED
    BY <1>3, <1>4, <1>5 DEF Answers

(* The answer to one input of a checkpoint. *)
LEMMA AnswerKeepsAnswers ==
  ASSUME TypeOK, Answers, NEW r \in Runs, AnswerNext(r)
  PROVE  Answers'
  <1>1. /\ pc[r] = "answer" /\ batch[r] # <<>> /\ UNCHANGED <<runVars, steering, call, target, ledger>>
        /\ batch[r] \in Seq(Inputs) /\ good[r] \in Nat
        /\ batch'[r] = Tail(batch[r]) /\ good'[r] = OneLess(good[r])
        /\ \A q \in Runs \ {r} : batch'[q] = batch[q] /\ good'[q] = good[q] /\ faulty'[q] = faulty[q]
        /\ faulty[r] => faulty'[r]
        /\ Logged' = Logged
    BY LoggedStays DEF AnswerNext, callVars, TypeOK, BatchesTyped
  <1>2. \/ /\ good[r] > 0
           /\ \A i \in Steers : answer'[i] = IF i = batch[r][1] THEN "nil" ELSE answer[i]
        \/ /\ faulty'[r]
           /\ \A i \in Steers : answer'[i] = IF i = batch[r][1] THEN "failed" ELSE answer[i]
    BY <1>1 DEF AnswerNext, AnswerHead, Appended, TypeOK, BatchesTyped, InputsTyped
  <1>3. ASSUME NEW q \in Runs \ {r} PROVE Gives(q)'
    BY <1>1 DEF Answers, Gives, Recorded, runVars
  <1>4. Gives(r)'
    <2>1. ASSUME NEW k \in DOMAIN batch'[r]
          PROVE  /\ k + 1 \in DOMAIN batch[r] /\ batch'[r][k] = batch[r][k + 1]
                 /\ k <= good'[r] => k + 1 <= good[r]
      BY <1>1, <2>1 DEF OneLess
    <2>2. Gives(r) /\ pc'[r] = "answer"
      BY <1>1 DEF Answers, runVars
    <2>3. QED
      BY <1>1, <2>1, <2>2 DEF Gives, Recorded, Entry
  <1>5. ASSUME NEW i \in Steers PROVE Takes(i)'
    <2>1. CASE i = batch[r][1]
      <3>1. 1 \in DOMAIN batch[r]
        BY <1>1
      <3>2. target[i] = r /\ call[i] # "idle" /\ (good[r] > 0 => Recorded(r, i))
        BY <1>1, <2>1, <3>1 DEF Answers, Gives
      <3>3. QED
        BY <1>1, <1>2, <2>1, <3>2 DEF Takes, Recorded, Entry
    <2>2. CASE i # batch[r][1]
      <3>1. answer'[i] = answer[i] /\ Takes(i) /\ \A q \in Runs : faulty[q] => faulty'[q]
        BY <1>1, <1>2, <2>2 DEF Answers
      <3>2. QED
        BY <1>1, <3>1 DEF Takes, Recorded, Entry
    <2>3. QED
      BY <2>1, <2>2
  <1>6. QED
    BY <1>3, <1>4, <1>5 DEF Answers

(* nil is told of recorded messages only, and a run whose checkpoint       *)
(* failed takes no other message (steer.go:142-206, 287-311).              *)
THEOREM AcknowledgedIsRecordedHolds == Spec => []AcknowledgedIsRecorded
  <1>1. Init => Answers
    BY DEF Init, Answers, Gives, Takes
  <1>2. TypeOK /\ Placed /\ NothingStranded /\ Answers /\ [Next]_vars => Answers'
    <2> SUFFICES ASSUME TypeOK, Placed, NothingStranded, Answers, [Next]_vars PROVE Answers'
      OBVIOUS
    <2>1. CASE UNCHANGED vars
      <3>1. UNCHANGED <<batchVars, answer, call, target, pc, steering>>
        BY <2>1 DEF vars, inputVars, callVars, runVars
      <3>2. QED
        BY <3>1, AnswersStay DEF CallsGoOn, GoesDown
    <2>2. ASSUME NEW r \in Runs,
                 \/ \E k \in {"turn", "compact"} : Begin(r, k)
                 \/ Prepare(r) \/ AppendPrompt(r) \/ SaveRunning(r) \/ AnnouncePrompt(r)
                 \/ AnnounceStarted(r) \/ CompactReturn(r)
                 \/ SaveEnd(r) \/ AnnounceEnd(r) \/ Complete(r)
                 \/ LoopReturn(r) \/ ContextCancelled(r)
          PROVE  Answers'
      <3>1. UNCHANGED <<batchVars, answer, call, target, steering>>
        BY <2>2 DEF Begin, Prepare, AppendPrompt, SaveRunning, AnnouncePrompt, AnnounceStarted,
           CompactReturn, SaveEnd, AnnounceEnd, Complete, LoopReturn, ContextCancelled, inputVars, callVars
      <3>2. \A q \in Runs : pc[q] = "answer" => pc'[q] = "answer"
        BY <2>2 DEF Begin, Prepare, AppendPrompt, SaveRunning, AnnouncePrompt, AnnounceStarted,
           CompactReturn, SaveEnd, AnnounceEnd, Complete, LoopReturn, ContextCancelled, Goto, GotoWith,
           runVars, TypeOK, RunsTyped
      <3>3. QED
        BY <3>1, <3>2, AnswersStay DEF CallsGoOn, GoesDown
    <2>3. ASSUME NEW r \in Runs,
                 OpenSteering(r) \/ \E phase \in {"continue", "final"} : CheckpointEmpty(r, phase)
          PROVE  Answers'
      <3>1. UNCHANGED <<batchVars, answer, call, target>>
        BY <2>3 DEF OpenSteering, CheckpointEmpty, callVars
      <3>2. \A q \in Runs : /\ steering[q] = "closed" => steering'[q] = "closed"
                            /\ pc[q] = "answer" => pc'[q] = "answer"
        BY <2>3 DEF OpenSteering, CheckpointEmpty, Goto, GotoWith, TypeOK, RunsTyped, InputsTyped
      <3>3. QED
        BY <3>1, <3>2, AnswersStay DEF CallsGoOn, GoesDown
    <2>4. ASSUME NEW r \in Runs, CheckpointCommit(r) PROVE Answers'
      BY <2>4, CommitKeepsAnswers
    <2>5. ASSUME NEW r \in Runs, AnswerNext(r) PROVE Answers'
      BY <2>5, AnswerKeepsAnswers
    <2>6. ASSUME NEW r \in Runs, FinishBatch(r) PROVE Answers'
      <3>1. CASE faulty[r]
        <4>1. /\ FinishInputs(r) /\ UNCHANGED <<batchVars, call, target, ledger>>
              /\ \A q \in Runs \ {r} : pc'[q] = pc[q]
          BY <2>6, <3>1 DEF FinishBatch, callVars, Goto, GotoWith, TypeOK, RunsTyped
        <4>2. QED
          BY <3>1, <4>1, RefusalsKeepAnswers
      <3>2. CASE ~faulty[r]
        <4>1. /\ UNCHANGED <<batchVars, answer, call, target, steering>>
              /\ \A q \in Runs \ {r} : pc'[q] = pc[q]
          BY <2>6, <3>2 DEF FinishBatch, inputVars, callVars, Goto, TypeOK, RunsTyped
        <4>2. \A q \in Runs : GoesDown(q)
          BY <3>2, <4>1 DEF GoesDown
        <4>3. QED
          BY <4>1, <4>2, AnswersStay DEF CallsGoOn
      <3>3. QED
        BY <3>1, <3>2
    <2>7. ASSUME NEW r \in Runs, Finish(r) \/ Release(r) PROVE Answers'
      <3>1. /\ FinishInputs(r) /\ UNCHANGED <<batchVars, call, target, ledger>>
            /\ \A q \in Runs \ {r} : pc'[q] = pc[q]
        BY <2>7 DEF Finish, Release, callVars, Goto, TypeOK, RunsTyped
      <3>2. QED
        BY <3>1, RefusalsKeepAnswers
    <2>8. ASSUME NEW r \in Runs, Stop(r) \/ CloseStop(r) PROVE Answers'
      <3>1. FinishInputs(r) /\ UNCHANGED <<batchVars, call, target, ledger, pc>>
        BY <2>8 DEF Stop, CloseStop, callVars, runVars
      <3>2. QED
        BY <3>1, RefusalsKeepAnswers
    <2>9. ASSUME NEW i \in Steers, \/ \E r \in Runs : SteerLookup(i, r)
                                   \/ SteerAdmit(i) \/ SteerReturn(i) \/ SteerAbandon(i)
          PROVE  Answers'
      <3>1. UNCHANGED <<batchVars, answer, pc, steering>>
        BY <2>9 DEF SteerLookup, SteerAdmit, SteerReturn, SteerAbandon, inputVars, runVars
      <3>2. CallsGoOn
        BY <2>9 DEF SteerLookup, SteerAdmit, SteerReturn, SteerAbandon, CallsGoOn, TypeOK, CallsTyped, InputsTyped, Inputs
      <3>3. QED
        BY <3>1, <3>2, AnswersStay DEF GoesDown
    <2>10. ASSUME NEW m \in Messages, ReceiveLookup(m) \/ ReceiveAdmit(m) PROVE Answers'
      <3>1. UNCHANGED <<batchVars, answer, pc, steering, call>>
        BY <2>10 DEF ReceiveLookup, ReceiveAdmit, inputVars, runVars
      <3>2. \A i \in Steers : target'[i] = target[i]
        BY <2>10, RunnerAssumption DEF ReceiveLookup, ReceiveAdmit, TypeOK, CallsTyped, Inputs
      <3>3. QED
        BY <3>1, <3>2, AnswersStay DEF CallsGoOn, GoesDown
    <2>11. CASE CloseBegin \/ CloseReturn
      <3>1. UNCHANGED <<batchVars, answer, call, target, pc, steering>>
        BY <2>11 DEF CloseBegin, CloseReturn, inputVars, callVars, runVars
      <3>2. QED
        BY <3>1, AnswersStay DEF CallsGoOn, GoesDown
    <2>12. QED
      BY <2>1, <2>2, <2>3, <2>4, <2>5, <2>6, <2>7, <2>8, <2>9, <2>10, <2>11 DEF Next, RunStep
  <1>3. Answers => AcknowledgedIsRecorded
    BY DEF Answers, Takes, Recorded, Logged, AcknowledgedIsRecorded
  <1>4. QED
    BY <1>1, <1>2, <1>3, TypeCorrect, RefusedNeverRecordedHolds, SteersInOnePlaceHolds,
       NothingStrandedHolds, PTL DEF Spec, Placed

-----------------------------------------------------------------------------
(* Runs, messages and their sessions. *)

LiveAtHome == \A s \in Sessions : live[s] # NoRun => Home[live[s]] = s
OffersAtHome == \A m \in Messages : offer[m] = "looked" => Home[target[m]] = Home[m]
AtHome == LiveAtHome /\ OffersAtHome

(* What Receive does with the run it looked up. *)
LEMMA WhoOffers ==
  ASSUME TypeOK, [Next]_vars, NEW m \in Messages, offer'[m] = "looked"
  PROVE  \/ offer[m] = "looked" /\ target'[m] = target[m]
         \/ live[Home[m]] # NoRun /\ target'[m] = live[Home[m]]
  <1> USE DEF TypeOK, CallsTyped, Inputs
  <1>1. CASE UNCHANGED <<offer, target>>
    BY <1>1
  <1>2. ASSUME NEW r \in Runs,
               \/ \E k \in {"turn", "compact"} : Begin(r, k)
               \/ RunStep(r)
               \/ \E phase \in {"continue", "final"} : CheckpointEmpty(r, phase)
               \/ LoopReturn(r) \/ Stop(r) \/ ContextCancelled(r) \/ CloseStop(r)
        PROVE  UNCHANGED <<offer, target>>
    BY <1>2 DEF Begin, RunStep, Prepare, AppendPrompt, SaveRunning, AnnouncePrompt,
       OpenSteering, AnnounceStarted, CheckpointEmpty, CheckpointCommit, AnswerNext, FinishBatch,
       LoopReturn, CompactReturn, Finish, SaveEnd, AnnounceEnd, Release, Complete,
       Stop, ContextCancelled, CloseStop, callVars
  <1>3. ASSUME NEW i \in Steers, \/ \E r \in Runs : SteerLookup(i, r)
                                 \/ SteerAdmit(i) \/ SteerReturn(i) \/ SteerAbandon(i)
        PROVE  offer[m] = "looked" /\ target'[m] = target[m]
    <2>1. i # m
      BY RunnerAssumption
    <2>2. QED
      BY <1>3, <2>1 DEF SteerLookup, SteerAdmit, SteerReturn, SteerAbandon
  <1>4. ASSUME NEW n \in Messages, ReceiveLookup(n) \/ ReceiveAdmit(n)
        PROVE  \/ offer[m] = "looked" /\ target'[m] = target[m]
               \/ live[Home[m]] # NoRun /\ target'[m] = live[Home[m]]
    BY <1>4 DEF ReceiveLookup, ReceiveAdmit
  <1>5. CASE CloseBegin \/ CloseReturn \/ UNCHANGED vars
    BY <1>5 DEF CloseBegin, CloseReturn, vars, callVars
  <1>6. QED
    BY <1>1, <1>2, <1>3, <1>4, <1>5 DEF Next

-----------------------------------------------------------------------------
(* What a step does to what is held and what is recorded. *)

(* Nothing is recorded or held, and a session may be occupied by a run     *)
(* that begins.                                                            *)
Rests ==
  /\ UNCHANGED <<ledger, pending, admitted>>
  /\ \/ live' = live
     \/ \E r \in Runs : /\ pc[r] = "new" /\ live[Home[r]] = NoRun
                       /\ live' = [live EXCEPT ![Home[r]] = r]

(* A run lets go of what it held, and perhaps of its session. *)
Drops(r) ==
  /\ UNCHANGED <<ledger, admitted>>
  /\ pending' = [pending EXCEPT ![r] = <<>>]
  /\ \/ live' = live
     \/ Active(r) /\ live' = [live EXCEPT ![Home[r]] = NoRun]

(* A prompt or a summary is recorded. *)
Opens(r) ==
  /\ UNCHANGED <<pending, admitted, live>>
  /\ pc[r] \in {"append", "compacting"}
  /\ \E x \in {"prompt", "summary"} : ledger' = [ledger EXCEPT ![Home[r]] = Append(@, Entry(r, x))]

(* One more input is held. *)
Admits(r, x) ==
  /\ UNCHANGED <<ledger, live>>
  /\ steering[r] = "open"
  /\ pending' = [pending EXCEPT ![r] = Append(@, x)]
  /\ admitted' = [admitted EXCEPT ![r] = Append(@, x)]
  /\ IF x \in Steers THEN target[x] = r /\ call[x] = "looked" /\ call'[x] = "waiting"
                     ELSE Home[r] = Home[x] /\ x \notin Held(r) /\ ~InLedger(Home[x], x)

(* Every step does one of these. *)
LEMMA WhoHolds ==
  ASSUME TypeOK, AtHome, [Next]_vars
  PROVE  \/ Rests
         \/ \E r \in Runs : Drops(r) \/ Opens(r) \/ CheckpointCommit(r) \/ \E x \in Inputs : Admits(r, x)
  <1>1. ASSUME NEW r \in Runs,
               \/ Prepare(r) \/ SaveRunning(r) \/ AnnouncePrompt(r) \/ OpenSteering(r)
               \/ AnnounceStarted(r) \/ AnswerNext(r) \/ SaveEnd(r) \/ AnnounceEnd(r) \/ Complete(r)
               \/ \E phase \in {"continue", "final"} : CheckpointEmpty(r, phase)
               \/ LoopReturn(r) \/ ContextCancelled(r)
        PROVE  Rests
    BY <1>1 DEF Prepare, SaveRunning, AnnouncePrompt, OpenSteering, AnnounceStarted, AnswerNext,
       SaveEnd, AnnounceEnd, Complete, CheckpointEmpty, LoopReturn, ContextCancelled,
       inputVars, runVars, callVars, Rests
  <1>2. ASSUME NEW r \in Runs, \E k \in {"turn", "compact"} : Begin(r, k)
        PROVE  Rests
    BY <1>2 DEF Begin, MayBegin, inputVars, callVars, Rests
  <1>3. ASSUME NEW r \in Runs, AppendPrompt(r) \/ CompactReturn(r)
        PROVE  Rests \/ Opens(r)
    BY <1>3 DEF AppendPrompt, CompactReturn, inputVars, callVars, Rests, Opens
  <1>4. ASSUME NEW r \in Runs, Finish(r) \/ Stop(r) \/ CloseStop(r) \/ FinishBatch(r)
        PROVE  Rests \/ Drops(r)
    BY <1>4 DEF Finish, Stop, CloseStop, FinishBatch, FinishInputs, inputVars, runVars, callVars, Rests, Drops
  <1>5. ASSUME NEW r \in Runs, Release(r)
        PROVE  Drops(r)
    BY <1>5 DEF Release, FinishInputs, callVars, Drops, Active
  <1>6. ASSUME NEW i \in Steers, \/ \E r \in Runs : SteerLookup(i, r)
                                 \/ SteerReturn(i) \/ SteerAbandon(i)
        PROVE  Rests
    BY <1>6 DEF SteerLookup, SteerReturn, SteerAbandon, inputVars, runVars, Rests
  <1>7. ASSUME NEW i \in Steers, SteerAdmit(i)
        PROVE  Rests \/ \E r \in Runs : \E x \in Inputs : Admits(r, x)
    <2>1. target[i] \in Runs /\ call[i] = "looked" /\ i \in Inputs
      BY <1>7 DEF SteerAdmit, TypeOK, CallsTyped, Inputs
    <2>2. CASE Admitting(target[i])
      <3>1. Admits(target[i], i)
        BY <1>7, <2>1, <2>2 DEF SteerAdmit, Admitting, Admits, runVars, TypeOK, CallsTyped
      <3>2. QED
        BY <2>1, <3>1
    <2>3. CASE ~Admitting(target[i])
      BY <1>7, <2>3 DEF SteerAdmit, runVars, Rests
    <2>4. QED
      BY <2>2, <2>3
  <1>8. ASSUME NEW m \in Messages, ReceiveLookup(m)
        PROVE  Rests
    BY <1>8 DEF ReceiveLookup, inputVars, runVars, Rests
  <1>9. ASSUME NEW m \in Messages, ReceiveAdmit(m)
        PROVE  Rests \/ \E r \in Runs : \E x \in Inputs : Admits(r, x)
    <2>1. target[m] \in Runs /\ Home[target[m]] = Home[m] /\ m \in Inputs /\ m \notin Steers
      BY <1>9, RunnerAssumption DEF ReceiveAdmit, TypeOK, CallsTyped, Inputs, AtHome, OffersAtHome
    <2>2. Rests \/ Admits(target[m], m)
      BY <1>9, <2>1 DEF ReceiveAdmit, RecordedNow, Admitting, Admits, runVars, Rests
    <2>3. QED
      BY <2>1, <2>2
  <1>10. CASE CloseBegin \/ CloseReturn \/ UNCHANGED vars
    BY <1>10 DEF CloseBegin, CloseReturn, vars, inputVars, runVars, callVars, Rests
  <1>11. QED
    BY <1>1, <1>2, <1>3, <1>4, <1>5, <1>6, <1>7, <1>8, <1>9, <1>10 DEF Next, RunStep

LEMMA AtHomeKept == TypeOK /\ AtHome /\ [Next]_vars => AtHome'
  <1> SUFFICES ASSUME TypeOK, AtHome, [Next]_vars PROVE AtHome'
    OBVIOUS
  <1>1. LiveAtHome'
    <2>1. ASSUME NEW r \in Runs, live' = [live EXCEPT ![Home[r]] = r] PROVE LiveAtHome'
      BY <2>1, RunnerAssumption DEF AtHome, LiveAtHome, TypeOK, RunsTyped
    <2>2. ASSUME NEW r \in Runs, live' = [live EXCEPT ![Home[r]] = NoRun] PROVE LiveAtHome'
      BY <2>2, RunnerAssumption DEF AtHome, LiveAtHome, TypeOK, RunsTyped
    <2>3. ASSUME live' = live PROVE LiveAtHome'
      BY <2>3 DEF AtHome, LiveAtHome
    <2>4. ASSUME NEW r \in Runs, CheckpointCommit(r) PROVE live' = live
      BY <2>4 DEF CheckpointCommit
    <2>5. QED
      BY <2>1, <2>2, <2>3, <2>4, WhoHolds DEF Rests, Drops, Opens, Admits
  <1>2. OffersAtHome'
    <2>1. \A m \in Messages : Home[m] \in Sessions
      BY RunnerAssumption
    <2>2. QED
      BY <2>1, WhoOffers DEF AtHome, LiveAtHome, OffersAtHome
  <1>3. QED
    BY <1>1, <1>2 DEF AtHome

-----------------------------------------------------------------------------
(* Recorded at most once. *)

Distinct(q) == \A j, k \in DOMAIN q : q[j] = q[k] => j = k

(* RecordedOnce is not inductive: what is held must not be recorded yet,   *)
(* anywhere, nor be held twice.                                            *)
Fresh ==
  /\ RecordedOnce
  /\ \A r \in Runs : Distinct(pending[r])
  /\ \A r \in Runs : \A x \in Held(r) : \A s \in Sessions : ~InLedger(s, x)
  /\ \A m \in Messages : /\ \A r \in Runs : m \in Held(r) => Home[r] = Home[m]
                         /\ \A s \in Sessions : InLedger(s, m) => s = Home[m]

(* Who holds something is active, and so the only one of its session. *)
LEMMA HoldersAreActive ==
  ASSUME NothingStranded, NEW r \in Runs, steering[r] = "open" \/ Held(r) # {}
  PROVE  Active(r) /\ steering[r] = "open"
  <1>1. pending[r] # <<>> \/ steering[r] = "open"
    BY EmptyHasNoElements DEF Held
  <1>2. QED
    BY <1>1 DEF NothingStranded, Active

(* An input is held by one run. *)
LEMMA HeldByOne ==
  ASSUME NothingStranded, OneActiveRun, Placed, Fresh,
         NEW r \in Runs, NEW q \in Runs, NEW x \in Inputs, x \in Held(r), x \in Held(q)
  PROVE  q = r
  <1>1. CASE x \in Steers
    BY <1>1 DEF Placed, SteersInOnePlace
  <1>2. CASE x \in Messages
    <2>1. Home[r] = Home[x] /\ Home[q] = Home[x]
      BY <1>2 DEF Fresh
    <2>2. Active(r) /\ Active(q)
      BY HoldersAreActive
    <2>3. QED
      BY <2>1, <2>2 DEF OneActiveRun
  <1>3. QED
    BY <1>1, <1>2 DEF Inputs

LEMMA DropsKeepFresh ==
  ASSUME TypeOK, Fresh, UNCHANGED ledger,
         pending' = pending \/ \E r \in Runs : pending' = [pending EXCEPT ![r] = <<>>]
  PROVE  Fresh'
  <1>1. \A s \in Sessions : \A x : InLedger(s, x)' <=> InLedger(s, x)
    BY DEF InLedger
  <1>2. \A q \in Runs : pending'[q] \in {pending[q], <<>>}
    BY DEF TypeOK, InputsTyped
  <1>3. \A q \in Runs : Held(q)' \subseteq Held(q)
    BY <1>2, EmptyHasNoElements DEF Held
  <1>4. RecordedOnce'
    BY DEF Fresh, RecordedOnce
  <1>5. \A q \in Runs : Distinct(pending'[q])
    BY <1>2 DEF Fresh, Distinct
  <1>6. QED
    BY <1>1, <1>3, <1>4, <1>5 DEF Fresh

LEMMA OpensKeepFresh ==
  ASSUME TypeOK, Fresh, NEW r \in Runs, Opens(r)
  PROVE  Fresh'
  <1>1. PICK x \in {"prompt", "summary"} : ledger' = [ledger EXCEPT ![Home[r]] = Append(@, Entry(r, x))]
    BY DEF Opens
  <1>2. Home[r] \in Sessions /\ Entry(r, x) \in Entries /\ Entry(r, x).item = x /\ x \notin Inputs
    BY RunnerAssumption DEF Entry, Entries
  <1>3. ASSUME NEW s \in Sessions, NEW y \in Inputs, InLedger(s, y)' PROVE InLedger(s, y)
    BY <1>1, <1>2, <1>3, AppendRecordsOne
  <1>4. \A q \in Runs : Held(q)' = Held(q)
    BY DEF Opens, Held
  <1>5. ASSUME NEW s \in Sessions, NEW j \in DOMAIN ledger'[s], ledger'[s][j].item \in Inputs
        PROVE  j \in DOMAIN ledger[s] /\ ledger[s][j] = ledger'[s][j]
    <2>1. ledger[s] \in Seq(Entries)
      BY DEF TypeOK
    <2>2. CASE s # Home[r]
      BY <1>1, <1>5, <2>2 DEF TypeOK
    <2>3. CASE s = Home[r]
      <3>1. ledger'[s] = Append(ledger[s], Entry(r, x))
        BY <1>1, <2>3 DEF TypeOK
      <3>2. j # Len(ledger[s]) + 1
        BY <1>2, <1>5, <2>1, <3>1
      <3>3. QED
        BY <1>5, <2>1, <3>1, <3>2
    <2>4. QED
      BY <2>2, <2>3
  <1>6. RecordedOnce'
    BY <1>5 DEF Fresh, RecordedOnce
  <1>7. \A q \in Runs : \A y \in Held(q) : y \in Inputs
    BY DEF Held, ToSet, TypeOK, InputsTyped
  <1>8. \A q \in Runs : Distinct(pending'[q])
    BY DEF Opens, Fresh
  <1>9. QED
    BY <1>3, <1>4, <1>6, <1>7, <1>8 DEF Fresh, Inputs

LEMMA AdmitsKeepFresh ==
  ASSUME TypeOK, Placed, OneActiveRun, NothingStranded, Fresh,
         NEW r \in Runs, NEW x \in Inputs, Admits(r, x)
  PROVE  Fresh'
  <1>1. \A s \in Sessions : \A y : InLedger(s, y)' <=> InLedger(s, y)
    BY DEF Admits, InLedger
  <1>2. x \notin Held(r) /\ \A s \in Sessions : ~InLedger(s, x)
    <2>1. CASE x \in Steers
      BY <2>1 DEF Admits, Placed, SteersInOnePlace, Nowhere
    <2>2. CASE x \notin Steers
      BY <2>2 DEF Admits, Fresh, Inputs
    <2>3. QED
      BY <2>1, <2>2
  <1>3. pending \in [Runs -> Seq(Inputs)]
    BY DEF TypeOK, InputsTyped
  <1>4. pending'[r] = Append(pending[r], x) /\ \A q \in Runs \ {r} : pending'[q] = pending[q]
    BY <1>3 DEF Admits
  <1>5. Held(r)' = Held(r) \cup {x} /\ \A q \in Runs \ {r} : Held(q)' = Held(q)
    <2>1. ToSet(Append(pending[r], x)) = ToSet(pending[r]) \cup {x}
      BY <1>3, AppendAddsOne
    <2>2. QED
      BY <1>4, <2>1 DEF Held
  <1>6. ASSUME NEW q \in Runs PROVE Distinct(pending'[q])
    <2>1. CASE q # r
      BY <1>4, <2>1 DEF Fresh
    <2>2. CASE q = r
      <3>1. \A j \in DOMAIN pending[r] : pending[r][j] # x
        BY <1>2 DEF Held, ToSet
      <3>2. Distinct(pending[r]) /\ pending[r] \in Seq(Inputs)
        BY <1>3 DEF Fresh
      <3>3. Distinct(Append(pending[r], x))
        BY <3>1, <3>2 DEF Distinct
      <3>4. QED
        BY <1>4, <2>2, <3>3
    <2>3. QED
      BY <2>1, <2>2
  <1>7. RecordedOnce'
    BY DEF Admits, Fresh, RecordedOnce
  <1>8. \A q \in Runs : \A y \in Held(q)' : \A s \in Sessions : ~InLedger(s, y)
    BY <1>2, <1>5 DEF Fresh
  <1>9. ASSUME NEW m \in Messages, NEW q \in Runs, m \in Held(q)' PROVE Home[q] = Home[m]
    <2>1. m \notin Steers
      BY RunnerAssumption
    <2>2. QED
      BY <1>5, <1>9, <2>1 DEF Fresh, Admits
  <1>10. \A m \in Messages : \A s \in Sessions : InLedger(s, m) => s = Home[m]
    BY DEF Fresh
  <1>11. QED
    BY <1>1, <1>6, <1>7, <1>8, <1>9, <1>10 DEF Fresh

LEMMA CommitKeepsFresh ==
  ASSUME TypeOK, TypeOK', Placed, OneActiveRun, NothingStranded, Fresh,
         NEW r \in Runs, CheckpointCommit(r)
  PROVE  Fresh'
  <1>1. /\ pending \in [Runs -> Seq(Inputs)] /\ ledger \in [Sessions -> Seq(Entries)]
        /\ ledger' \in [Sessions -> Seq(Entries)] /\ Home[r] \in Sessions
    BY RunnerAssumption DEF TypeOK, InputsTyped
  <1>2. /\ pending'[r] = <<>> /\ \A q \in Runs \ {r} : pending'[q] = pending[q]
    BY <1>1 DEF CheckpointCommit
  <1>3. Held(r)' = {} /\ \A q \in Runs \ {r} : Held(q)' = Held(q)
    BY <1>2, EmptyHasNoElements DEF Held
  <1>4. \A q \in Runs : \A y \in Held(q) : y \in Inputs
    BY <1>1 DEF Held, ToSet
  <1>5. ASSUME NEW q \in Runs, NEW y \in Held(q)', NEW s \in Sessions PROVE ~InLedger(s, y)'
    <2>1. q # r /\ y \in Held(q) /\ y \in Inputs
      BY <1>3, <1>4
    <2>2. y \notin Held(r)
      BY <2>1, HeldByOne
    <2>3. QED
      BY <2>1, <2>2, CommitRecordsHeld DEF Fresh
  <1>6. ASSUME NEW m \in Messages, NEW s \in Sessions, InLedger(s, m)' PROVE s = Home[m]
    <2>1. CASE InLedger(s, m)
      BY <2>1 DEF Fresh
    <2>2. CASE ~InLedger(s, m)
      <3>1. m \in Held(r) /\ Home[r] = Home[m]
        BY <1>6, <2>2, CommitRecordsHeld DEF Fresh
      <3>2. CASE s # Home[r]
        <4>1. ledger'[s] = ledger[s]
          BY <3>2, CommitExtends DEF Extends
        <4>2. QED
          BY <1>6, <2>2, <4>1 DEF InLedger
      <3>3. QED
        BY <3>1, <3>2
    <2>3. QED
      BY <2>1, <2>2
  <1>7. ASSUME NEW s \in Sessions, NEW j \in DOMAIN ledger'[s], NEW k \in DOMAIN ledger'[s],
               ledger'[s][j].item = ledger'[s][k].item, ledger'[s][j].item \in Inputs
        PROVE  j = k
    <2>1. CASE s # Home[r]
      <3>1. ledger'[s] = ledger[s]
        BY <2>1, CommitExtends DEF Extends
      <3>2. QED
        BY <1>7, <3>1 DEF Fresh, RecordedOnce
    <2>2. CASE s = Home[r]
      <3> DEFINE L == Len(ledger[s])
                 N == good'[r]
      <3>1. /\ L \in Nat /\ N \in Nat /\ N <= Len(pending[r]) /\ Len(ledger'[s]) = L + N
            /\ DOMAIN ledger[s] = 1..L /\ DOMAIN ledger'[s] = 1..(L + N)
            /\ DOMAIN pending[r] = 1..Len(pending[r]) /\ Len(pending[r]) \in Nat
        BY <1>1, <2>2, CommitExtends
      <3>2. \A i \in 1..L : ledger'[s][i] = ledger[s][i]
        BY <2>2, CommitExtends DEF Extends
      <3>3. \A i \in 1..N : ledger'[s][L + i].item = pending[r][i]
        <4>1. \A i \in 1..N : ledger'[s][L + i] = Entry(r, pending[r][i])
          BY <2>2, CommitExtends
        <4>2. \A i : Entry(r, pending[r][i]).item = pending[r][i]
          BY DEF Entry
        <4>3. QED
          BY <4>1, <4>2
      <3>4. \A i \in 1..N : pending[r][i] \in Held(r)
        <4>1. \A i \in 1..N : i \in DOMAIN pending[r]
          BY <3>1
        <4>2. QED
          BY <4>1 DEF Held, ToSet
      <3>5. \A i \in 1..N : \A h \in 1..L : ledger[s][h].item # pending[r][i]
        BY <3>1, <3>4 DEF Fresh, InLedger
      <3>6. \A g, i \in 1..N : pending[r][g] = pending[r][i] => g = i
        BY <3>1 DEF Fresh, Distinct
      <3>7. \A g, i \in 1..L : ledger[s][g].item = ledger[s][i].item /\ ledger[s][g].item \in Inputs => g = i
        BY <3>1 DEF Fresh, RecordedOnce
      <3> HIDE DEF L, N
      <3>8. \A i \in 1..(L + N) : i \in 1..L \/ (i - L \in 1..N /\ i = L + (i - L))
        BY <3>1
      <3>9. CASE j \in 1..L /\ k \in 1..L
        BY <1>7, <3>2, <3>7, <3>9
      <3>10. CASE j \in 1..L /\ k \notin 1..L
        <4>1. k - L \in 1..N /\ k = L + (k - L)
          BY <1>7, <3>1, <3>8, <3>10
        <4>2. QED
          BY <1>7, <3>2, <3>3, <3>5, <3>10, <4>1
      <3>11. CASE j \notin 1..L /\ k \in 1..L
        <4>1. j - L \in 1..N /\ j = L + (j - L)
          BY <1>7, <3>1, <3>8, <3>11
        <4>2. QED
          BY <1>7, <3>2, <3>3, <3>5, <3>11, <4>1
      <3>12. CASE j \notin 1..L /\ k \notin 1..L
        <4>1. j - L \in 1..N /\ j = L + (j - L) /\ k - L \in 1..N /\ k = L + (k - L)
          BY <1>7, <3>1, <3>8, <3>12
        <4>2. j - L = k - L
          BY <1>7, <3>3, <3>6, <4>1
        <4>3. QED
          BY <4>1, <4>2
      <3>13. QED
        BY <3>9, <3>10, <3>11, <3>12
    <2>3. QED
      BY <2>1, <2>2
  <1>8. RecordedOnce'
    BY <1>7 DEF RecordedOnce
  <1>9. \A q \in Runs : Distinct(pending'[q])
    BY <1>2 DEF Fresh, Distinct
  <1>10. \A m \in Messages : \A q \in Runs : m \in Held(q)' => Home[q] = Home[m]
    BY <1>3 DEF Fresh
  <1>11. QED
    BY <1>5, <1>6, <1>8, <1>9, <1>10 DEF Fresh

(* What is held is new, in every reachable state. *)
LEMMA FreshHolds == Spec => [](AtHome /\ Fresh)
  <1>1. Init => AtHome /\ Fresh
    BY EmptyHasNoElements DEF Init, AtHome, LiveAtHome, OffersAtHome, Fresh, RecordedOnce, Distinct, Held, InLedger
  <1>2. TypeOK /\ Placed /\ OneActiveRun /\ NothingStranded /\ AtHome /\ Fresh /\ [Next]_vars => Fresh'
    BY TypeKept, WhoHolds, DropsKeepFresh, OpensKeepFresh, AdmitsKeepFresh, CommitKeepsFresh DEF Rests, Drops
  <1>3. QED
    BY <1>1, <1>2, AtHomeKept, TypeCorrect, RefusedNeverRecordedHolds, SteersInOnePlaceHolds,
       OneActiveRunHolds, NothingStrandedHolds, PTL DEF Spec, Placed

(* Whatever is offered again, by a service that cannot know or by a caller *)
(* that was refused, is recorded once (steer.go:142-206,                   *)
(* collaboration.go:24-58).                                                *)
THEOREM RecordedOnceHolds == Spec => []RecordedOnce
  <1>1. Fresh => RecordedOnce
    BY DEF Fresh
  <1>2. QED
    BY <1>1, FreshHolds, PTL

-----------------------------------------------------------------------------
(* Answered at most once. *)

InBatch(r) == ToSet(batch[r])

(* A Steer waits for its answer in what its run holds or in the batch of a *)
(* checkpoint, in one place of it and not in both.                         *)
Waits ==
  /\ \A r \in Runs : Distinct(batch[r])
  /\ \A i \in Steers :
       /\ call[i] \in {"idle", "looked"} => answer[i] = "none"
       /\ \A r \in Runs : i \in Held(r) =>
            answer[i] = "none" /\ \A q \in Runs : i \notin InBatch(q)
       /\ \A r \in Runs : i \in InBatch(r) =>
            answer[i] = "none" /\ target[i] = r /\ call[i] \notin {"idle", "looked"}

(* Callers that have been admitted are past their lookup, and keep their run. *)
CallersGoOn ==
  \A i \in Steers : /\ call'[i] \in {"idle", "looked"} => call[i] \in {"idle", "looked"}
                    /\ call[i] \notin {"idle", "looked"} => target'[i] = target[i]

AnsweredStay == \A i \in Steers : answer[i] # "none" => answer'[i] = answer[i]

(* The head of a sequence without repetition is not in its tail. *)
LEMMA HeadIsNotInTail ==
  ASSUME NEW S, NEW s \in Seq(S), s # <<>>, Distinct(s)
  PROVE  /\ Head(s) \in ToSet(s) /\ Head(s) \notin ToSet(Tail(s))
         /\ ToSet(Tail(s)) \subseteq ToSet(s) /\ Distinct(Tail(s))
  <1>1. 1 \in DOMAIN s /\ Head(s) = s[1]
    OBVIOUS
  <1>2. ASSUME NEW k \in DOMAIN Tail(s)
        PROVE  k + 1 \in DOMAIN s /\ k + 1 # 1 /\ Tail(s)[k] = s[k + 1] /\ k \in Nat
    OBVIOUS
  <1>3. Head(s) \notin ToSet(Tail(s))
    BY <1>1, <1>2 DEF ToSet, Distinct
  <1>4. ToSet(Tail(s)) \subseteq ToSet(s)
    BY <1>2 DEF ToSet
  <1>5. Distinct(Tail(s))
    <2>1. ASSUME NEW j \in DOMAIN Tail(s), NEW k \in DOMAIN Tail(s), Tail(s)[j] = Tail(s)[k]
          PROVE  j = k
      <3>1. j + 1 = k + 1
        BY <1>2, <2>1 DEF Distinct
      <3>2. QED
        BY <1>2, <3>1
    <2>2. QED
      BY <2>1 DEF Distinct
  <1>6. QED
    BY <1>1, <1>3, <1>4, <1>5 DEF ToSet

(* A step that forms no batch, answers nobody and holds nothing more. *)
LEMMA WaitsStay ==
  ASSUME Waits, UNCHANGED <<batch, answer>>, CallersGoOn,
         \A r \in Runs : Held(r)' \subseteq Held(r)
  PROVE  Waits' /\ AnsweredStay
  BY DEF Waits, CallersGoOn, AnsweredStay, InBatch

LEMMA RefusalsKeepWaits ==
  ASSUME TypeOK, Placed, Waits, NEW r \in Runs, FinishInputs(r), UNCHANGED <<batch, call, target>>
  PROVE  Waits' /\ AnsweredStay
  <1>1. Held(r)' = {} /\ \A q \in Runs \ {r} : Held(q)' = Held(q)
    BY FinishInputsEffect, EmptyHasNoElements DEF Held
  <1>2. \A i \in Steers : answer'[i] = IF i \in Held(r) THEN "changed" ELSE answer[i]
    BY DEF FinishInputs
  <1>3. \A q \in Runs : InBatch(q)' = InBatch(q) /\ Distinct(batch'[q])
    BY DEF InBatch, Waits
  <1>4. ASSUME NEW i \in Steers, i \in Held(r)
        PROVE  /\ call[i] \notin {"idle", "looked"} /\ answer[i] = "none"
               /\ \A q \in Runs : i \notin InBatch(q)
               /\ \A q \in Runs : i \notin Held(q)'
    BY <1>1, <1>4 DEF Placed, SteersInOnePlace, Waits
  <1>5. QED
    BY <1>1, <1>2, <1>3, <1>4 DEF Waits, AnsweredStay

LEMMA CommitKeepsWaits ==
  ASSUME TypeOK, Placed, Fresh, Waits, NEW r \in Runs, CheckpointCommit(r)
  PROVE  Waits' /\ AnsweredStay
  <1>1. /\ batch'[r] = pending[r] /\ pending'[r] = <<>> /\ UNCHANGED <<call, target, answer>>
        /\ \A q \in Runs \ {r} : batch'[q] = batch[q] /\ pending'[q] = pending[q]
    BY DEF CheckpointCommit, callVars, TypeOK, InputsTyped, BatchesTyped
  <1>2. /\ InBatch(r)' = Held(r) /\ Held(r)' = {}
        /\ \A q \in Runs \ {r} : InBatch(q)' = InBatch(q) /\ Held(q)' = Held(q)
    BY <1>1, EmptyHasNoElements DEF InBatch, Held
  <1>3. \A q \in Runs : Distinct(batch'[q])
    BY <1>1 DEF Waits, Fresh
  <1>4. \A i \in Steers : \A q \in Runs : i \in Held(q) => call[i] \notin {"idle", "looked"} /\ target[i] = q
    BY DEF Placed, SteersInOnePlace
  <1>5. QED
    BY <1>1, <1>2, <1>3, <1>4 DEF Waits, AnsweredStay

LEMMA AnswerKeepsWaits ==
  ASSUME TypeOK, Waits, NEW r \in Runs, AnswerNext(r)
  PROVE  Waits' /\ AnsweredStay
  <1>1. /\ batch[r] # <<>> /\ batch[r] \in Seq(Inputs) /\ Distinct(batch[r])
        /\ batch'[r] = Tail(batch[r]) /\ UNCHANGED <<call, target, pending>>
        /\ \A q \in Runs \ {r} : batch'[q] = batch[q]
    BY DEF AnswerNext, callVars, TypeOK, BatchesTyped, Waits
  <1>2. \A i \in Steers : i # Head(batch[r]) => answer'[i] = answer[i]
    BY DEF AnswerNext, AnswerHead
  <1>3. /\ Head(batch[r]) \in InBatch(r) /\ Head(batch[r]) \notin InBatch(r)'
        /\ InBatch(r)' \subseteq InBatch(r) /\ Distinct(batch'[r])
    BY <1>1, HeadIsNotInTail DEF InBatch
  <1>4. \A q \in Runs \ {r} : InBatch(q)' = InBatch(q) /\ Distinct(batch'[q])
    BY <1>1 DEF InBatch, Waits
  <1>5. \A q \in Runs : Held(q)' = Held(q)
    BY <1>1 DEF Held
  <1>6. ASSUME NEW i \in Steers, i = Head(batch[r])
        PROVE  /\ answer[i] = "none" /\ call[i] \notin {"idle", "looked"}
               /\ \A q \in Runs : i \notin Held(q)
               /\ \A q \in Runs : i \notin InBatch(q)'
    BY <1>3, <1>4, <1>6 DEF Waits
  <1>7. QED
    BY <1>1, <1>2, <1>3, <1>4, <1>5, <1>6 DEF Waits, AnsweredStay

LEMMA AdmitsKeepWaits ==
  ASSUME TypeOK, Waits, NEW r \in Runs, NEW x \in Inputs, Admits(r, x),
         UNCHANGED <<batch, answer, target>>,
         \A i \in Steers \ {x} : call'[i] = call[i], x \in Steers => call'[x] = "waiting"
  PROVE  Waits' /\ AnsweredStay
  <1>1. Held(r)' = Held(r) \cup {x} /\ \A q \in Runs \ {r} : Held(q)' = Held(q)
    <2>1. pending \in [Runs -> Seq(Inputs)]
      BY DEF TypeOK, InputsTyped
    <2>2. ToSet(Append(pending[r], x)) = ToSet(pending[r]) \cup {x}
      BY <2>1, AppendAddsOne
    <2>3. QED
      BY <2>1, <2>2 DEF Admits, Held
  <1>2. x \in Steers => call[x] = "looked" /\ answer[x] = "none" /\ \A q \in Runs : x \notin InBatch(q)
    BY DEF Admits, Waits
  <1>3. \A q \in Runs : InBatch(q)' = InBatch(q) /\ Distinct(batch'[q])
    BY DEF InBatch, Waits
  <1>4. QED
    BY <1>1, <1>2, <1>3 DEF Waits, AnsweredStay

LEMMA WaitsKept == TypeOK /\ Placed /\ AtHome /\ Fresh /\ Waits /\ [Next]_vars => Waits' /\ AnsweredStay
  <1> SUFFICES ASSUME TypeOK, Placed, AtHome, Fresh, Waits, [Next]_vars PROVE Waits' /\ AnsweredStay
    OBVIOUS
  <1>1. CASE UNCHANGED vars
    <2>1. UNCHANGED <<batch, answer, call, target, pending>>
      BY <1>1 DEF vars, batchVars, inputVars, callVars
    <2>2. QED
      BY <2>1, WaitsStay DEF CallersGoOn, Held
  <1>2. ASSUME NEW r \in Runs,
               \/ \E k \in {"turn", "compact"} : Begin(r, k)
               \/ Prepare(r) \/ AppendPrompt(r) \/ SaveRunning(r) \/ AnnouncePrompt(r) \/ OpenSteering(r)
               \/ AnnounceStarted(r) \/ CompactReturn(r) \/ SaveEnd(r) \/ AnnounceEnd(r) \/ Complete(r)
               \/ \E phase \in {"continue", "final"} : CheckpointEmpty(r, phase)
               \/ LoopReturn(r) \/ ContextCancelled(r)
        PROVE  Waits' /\ AnsweredStay
    <2>1. UNCHANGED <<batch, answer, call, target, pending>>
      BY <1>2 DEF Begin, Prepare, AppendPrompt, SaveRunning, AnnouncePrompt, OpenSteering, AnnounceStarted,
         CompactReturn, SaveEnd, AnnounceEnd, Complete, CheckpointEmpty, LoopReturn, ContextCancelled,
         batchVars, inputVars, callVars
    <2>2. QED
      BY <2>1, WaitsStay DEF CallersGoOn, Held
  <1>3. ASSUME NEW r \in Runs, CheckpointCommit(r) PROVE Waits' /\ AnsweredStay
    BY <1>3, CommitKeepsWaits
  <1>4. ASSUME NEW r \in Runs, AnswerNext(r) PROVE Waits' /\ AnsweredStay
    BY <1>4, AnswerKeepsWaits
  <1>5. ASSUME NEW r \in Runs, Finish(r) \/ Release(r) \/ Stop(r) \/ CloseStop(r) \/ FinishBatch(r)
        PROVE  Waits' /\ AnsweredStay
    <2>1. /\ UNCHANGED <<batch, call, target>>
          /\ FinishInputs(r) \/ UNCHANGED <<pending, answer>>
      BY <1>5 DEF Finish, Release, Stop, CloseStop, FinishBatch, inputVars, batchVars, callVars
    <2>2. CASE FinishInputs(r)
      BY <2>1, <2>2, RefusalsKeepWaits
    <2>3. CASE UNCHANGED <<pending, answer>>
      BY <2>1, <2>3, WaitsStay DEF CallersGoOn, Held
    <2>4. QED
      BY <2>1, <2>2, <2>3
  <1>6. ASSUME NEW i \in Steers, \/ \E r \in Runs : SteerLookup(i, r)
                                 \/ SteerReturn(i) \/ SteerAbandon(i)
        PROVE  Waits' /\ AnsweredStay
    <2>1. UNCHANGED <<batch, answer, pending>>
      BY <1>6 DEF SteerLookup, SteerReturn, SteerAbandon, inputVars, batchVars
    <2>2. CallersGoOn
      BY <1>6 DEF SteerLookup, SteerReturn, SteerAbandon, CallersGoOn, TypeOK, CallsTyped, InputsTyped, Inputs
    <2>3. QED
      BY <2>1, <2>2, WaitsStay DEF Held
  <1>7. ASSUME NEW i \in Steers, SteerAdmit(i) PROVE Waits' /\ AnsweredStay
    <2>1. /\ target[i] \in Runs /\ call[i] = "looked" /\ i \in Inputs
          /\ UNCHANGED <<batch, answer, target, ledger>>
      BY <1>7 DEF SteerAdmit, TypeOK, CallsTyped, Inputs, batchVars
    <2>2. CASE Admitting(target[i])
      <3>1. Admits(target[i], i) /\ call' = [call EXCEPT ![i] = "waiting"]
        BY <1>7, <2>1, <2>2 DEF SteerAdmit, Admitting, Admits, runVars, TypeOK, CallsTyped
      <3>2. call'[i] = "waiting" /\ \A j \in Steers \ {i} : call'[j] = call[j]
        BY <3>1 DEF TypeOK, CallsTyped
      <3>3. QED
        BY <2>1, <3>1, <3>2, AdmitsKeepWaits
    <2>3. CASE ~Admitting(target[i])
      <3>1. UNCHANGED pending /\ CallersGoOn
        BY <1>7, <2>3 DEF SteerAdmit, CallersGoOn, TypeOK, CallsTyped
      <3>2. QED
        BY <2>1, <3>1, WaitsStay DEF Held
    <2>4. QED
      BY <2>2, <2>3
  <1>8. ASSUME NEW m \in Messages, ReceiveLookup(m) PROVE Waits' /\ AnsweredStay
    <2>1. UNCHANGED <<batch, answer, pending, call>> /\ \A i \in Steers : target'[i] = target[i]
      BY <1>8, RunnerAssumption DEF ReceiveLookup, inputVars, batchVars, TypeOK, CallsTyped, Inputs
    <2>2. QED
      BY <2>1, WaitsStay DEF CallersGoOn, Held
  <1>9. ASSUME NEW m \in Messages, ReceiveAdmit(m) PROVE Waits' /\ AnsweredStay
    <2>1. /\ target[m] \in Runs /\ Home[target[m]] = Home[m] /\ m \in Inputs /\ m \notin Steers
          /\ UNCHANGED <<batch, answer, target, call>>
      BY <1>9, RunnerAssumption DEF ReceiveAdmit, TypeOK, CallsTyped, Inputs, AtHome, OffersAtHome, batchVars
    <2>2. UNCHANGED pending \/ Admits(target[m], m)
      BY <1>9, <2>1 DEF ReceiveAdmit, RecordedNow, Admitting, Admits, runVars
    <2>3. CASE UNCHANGED pending
      BY <2>1, <2>3, WaitsStay DEF CallersGoOn, Held
    <2>4. CASE Admits(target[m], m)
      BY <2>1, <2>4, AdmitsKeepWaits
    <2>5. QED
      BY <2>2, <2>3, <2>4
  <1>10. CASE CloseBegin \/ CloseReturn
    <2>1. UNCHANGED <<batch, answer, call, target, pending>>
      BY <1>10 DEF CloseBegin, CloseReturn, batchVars, inputVars, callVars
    <2>2. QED
      BY <2>1, WaitsStay DEF CallersGoOn, Held
  <1>11. QED
    BY <1>1, <1>2, <1>3, <1>4, <1>5, <1>6, <1>7, <1>8, <1>9, <1>10 DEF Next, RunStep

(* The result channel of a Steer has room for one answer; a second one     *)
(* would stop the goroutine of the run (steer.go:287-333).                 *)
THEOREM AnsweredOnceHolds == Spec => AnsweredOnce
  <1>1. Init => Waits
    BY EmptyHasNoElements DEF Init, Waits, Distinct, Held, InBatch
  <1>2. AnsweredStay => [\A i \in Steers : answer[i] # "none" => answer'[i] = answer[i]]_vars
    BY DEF AnsweredStay
  <1>3. QED
    BY <1>1, <1>2, WaitsKept, FreshHolds, TypeCorrect, RefusedNeverRecordedHolds, SteersInOnePlaceHolds,
       PTL DEF Spec, AnsweredOnce, Placed

-----------------------------------------------------------------------------
(* The Runner implements InputLog. *)

(* The variables of InputLog, as KeepsPromise instantiates them. *)
Log == [s \in Sessions |-> [k \in DOMAIN ledger[s] |-> ledger[s][k].item]]
Queue == [s \in Sessions |-> IF live[s] = NoRun THEN <<>> ELSE pending[live[s]]]
Fates == [i \in Inputs |-> Fate(i)]

(* A refusal is told by what was once admitted; and the summary of a       *)
(* compaction overtakes nothing because no compaction opens its admission. *)
Refusable ==
  /\ \A r \in Runs : Held(r) \subseteq ToSet(admitted[r])
  /\ \A i \in Steers : call[i] \in {"idle", "looked"} => \A r \in Runs : i \notin ToSet(admitted[r])
Closed ==
  \A r \in Runs : /\ kind[r] = "compact" => steering[r] # "open"
                  /\ pc[r] \in {"announce", "open"} => kind[r] = "turn"
                  /\ pc[r] = "compacting" => kind[r] = "compact"

LEMMA CallersAlwaysGoOn == TypeOK /\ [Next]_vars => CallersGoOn
  <1> SUFFICES ASSUME TypeOK, [Next]_vars PROVE CallersGoOn
    OBVIOUS
  <1>1. ASSUME NEW r \in Runs,
               \/ \E k \in {"turn", "compact"} : Begin(r, k)
               \/ RunStep(r)
               \/ \E phase \in {"continue", "final"} : CheckpointEmpty(r, phase)
               \/ LoopReturn(r) \/ Stop(r) \/ ContextCancelled(r) \/ CloseStop(r)
        PROVE  UNCHANGED <<call, target>>
    BY <1>1 DEF Begin, RunStep, Prepare, AppendPrompt, SaveRunning, AnnouncePrompt,
       OpenSteering, AnnounceStarted, CheckpointEmpty, CheckpointCommit, AnswerNext, FinishBatch,
       LoopReturn, CompactReturn, Finish, SaveEnd, AnnounceEnd, Release, Complete,
       Stop, ContextCancelled, CloseStop, callVars
  <1>2. ASSUME NEW i \in Steers, \/ \E r \in Runs : SteerLookup(i, r)
                                 \/ SteerAdmit(i) \/ SteerReturn(i) \/ SteerAbandon(i)
        PROVE  CallersGoOn
    BY <1>2 DEF SteerLookup, SteerAdmit, SteerReturn, SteerAbandon, CallersGoOn,
       TypeOK, CallsTyped, InputsTyped, Inputs
  <1>3. ASSUME NEW m \in Messages, ReceiveLookup(m) \/ ReceiveAdmit(m)
        PROVE  UNCHANGED call /\ \A i \in Steers : target'[i] = target[i]
    BY <1>3, RunnerAssumption DEF ReceiveLookup, ReceiveAdmit, TypeOK, CallsTyped, Inputs
  <1>4. CASE CloseBegin \/ CloseReturn \/ UNCHANGED vars
    BY <1>4 DEF CloseBegin, CloseReturn, vars, callVars, CallersGoOn
  <1>5. QED
    BY <1>1, <1>2, <1>3, <1>4 DEF Next, CallersGoOn

LEMMA RefusableKept == TypeOK /\ AtHome /\ Refusable /\ [Next]_vars => Refusable'
  <1> SUFFICES ASSUME TypeOK, AtHome, Refusable, [Next]_vars PROVE Refusable'
    OBVIOUS
  <1>1. CallersGoOn
    BY CallersAlwaysGoOn
  <1>2. pending \in [Runs -> Seq(Inputs)] /\ admitted \in [Runs -> Seq(Inputs)]
    BY DEF TypeOK, InputsTyped, CallsTyped
  <1>3. ASSUME UNCHANGED admitted, \A q \in Runs : Held(q)' \subseteq Held(q)
        PROVE  Refusable'
    BY <1>1, <1>3 DEF Refusable, CallersGoOn
  <1>4. CASE Rests
    BY <1>3, <1>4 DEF Rests, Held
  <1>5. ASSUME NEW r \in Runs, Drops(r) \/ Opens(r) \/ CheckpointCommit(r) PROVE Refusable'
    <2>1. UNCHANGED admitted /\ \A q \in Runs : pending'[q] \in {pending[q], <<>>}
      BY <1>2, <1>5 DEF Drops, Opens, CheckpointCommit, callVars
    <2>2. \A q \in Runs : Held(q)' \subseteq Held(q)
      BY <2>1, EmptyHasNoElements DEF Held
    <2>3. QED
      BY <1>3, <2>1, <2>2
  <1>6. ASSUME NEW r \in Runs, NEW x \in Inputs, Admits(r, x) PROVE Refusable'
    <2>1. /\ ToSet(Append(pending[r], x)) = ToSet(pending[r]) \cup {x}
          /\ ToSet(Append(admitted[r], x)) = ToSet(admitted[r]) \cup {x}
      BY <1>2, AppendAddsOne
    <2>2. /\ Held(r)' = Held(r) \cup {x} /\ \A q \in Runs \ {r} : Held(q)' = Held(q)
          /\ ToSet(admitted'[r]) = ToSet(admitted[r]) \cup {x}
          /\ \A q \in Runs \ {r} : admitted'[q] = admitted[q]
      BY <1>2, <1>6, <2>1 DEF Admits, Held
    <2>3. x \in Steers => call'[x] = "waiting"
      BY <1>6 DEF Admits
    <2>4. QED
      BY <1>1, <2>2, <2>3 DEF Refusable, CallersGoOn
  <1>7. QED
    BY <1>4, <1>5, <1>6, WhoHolds

LEMMA ClosedKept == TypeOK /\ NothingStranded /\ Closed /\ [Next]_vars => Closed'
  <1> SUFFICES ASSUME TypeOK, NothingStranded, Closed, [Next]_vars PROVE Closed'
    OBVIOUS
  <1> USE DEF TypeOK, RunsTyped, InputsTyped, Closed, Goto, GotoWith
  <1>1. ASSUME NEW r \in Runs, NEW k \in {"turn", "compact"}, Begin(r, k) PROVE Closed'
    BY <1>1 DEF Begin, NothingStranded, inputVars
  <1>2. ASSUME NEW r \in Runs, Prepare(r) \/ AppendPrompt(r) \/ SaveRunning(r) \/ AnnouncePrompt(r) PROVE Closed'
    BY <1>2 DEF Prepare, AppendPrompt, SaveRunning, AnnouncePrompt, inputVars
  <1>3. ASSUME NEW r \in Runs, OpenSteering(r) PROVE Closed'
    BY <1>3 DEF OpenSteering
  <1>4. ASSUME NEW r \in Runs, AnnounceStarted(r) PROVE Closed'
    BY <1>4 DEF AnnounceStarted, inputVars
  <1>5. ASSUME NEW r \in Runs, \/ CheckpointCommit(r) \/ LoopReturn(r) \/ CompactReturn(r) \/ SaveEnd(r)
                               \/ AnnounceEnd(r) \/ Complete(r)
        PROVE  Closed'
    BY <1>5 DEF CheckpointCommit, LoopReturn, CompactReturn, SaveEnd, AnnounceEnd, Complete, inputVars
  <1>6. ASSUME NEW r \in Runs, \E phase \in {"continue", "final"} : CheckpointEmpty(r, phase) PROVE Closed'
    BY <1>6 DEF CheckpointEmpty
  <1>7. ASSUME NEW r \in Runs, AnswerNext(r) PROVE Closed'
    BY <1>7 DEF AnswerNext, runVars
  <1>8. ASSUME NEW r \in Runs, FinishBatch(r) PROVE Closed'
    BY <1>8, FinishInputsEffect DEF FinishBatch, inputVars
  <1>9. ASSUME NEW r \in Runs, Finish(r) \/ Release(r) PROVE Closed'
    BY <1>9, FinishInputsEffect DEF Finish, Release
  <1>10. ASSUME NEW r \in Runs, Stop(r) \/ CloseStop(r) PROVE Closed'
    BY <1>10, FinishInputsEffect DEF Stop, CloseStop, runVars
  <1>11. ASSUME UNCHANGED <<pc, kind, steering>> PROVE Closed'
    BY <1>11
  <1>12. ASSUME NEW r \in Runs, ContextCancelled(r) PROVE Closed'
    BY <1>11, <1>12 DEF ContextCancelled, runVars
  <1>13. ASSUME NEW i \in Steers, \/ \E r \in Runs : SteerLookup(i, r)
                                  \/ SteerAdmit(i) \/ SteerReturn(i) \/ SteerAbandon(i)
         PROVE  Closed'
    BY <1>11, <1>13 DEF SteerLookup, SteerAdmit, SteerReturn, SteerAbandon, runVars, inputVars
  <1>14. ASSUME NEW m \in Messages, ReceiveLookup(m) \/ ReceiveAdmit(m) PROVE Closed'
    BY <1>11, <1>14 DEF ReceiveLookup, ReceiveAdmit, runVars, inputVars
  <1>15. CASE CloseBegin \/ CloseReturn \/ UNCHANGED vars
    BY <1>11, <1>15 DEF CloseBegin, CloseReturn, vars, runVars, inputVars
  <1>16. QED
    BY <1>1, <1>2, <1>3, <1>4, <1>5, <1>6, <1>7, <1>8, <1>9, <1>10, <1>12, <1>13, <1>14, <1>15
    DEF Next, RunStep

(* Everything the steps of the refinement may assume. *)
Kept == /\ TypeOK /\ Placed /\ OneActiveRun /\ NothingStranded
        /\ AtHome /\ Fresh /\ Refusable /\ Closed

(* The queue of a session is what its active run holds. *)
LEMMA QueueOfActive ==
  ASSUME Kept, NEW r \in Runs, Active(r)
  PROVE  live[Home[r]] = r /\ Home[r] \in Sessions /\ Queue[Home[r]] = pending[r]
  BY RunnerAssumption DEF Kept, OneActiveRun, Queue

(* Where an input is says what has become of it. *)
LEMMA Fated ==
  ASSUME Kept, NEW i \in Inputs
  PROVE  /\ Fates[i] = Fate(i)
         /\ (\E s \in Sessions : InLedger(s, i)) => Fate(i) = "logged"
         /\ (\E r \in Runs : i \in Held(r)) => Fate(i) = "held"
  BY DEF Fates, Fate, Kept, Fresh

(* What happens to the fates when neither ledgers nor admissions change. *)
LEMMA FatesStay ==
  ASSUME UNCHANGED <<ledger, admitted>>, \A r \in Runs : Held(r)' = Held(r)
  PROVE  Fates' = Fates
  <1>1. \A s \in Sessions : \A i : InLedger(s, i)' <=> InLedger(s, i)
    BY DEF InLedger
  <1>2. \A i \in Inputs : Fate(i)' = Fate(i)
    BY <1>1 DEF Fate
  <1>3. QED
    BY <1>2 DEF Fates

LEMMA LogStays == UNCHANGED ledger => Log' = Log
  BY DEF Log

(* A session that nobody enters or leaves keeps its queue. *)
LEMMA QueueElsewhere ==
  ASSUME Kept, NEW r \in Runs, NEW s \in Sessions, s # Home[r], live'[s] = live[s],
         \A q \in Runs \ {r} : pending'[q] = pending[q]
  PROVE  Queue'[s] = Queue[s]
  <1>1. live[s] = NoRun \/ live[s] \in Runs \ {r}
    BY DEF Kept, TypeOK, RunsTyped, AtHome, LiveAtHome
  <1>2. QED
    BY <1>1 DEF Queue

LEMMA RestsRefine == ASSUME Kept, Rests PROVE UNCHANGED <<Log, Queue, Fates>>
  <1>1. Log' = Log /\ Fates' = Fates
    BY LogStays, FatesStay DEF Rests, Held
  <1>2. ASSUME NEW s \in Sessions PROVE Queue'[s] = Queue[s]
    <2>1. CASE live'[s] = live[s]
      BY <2>1 DEF Rests, Queue
    <2>2. CASE live'[s] # live[s]
      <3>1. PICK r \in Runs : pc[r] = "new" /\ live[Home[r]] = NoRun /\ live' = [live EXCEPT ![Home[r]] = r]
        BY <2>2 DEF Rests
      <3>2. s = Home[r] /\ live'[s] = r /\ live[s] = NoRun /\ r # NoRun
        BY <2>2, <3>1, RunnerAssumption DEF Kept, TypeOK, RunsTyped
      <3>3. pending[r] = <<>> /\ pending' = pending
        BY <3>1 DEF Rests, Kept, NothingStranded
      <3>4. QED
        BY <3>2, <3>3 DEF Queue
    <2>3. QED
      BY <2>1, <2>2
  <1>3. Queue' = Queue
    BY <1>2 DEF Queue
  <1>4. QED
    BY <1>1, <1>3

(* The steps of InputLog under the mapping. *)
LEMMA OpenRefines ==
  ASSUME NEW s \in Sessions, NEW x \in {"prompt", "summary"},
         Queue[s] = <<>>, Log' = [Log EXCEPT ![s] = Append(@, x)], UNCHANGED <<Queue, Fates>>
  PROVE  Promise!Next
  <1>1. Promise!Open(s, x)
    BY DEF Promise!Open, Log, Queue, Fates
  <1>2. QED
    BY <1>1 DEF Promise!Next

LEMMA OfferRefines ==
  ASSUME NEW s \in Sessions, NEW i \in Inputs, Fates[i] = "free",
         Queue' = [Queue EXCEPT ![s] = Append(@, i)],
         Fates' = [Fates EXCEPT ![i] = "held"], UNCHANGED Log
  PROVE  Promise!Next
  <1>1. Promise!Offer(s, i)
    BY DEF Promise!Offer, Log, Queue, Fates
  <1>2. QED
    BY <1>1 DEF Promise!Next

LEMMA SettleRefines ==
  ASSUME NEW s \in Sessions, NEW n \in 0..Len(Queue[s]),
         Log' = [Log EXCEPT ![s] = @ \o SubSeq(Queue[s], 1, n)],
         Fates' = [i \in Inputs |->
                     IF i \notin ToSet(Queue[s]) THEN Fates[i]
                     ELSE IF i \in ToSet(SubSeq(Queue[s], 1, n)) THEN "logged"
                     ELSE IF i \in Steers THEN "refused" ELSE "free"],
         Queue' = [Queue EXCEPT ![s] = <<>>]
  PROVE  Promise!Next
  <1>1. Promise!Settle(s, n)
    BY DEF Promise!Settle, Promise!ToSet, ToSet, Log, Queue, Fates
  <1>2. n \in 0..Len(IF live[s] = NoRun THEN <<>> ELSE pending[live[s]])
    BY DEF Queue
  <1>3. QED
    BY <1>1, <1>2 DEF Promise!Next, Queue

(* The head of a sequence, and two sequences joined, element by element. *)
LEMMA SubSeqIsHead ==
  ASSUME NEW S, NEW s \in Seq(S), NEW n \in 0..Len(s)
  PROVE  /\ SubSeq(s, 1, n) \in Seq(S) /\ Len(SubSeq(s, 1, n)) = n
         /\ \A k \in 1..n : SubSeq(s, 1, n)[k] = s[k]
  <1>1. \A k \in 1..n : s[k] \in S
    OBVIOUS
  <1>2. 1 \in Int /\ n \in Int /\ Len(s) \in Nat
    OBVIOUS
  <1>3. /\ SubSeq(s, 1, n) \in Seq(S)
        /\ Len(SubSeq(s, 1, n)) = IF 1 <= n THEN n - 1 + 1 ELSE 0
        /\ \A k \in 1..(n - 1 + 1) : SubSeq(s, 1, n)[k] = s[1 + k - 1]
    BY <1>1, <1>2, SubSeqProperties
  <1>4. QED
    BY <1>2, <1>3

LEMMA JoinAsFunction ==
  ASSUME NEW S, NEW f \in Seq(S), NEW t \in Seq(S)
  PROVE  f \o t = [k \in 1..(Len(f) + Len(t)) |-> IF k <= Len(f) THEN f[k] ELSE t[k - Len(f)]]
  <1>1. /\ f \o t \in Seq(S) /\ Len(f \o t) = Len(f) + Len(t)
        /\ \A k \in 1..(Len(f) + Len(t)) : (f \o t)[k] = IF k <= Len(f) THEN f[k] ELSE t[k - Len(f)]
    BY ConcatProperties
  <1>2. ASSUME NEW q \in Seq(S) PROVE q = [k \in 1..Len(q) |-> q[k]]
    OBVIOUS
  <1>3. f \o t = [k \in 1..(Len(f) + Len(t)) |-> (f \o t)[k]]
    BY <1>1, <1>2
  <1>4. [k \in 1..(Len(f) + Len(t)) |-> (f \o t)[k]]
          = [k \in 1..(Len(f) + Len(t)) |-> IF k <= Len(f) THEN f[k] ELSE t[k - Len(f)]]
    BY <1>1
  <1>5. QED
    BY <1>3, <1>4

(* What was held by r and is neither recorded nor held after a step has    *)
(* been refused, or is free again if it is a message.                      *)
LEMMA LetGo ==
  ASSUME Kept, NEW r \in Runs, UNCHANGED admitted,
         Held(r)' = {}, \A q \in Runs \ {r} : Held(q)' = Held(q),
         NEW i \in Inputs, i \in Held(r), \A s \in Sessions : ~InLedger(s, i)'
  PROVE  Fates'[i] = IF i \in Steers THEN "refused" ELSE "free"
  <1>1. \A q \in Runs : i \notin Held(q)'
    BY HeldByOne DEF Kept
  <1>2. i \in ToSet(admitted'[r])
    BY DEF Kept, Refusable
  <1>3. Fates'[i] = Fate(i)'
    BY DEF Fates
  <1>4. QED
    BY <1>1, <1>2, <1>3 DEF Fate

(* What was not held by r keeps its fate when r settles what it held. *)
LEMMA OthersKeepTheirFate ==
  ASSUME Kept, NEW r \in Runs, UNCHANGED admitted,
         Held(r)' = {}, \A q \in Runs \ {r} : Held(q)' = Held(q),
         NEW i \in Inputs, i \notin Held(r), \A s \in Sessions : InLedger(s, i)' <=> InLedger(s, i)
  PROVE  Fates'[i] = Fates[i]
  <1>1. \A q \in Runs : i \in Held(q)' <=> i \in Held(q)
    OBVIOUS
  <1>2. Fate(i)' = Fate(i)
    BY <1>1 DEF Fate
  <1>3. QED
    BY <1>2 DEF Fates

(* finishInputs: nothing of what was held is recorded. *)
LEMMA DropsRefine ==
  ASSUME Kept, NEW r \in Runs, Drops(r)
  PROVE  Promise!Next \/ UNCHANGED <<Log, Queue, Fates>>
  <1>1. /\ pending \in [Runs -> Seq(Inputs)] /\ pending'[r] = <<>>
        /\ \A q \in Runs \ {r} : pending'[q] = pending[q]
    BY DEF Kept, TypeOK, InputsTyped, Drops
  <1>2. Held(r)' = {} /\ \A q \in Runs \ {r} : Held(q)' = Held(q)
    BY <1>1, EmptyHasNoElements DEF Held
  <1>3. Log' = Log
    BY LogStays DEF Drops
  <1>4. \A s \in Sessions : s # Home[r] => live'[s] = live[s]
    BY RunnerAssumption DEF Drops, Kept, TypeOK, RunsTyped
  <1>5. \A s \in Sessions \ {Home[r]} : Queue'[s] = Queue[s]
    BY <1>1, <1>4, QueueElsewhere
  <1>6. CASE pending[r] = <<>>
    <2>1. pending' = pending
      BY <1>1, <1>6 DEF Drops
    <2>2. Fates' = Fates
      BY <2>1, FatesStay DEF Drops, Held
    <2>3. Queue'[Home[r]] = Queue[Home[r]]
      <3>1. CASE live' = live
        BY <2>1, <3>1 DEF Queue
      <3>2. CASE Active(r) /\ live' = [live EXCEPT ![Home[r]] = NoRun]
        <4>1. Home[r] \in Sessions /\ Queue[Home[r]] = <<>>
          BY <1>6, <3>2, QueueOfActive
        <4>2. live'[Home[r]] = NoRun
          BY <3>2, <4>1 DEF Kept, TypeOK, RunsTyped
        <4>3. QED
          BY <4>1, <4>2 DEF Queue
      <3>3. QED
        BY <3>1, <3>2 DEF Drops
    <2>4. Queue' = Queue
      BY <1>5, <2>3 DEF Queue
    <2>5. QED
      BY <1>3, <2>2, <2>4
  <1>7. CASE pending[r] # <<>>
    <2>1. Active(r)
      BY <1>7 DEF Kept, NothingStranded, Active
    <2>2. live[Home[r]] = r /\ Home[r] \in Sessions /\ Queue[Home[r]] = pending[r]
      BY <2>1, QueueOfActive
    <2>3. Queue'[Home[r]] = <<>>
      <3>1. live'[Home[r]] \in {r, NoRun}
        BY <2>2 DEF Drops, Kept, TypeOK, RunsTyped
      <3>2. QED
        BY <1>1, <2>2, <3>1 DEF Queue
    <2>4. Queue' = [Queue EXCEPT ![Home[r]] = <<>>]
      BY <1>5, <2>2, <2>3 DEF Queue
    <2>5. SubSeq(Queue[Home[r]], 1, 0) = <<>>
      BY SubSeqEmpty
    <2>6. Log' = [Log EXCEPT ![Home[r]] = @ \o SubSeq(Queue[Home[r]], 1, 0)]
      <3>1. ledger[Home[r]] \in Seq(Entries)
        BY <2>2 DEF Kept, TypeOK
      <3>2. Log[Home[r]] \in Seq({ledger[Home[r]][k].item : k \in DOMAIN ledger[Home[r]]})
        BY <2>2, <3>1 DEF Log
      <3>3. Log[Home[r]] \o <<>> = Log[Home[r]]
        BY <3>2
      <3>4. QED
        BY <1>3, <2>2, <2>5, <3>3 DEF Log
    <2>7. \A s \in Sessions : \A i : InLedger(s, i)' <=> InLedger(s, i)
      BY DEF Drops, InLedger
    <2>8. ASSUME NEW i \in Inputs
          PROVE  Fates'[i] = IF i \notin ToSet(Queue[Home[r]]) THEN Fates[i]
                             ELSE IF i \in ToSet(SubSeq(Queue[Home[r]], 1, 0)) THEN "logged"
                             ELSE IF i \in Steers THEN "refused" ELSE "free"
      <3>1. UNCHANGED admitted /\ ToSet(Queue[Home[r]]) = Held(r)
        BY <2>2 DEF Drops, Held
      <3>2. CASE i \in Held(r)
        <4>1. \A s \in Sessions : ~InLedger(s, i)'
          BY <2>7, <3>2 DEF Kept, Fresh
        <4>2. Fates'[i] = IF i \in Steers THEN "refused" ELSE "free"
          BY <1>2, <3>1, <3>2, <4>1, LetGo
        <4>3. QED
          BY <2>5, <3>1, <3>2, <4>2, EmptyHasNoElements
      <3>3. CASE i \notin Held(r)
        BY <1>2, <2>7, <3>1, <3>3, OthersKeepTheirFate
      <3>4. QED
        BY <3>2, <3>3
    <2>9. Fates' = [i \in Inputs |->
                      IF i \notin ToSet(Queue[Home[r]]) THEN Fates[i]
                      ELSE IF i \in ToSet(SubSeq(Queue[Home[r]], 1, 0)) THEN "logged"
                      ELSE IF i \in Steers THEN "refused" ELSE "free"]
      BY <2>8 DEF Fates
    <2>10. 0 \in 0..Len(Queue[Home[r]])
      BY <1>1, <2>2
    <2>11. QED
      BY <2>2, <2>4, <2>6, <2>9, <2>10, SettleRefines
  <1>8. QED
    BY <1>6, <1>7

(* A prompt or a summary is recorded while nothing is held. *)
LEMMA OpensRefine ==
  ASSUME Kept, NEW r \in Runs, Opens(r)
  PROVE  Promise!Next
  <1>1. PICK x \in {"prompt", "summary"} : ledger' = [ledger EXCEPT ![Home[r]] = Append(@, Entry(r, x))]
    BY DEF Opens
  <1>2. Active(r) /\ pending[r] = <<>>
    BY DEF Opens, Active, Kept, NothingStranded, Closed
  <1>3. live[Home[r]] = r /\ Home[r] \in Sessions /\ Queue[Home[r]] = <<>>
    BY <1>2, QueueOfActive
  <1>4. Queue' = Queue
    BY DEF Opens, Queue
  <1>5. ledger \in [Sessions -> Seq(Entries)] /\ Entry(r, x) \in Entries /\ Entry(r, x).item = x
    BY DEF Kept, TypeOK, Entry, Entries
  <1>6. Log' = [Log EXCEPT ![Home[r]] = Append(@, x)]
    <2>1. \A s \in Sessions \ {Home[r]} : Log'[s] = Log[s]
      BY <1>1, <1>5 DEF Log
    <2>2. Log'[Home[r]] = Append(Log[Home[r]], x)
      <3> DEFINE old == ledger[Home[r]]
                 new == Append(old, Entry(r, x))
      <3>1. old \in Seq(Entries) /\ ledger'[Home[r]] = new
        BY <1>1, <1>3, <1>5
      <3>2. /\ DOMAIN new = 1..(Len(old) + 1) /\ DOMAIN old = 1..Len(old) /\ Len(old) \in Nat
            /\ \A k \in 1..Len(old) : new[k] = old[k]
            /\ new[Len(old) + 1] = Entry(r, x)
        BY <1>5, <3>1
      <3>3. Log'[Home[r]] = [k \in DOMAIN new |-> new[k].item] /\ Log[Home[r]] = [k \in DOMAIN old |-> old[k].item]
        BY <1>3, <3>1 DEF Log
      <3> HIDE DEF old, new
      <3> DEFINE items == [k \in DOMAIN old |-> old[k].item]
      <3>4. items \in Seq({old[k].item : k \in DOMAIN old}) /\ Len(items) = Len(old)
        BY <3>2
      <3>5. Append(items, x) = [k \in 1..(Len(old) + 1) |-> IF k = Len(old) + 1 THEN x ELSE items[k]]
        BY <3>2, <3>4
      <3>6. \A k \in 1..(Len(old) + 1) : new[k].item = IF k = Len(old) + 1 THEN x ELSE items[k]
        BY <1>5, <3>2
      <3>7. QED
        BY <3>2, <3>3, <3>5, <3>6
    <2>3. QED
      BY <1>3, <2>1, <2>2 DEF Log
  <1>7. ASSUME NEW s \in Sessions, NEW i \in Inputs PROVE InLedger(s, i)' <=> InLedger(s, i)
    <2>1. x # i
      BY RunnerAssumption
    <2>2. InLedger(s, i)' => InLedger(s, i)
      BY <1>1, <1>3, <1>5, <2>1, AppendRecordsOne DEF Kept
    <2>3. InLedger(s, i) => InLedger(s, i)'
      <3>1. ASSUME NEW k \in DOMAIN ledger[s] PROVE k \in DOMAIN ledger'[s] /\ ledger'[s][k] = ledger[s][k]
        BY <1>1, <1>3, <1>5
      <3>2. QED
        BY <3>1 DEF InLedger
    <2>4. QED
      BY <2>2, <2>3
  <1>8. Fates' = Fates
    <2>1. \A q \in Runs : Held(q)' = Held(q)
      BY DEF Opens, Held
    <2>2. \A i \in Inputs : Fate(i)' = Fate(i)
      BY <1>7, <2>1 DEF Opens, Fate
    <2>3. QED
      BY <2>2 DEF Fates
  <1>9. QED
    BY <1>3, <1>4, <1>6, <1>8, OpenRefines

(* Admission: what is held from now on was free. *)
LEMMA AdmitsRefine ==
  ASSUME Kept, NEW r \in Runs, NEW x \in Inputs, Admits(r, x)
  PROVE  Promise!Next
  <1>1. Active(r)
    BY HoldersAreActive DEF Admits, Kept
  <1>2. live[Home[r]] = r /\ Home[r] \in Sessions /\ Queue[Home[r]] = pending[r]
    BY <1>1, QueueOfActive
  <1>3. /\ pending \in [Runs -> Seq(Inputs)] /\ admitted \in [Runs -> Seq(Inputs)]
        /\ pending'[r] = Append(pending[r], x) /\ admitted'[r] = Append(admitted[r], x)
        /\ \A q \in Runs \ {r} : pending'[q] = pending[q] /\ admitted'[q] = admitted[q]
    BY DEF Kept, TypeOK, InputsTyped, CallsTyped, Admits
  <1>4. /\ Held(r)' = Held(r) \cup {x} /\ \A q \in Runs \ {r} : Held(q)' = Held(q)
        /\ ToSet(admitted'[r]) = ToSet(admitted[r]) \cup {x}
    BY <1>3, AppendAddsOne DEF Held
  <1>5. Queue' = [Queue EXCEPT ![Home[r]] = Append(@, x)]
    <2>1. \A s \in Sessions \ {Home[r]} : Queue'[s] = Queue[s]
      BY <1>3, QueueElsewhere DEF Admits
    <2>2. Queue'[Home[r]] = Append(pending[r], x)
      BY <1>2, <1>3, RunnerAssumption DEF Admits, Queue
    <2>3. QED
      BY <1>2, <2>1, <2>2 DEF Queue
  <1>6. Log' = Log
    BY LogStays DEF Admits
  <1>7. \A s \in Sessions : \A i : InLedger(s, i)' <=> InLedger(s, i)
    BY DEF Admits, InLedger
  <1>8. /\ \A s \in Sessions : ~InLedger(s, x)
        /\ \A q \in Runs : x \notin Held(q)
        /\ x \in Steers => \A q \in Runs : x \notin ToSet(admitted[q])
    <2>1. CASE x \in Steers
      BY <2>1 DEF Admits, Kept, Placed, SteersInOnePlace, Nowhere, Refusable
    <2>2. CASE x \notin Steers
      <3>1. x \in Messages /\ Home[r] = Home[x] /\ x \notin Held(r) /\ ~InLedger(Home[x], x)
        BY <2>2 DEF Admits, Inputs
      <3>2. ASSUME NEW q \in Runs, x \in Held(q) PROVE FALSE
        <4>1. Home[q] = Home[x] /\ Active(q)
          BY <3>1, <3>2, HoldersAreActive DEF Kept, Fresh
        <4>2. q = r
          BY <1>1, <3>1, <4>1 DEF Kept, OneActiveRun
        <4>3. QED
          BY <3>1, <3>2, <4>2
      <3>3. QED
        BY <2>2, <3>1, <3>2 DEF Kept, Fresh
    <2>3. QED
      BY <2>1, <2>2
  <1>9. Fates[x] = "free"
    BY <1>8 DEF Fates, Fate
  <1>10. ASSUME NEW i \in Inputs PROVE Fates'[i] = IF i = x THEN "held" ELSE Fates[i]
    <2>1. CASE i = x
      <3>1. Fate(i)' = "held"
        BY <1>4, <1>7, <1>8, <2>1 DEF Fate
      <3>2. QED
        BY <2>1, <3>1 DEF Fates
    <2>2. CASE i # x
      <3>1. \A q \in Runs : /\ i \in Held(q)' <=> i \in Held(q)
                            /\ i \in ToSet(admitted'[q]) <=> i \in ToSet(admitted[q])
        BY <1>3, <1>4, <2>2
      <3>2. Fate(i)' = Fate(i)
        BY <1>7, <3>1 DEF Fate
      <3>3. QED
        BY <2>2, <3>2 DEF Fates
    <2>3. QED
      BY <2>1, <2>2
  <1>11. Fates' = [Fates EXCEPT ![x] = "held"]
    BY <1>10 DEF Fates
  <1>12. QED
    BY <1>2, <1>5, <1>6, <1>9, <1>11, OfferRefines

(* A checkpoint records a head of the queue, in order, and lets the rest go. *)
LEMMA CommitRefines ==
  ASSUME Kept, TypeOK', NEW r \in Runs, CheckpointCommit(r)
  PROVE  Promise!Next
  <1> DEFINE home == Home[r]
             old == ledger[home]
             held == pending[r]
             n == good'[r]
             head == SubSeq(held, 1, n)
  <1>1. /\ Active(r) /\ UNCHANGED <<live, admitted>> /\ pending \in [Runs -> Seq(Inputs)]
        /\ pending'[r] = <<>> /\ \A q \in Runs \ {r} : pending'[q] = pending[q]
    BY DEF CheckpointCommit, Active, callVars, Kept, TypeOK, InputsTyped
  <1>2. live[home] = r /\ home \in Sessions /\ Queue[home] = held
    BY <1>1, QueueOfActive
  <1>3. Held(r)' = {} /\ \A q \in Runs \ {r} : Held(q)' = Held(q)
    BY <1>1, EmptyHasNoElements DEF Held
  <1>4. Queue' = [Queue EXCEPT ![home] = <<>>]
    <2>1. \A s \in Sessions \ {home} : Queue'[s] = Queue[s]
      BY <1>1, QueueElsewhere
    <2>2. Queue'[home] = <<>>
      BY <1>1, <1>2 DEF Queue
    <2>3. QED
      BY <1>2, <2>1, <2>2 DEF Queue
  <1>5. /\ old \in Seq(Entries) /\ ledger'[home] \in Seq(Entries) /\ held \in Seq(Inputs)
        /\ n \in 0..Len(held) /\ Len(held) \in Nat /\ n \in Nat /\ Len(old) \in Nat
    BY <1>1, <1>2, CommitExtends DEF Kept, TypeOK
  <1>6. /\ DOMAIN old = 1..Len(old) /\ DOMAIN ledger'[home] = 1..(Len(old) + n)
        /\ \A k \in 1..Len(old) : ledger'[home][k] = old[k]
        /\ \A k \in 1..n : ledger'[home][Len(old) + k] = Entry(r, held[k])
        /\ \A s \in Sessions \ {home} : ledger'[s] = ledger[s]
    <2>1. TypeOK /\ Extends(r) /\ Len(ledger'[home]) = Len(old) + n
          /\ \A k \in 1..n : ledger'[home][Len(old) + k] = Entry(r, held[k])
      BY CommitExtends DEF Kept
    <2>2. DOMAIN old = 1..Len(old) /\ DOMAIN ledger'[home] = 1..(Len(old) + n)
      BY <1>5, <2>1
    <2>3. QED
      BY <2>1, <2>2 DEF Extends
  <1>7. \A k : Entry(r, held[k]).item = held[k]
    BY DEF Entry
  <1>8. /\ head \in Seq(Inputs) /\ Len(head) = n /\ \A k \in 1..n : head[k] = held[k]
    BY <1>5, SubSeqIsHead
  <1>9. Log' = [Log EXCEPT ![home] = @ \o head]
    <2>1. \A s \in Sessions \ {home} : Log'[s] = Log[s]
      BY <1>6 DEF Log
    <2>2. Log[home] = [k \in 1..Len(old) |-> old[k].item]
      BY <1>2, <1>6 DEF Log
    <2>3. Log'[home] = [k \in 1..(Len(old) + n) |-> ledger'[home][k].item]
      BY <1>2, <1>6 DEF Log
    <2>4. \A k \in 1..(Len(old) + n) : k \in 1..Len(old) \/ (k - Len(old) \in 1..n /\ k = Len(old) + (k - Len(old)))
      BY <1>5
    <2>5. ASSUME NEW k \in 1..(Len(old) + n)
          PROVE  ledger'[home][k].item = IF k <= Len(old) THEN old[k].item ELSE head[k - Len(old)]
      <3>1. CASE k \in 1..Len(old)
        BY <1>5, <1>6, <3>1
      <3>2. CASE k \notin 1..Len(old)
        <4>1. k - Len(old) \in 1..n /\ k = Len(old) + (k - Len(old)) /\ ~(k <= Len(old))
          BY <1>5, <2>4, <3>2
        <4>2. ledger'[home][k] = Entry(r, held[k - Len(old)])
          BY <1>6, <4>1
        <4>3. QED
          BY <1>7, <1>8, <4>1, <4>2
      <3>3. QED
        BY <3>1, <3>2
    <2>6. [k \in 1..Len(old) |-> old[k].item] \o head =
            [k \in 1..(Len(old) + n) |-> IF k <= Len(old) THEN old[k].item ELSE head[k - Len(old)]]
      <3>1. \A k \in 1..Len(old) : old[k].item \in Inputs \cup {"prompt", "summary"}
        <4>1. \A k \in 1..Len(old) : old[k] \in Entries
          BY <1>5
        <4>2. QED
          BY <4>1 DEF Entries
      <3>2. head \in Seq(Inputs \cup {"prompt", "summary"})
        BY <1>5, <1>8
      <3>3. [k \in 1..Len(old) |-> old[k].item] \in [1..Len(old) -> Inputs \cup {"prompt", "summary"}]
        BY <3>1
      <3> DEFINE items == [k \in 1..Len(old) |-> old[k].item]
                 Items == Inputs \cup {"prompt", "summary"}
      <3>4. \A k \in 1..Len(old) : items[k] = old[k].item
        OBVIOUS
      <3>5. items \in Seq(Items) /\ head \in Seq(Items)
        BY <1>5, <3>2, <3>3
      <3>6. Len(items) = Len(old) /\ Len(head) = n /\ Len(old) \in Nat /\ n \in Nat
        BY <1>5, <1>8
      <3> HIDE DEF old, head, n, items, Items
      <3>7. items \o head = [k \in 1..(Len(items) + Len(head)) |->
                               IF k <= Len(items) THEN items[k] ELSE head[k - Len(items)]]
        BY ONLY <3>5, JoinAsFunction
      <3>8. \A k \in 1..(Len(old) + n) : k <= Len(old) => k \in 1..Len(old)
        BY <3>6
      <3>9. items \o head = [k \in 1..(Len(old) + n) |->
                               IF k <= Len(old) THEN old[k].item ELSE head[k - Len(old)]]
        BY <3>4, <3>6, <3>7, <3>8
      <3>10. QED
        BY <3>9 DEF items
    <2>7. Log'[home] = Log[home] \o head
      BY <2>2, <2>3, <2>5, <2>6
    <2>8. QED
      BY <1>2, <2>1, <2>7 DEF Log
  <1>10. ASSUME NEW i \in Inputs, i \in ToSet(head) PROVE i \in Held(r) /\ InLedger(home, i)'
    <2>1. PICK k \in 1..n : head[k] = i
      BY <1>8, <1>10 DEF ToSet
    <2>2. held[k] = i /\ k \in DOMAIN held /\ Len(old) + k \in DOMAIN ledger'[home]
      BY <1>5, <1>6, <1>8, <2>1
    <2>3. ledger'[home][Len(old) + k].item = i
      BY <1>6, <1>7, <2>1, <2>2
    <2>4. QED
      BY <2>2, <2>3 DEF Held, ToSet, InLedger
  <1>11. ASSUME NEW i \in Inputs, NEW s \in Sessions, InLedger(s, i)' PROVE InLedger(s, i) \/ i \in ToSet(head)
    <2>1. PICK k \in DOMAIN ledger'[s] : ledger'[s][k].item = i
      BY <1>11 DEF InLedger
    <2>2. CASE s # home
      BY <1>6, <1>11, <2>2 DEF InLedger
    <2>3. CASE s = home /\ k \in 1..Len(old)
      BY <1>6, <2>1, <2>3 DEF InLedger
    <2>4. CASE s = home /\ k \notin 1..Len(old)
      <3>1. \A a, b \in Nat : \A j \in 1..(a + b) : j \in 1..a \/ (j - a \in 1..b /\ j = a + (j - a))
        OBVIOUS
      <3>2. k \in 1..(Len(old) + n)
        BY <1>6, <2>1, <2>4
      <3>3. k - Len(old) \in 1..n /\ k = Len(old) + (k - Len(old))
        BY <1>5, <2>4, <3>1, <3>2
      <3>4. ledger'[home][k] = Entry(r, held[k - Len(old)])
        BY <1>6, <3>3
      <3>5. head[k - Len(old)] = i
        BY <1>7, <1>8, <2>1, <2>4, <3>3, <3>4
      <3>6. DOMAIN head = 1..n
        BY <1>8
      <3>7. QED
        BY <3>3, <3>5, <3>6 DEF ToSet
    <2>5. QED
      BY <2>2, <2>3, <2>4
  <1>12. \A i \in Inputs, s \in Sessions : InLedger(s, i) => InLedger(s, i)'
    <2>1. ASSUME NEW s \in Sessions, NEW k \in DOMAIN ledger[s]
          PROVE  k \in DOMAIN ledger'[s] /\ ledger'[s][k] = ledger[s][k]
      <3>1. CASE s # home
        BY <1>6, <3>1
      <3>2. CASE s = home
        <4>1. \A a, b \in Nat : 1..a \subseteq 1..(a + b)
          OBVIOUS
        <4>2. 1..Len(old) \subseteq 1..(Len(old) + n)
          BY <1>5, <4>1
        <4>3. k \in 1..Len(old)
          BY <1>6, <3>2
        <4>4. QED
          BY <1>6, <3>2, <4>2, <4>3
      <3>3. QED
        BY <3>1, <3>2
    <2>2. QED
      BY <2>1 DEF InLedger
  <1>13. ToSet(Queue[home]) = Held(r)
    BY <1>2 DEF Held
  <1> HIDE DEF home, old, held, n, head
  <1>14. ASSUME NEW i \in Inputs
         PROVE  Fates'[i] = IF i \notin ToSet(Queue[home]) THEN Fates[i]
                            ELSE IF i \in ToSet(head) THEN "logged"
                            ELSE IF i \in Steers THEN "refused" ELSE "free"
    <2>1. CASE i \notin Held(r)
      <3>1. \A s \in Sessions : InLedger(s, i)' <=> InLedger(s, i)
        BY <1>10, <1>11, <1>12, <2>1
      <3>2. Fates'[i] = Fates[i]
        BY <1>1, <1>3, <2>1, <3>1, OthersKeepTheirFate
      <3>3. QED
        BY <1>13, <2>1, <3>2
    <2>2. CASE i \in ToSet(head)
      <3>1. i \in Held(r) /\ InLedger(home, i)'
        BY <1>10, <2>2
      <3>2. Fate(i)' = "logged"
        BY <1>2, <3>1 DEF Fate
      <3>3. QED
        BY <1>13, <2>2, <3>1, <3>2 DEF Fates
    <2>3. CASE i \in Held(r) /\ i \notin ToSet(head)
      <3>1. \A s \in Sessions : ~InLedger(s, i)'
        BY <1>11, <2>3 DEF Kept, Fresh
      <3>2. Fates'[i] = IF i \in Steers THEN "refused" ELSE "free"
        BY <1>1, <1>3, <2>3, <3>1, LetGo
      <3>3. QED
        BY <1>13, <2>3, <3>2
    <2>4. QED
      BY <2>1, <2>2, <2>3
  <1>15. Fates' = [i \in Inputs |->
                     IF i \notin ToSet(Queue[home]) THEN Fates[i]
                     ELSE IF i \in ToSet(head) THEN "logged"
                     ELSE IF i \in Steers THEN "refused" ELSE "free"]
    BY <1>14 DEF Fates
  <1>16. head = SubSeq(Queue[home], 1, n) /\ n \in 0..Len(Queue[home])
    BY <1>2, <1>5 DEF head
  <1>17. QED
    BY <1>2, <1>4, <1>9, <1>15, <1>16, SettleRefines

(* What the Runner promises to those who speak to a session: the steps of  *)
(* InputLog are all that its goroutines and callers do to the inputs.      *)
THEOREM RunnerImplementsInputLog == Spec => KeepsPromise
  <1>1. Init => Promise!Init
    <2> SUFFICES ASSUME Init PROVE Promise!Init
      OBVIOUS
    <2>1. Log = [s \in Sessions |-> <<>>] /\ Queue = [s \in Sessions |-> <<>>]
      BY DEF Init, Log, Queue
    <2>2. Fates = [i \in Inputs |-> "free"]
      <3>1. \A i \in Inputs : Fate(i) = "free"
        BY EmptyHasNoElements DEF Init, Fate, InLedger, Held
      <3>2. QED
        BY <3>1 DEF Fates
    <2>3. QED
      BY <2>1, <2>2 DEF Promise!Init, Log, Queue, Fates
  <1>2. Init => Refusable /\ Closed
    BY EmptyHasNoElements DEF Init, Refusable, Closed, Held
  <1>3. Kept /\ [Next]_vars => [Promise!Next]_(Promise!logVars)
    <2> SUFFICES ASSUME Kept, [Next]_vars PROVE [Promise!Next]_(Promise!logVars)
      OBVIOUS
    <2>1. TypeOK /\ AtHome /\ TypeOK'
      BY TypeKept DEF Kept
    <2>2. Promise!Next \/ UNCHANGED <<Log, Queue, Fates>>
      BY <2>1, WhoHolds, RestsRefine, DropsRefine, OpensRefine, AdmitsRefine, CommitRefines
    <2>3. QED
      BY <2>2 DEF Promise!logVars, Log, Queue, Fates
  <1>4. TypeOK /\ Placed /\ OneActiveRun /\ NothingStranded /\ AtHome /\ Fresh /\ Refusable /\ Closed => Kept
    BY DEF Kept
  <1>5. QED
    BY <1>1, <1>2, <1>3, <1>4, RefusableKept, ClosedKept, FreshHolds, TypeCorrect, RefusedNeverRecordedHolds,
       SteersInOnePlaceHolds, OneActiveRunHolds, NothingStrandedHolds, PTL DEF Spec, Placed, KeepsPromise, Promise!Spec

(* A caller of Steer is answered at most once, and what a run holds for it *)
(* is recorded or refused before its session is given back (steer.go,      *)
(* run.go).                                                                *)
THEOREM AnswersHoldHolds == Spec => AnswersHold
  BY AnsweredOnceHolds, RunnerImplementsInputLog DEF AnswersHold

-----------------------------------------------------------------------------
(* The phases in which a run has recorded nothing, has admitted nothing,   *)
(* has its prompt as the last entry of the session, and in which what it   *)
(* admits follows what it has recorded.                                    *)
Before(r) == \/ pc[r] \in {"new", "prepare", "append", "compacting"}
             \/ pc[r] \in {"record", "starting"} /\ kind[r] = "compact"
Young(r) == pc[r] \in {"new", "prepare", "append", "record", "announce", "open"}
Prompted(r) == pc[r] \in {"announce", "open"} \/ (pc[r] = "record" /\ kind[r] = "turn")
Taking(r) == steering[r] = "open" /\ ~(pc[r] = "answer" /\ faulty[r])

Nothing(r) == \A k \in DOMAIN ledger[Home[r]] : ledger[Home[r]][k].run # r
AtPrompt(r) == /\ ledger[Home[r]] # <<>>
               /\ ledger[Home[r]][Len(ledger[Home[r]])] = Entry(r, "prompt")

(* What is behind the prompt at p and what is held are all that r admitted. *)
FollowsFrom(r, p) ==
  /\ ledger[Home[r]][p] = Entry(r, "prompt")
  /\ Len(admitted[r]) = Len(ledger[Home[r]]) - p + Len(pending[r])
  /\ \A j \in 1..Len(pending[r]) : pending[r][j] = admitted[r][Len(ledger[Home[r]]) - p + j]
Follows(r) == \E p \in DOMAIN ledger[Home[r]] : FollowsFrom(r, p)

(* CommittedInOrder speaks of ledgers only; what is held must go on where  *)
(* they end, unless a checkpoint has failed and nothing more is recorded.  *)
Prompts(r) == /\ pc[r] = "append" => kind[r] = "turn"
              /\ Before(r) => Nothing(r)
              /\ Young(r) => admitted[r] = <<>>
              /\ Prompted(r) => AtPrompt(r)
Ordered(r) == Prompts(r) /\ (Taking(r) => Follows(r))
InOrder == CommittedInOrder /\ \A r \in Runs : Ordered(r)

(* What a run holds and has admitted stays, or both get one input more. *)
KeepsPace(r) ==
  \/ pending'[r] = pending[r] /\ admitted'[r] = admitted[r]
  \/ \E x \in Inputs : /\ pending'[r] = Append(pending[r], x)
                       /\ admitted'[r] = Append(admitted[r], x)

-----------------------------------------------------------------------------
(* How runs go from phase to phase *)

GoesOn(r) ==
  /\ (pc[r] = "append" => kind[r] = "turn") => (pc'[r] = "append" => kind'[r] = "turn")
  /\ Before(r)' => Before(r)
  /\ Young(r)' => Young(r)
  /\ Prompted(r)' => \/ Prompted(r)
                     \/ /\ pc[r] = "append"
                        /\ ledger' = [ledger EXCEPT ![Home[r]] = Append(@, Entry(r, "prompt"))]
  /\ Taking(r)' => \/ Taking(r) /\ (KeepsPace(r) \/ CheckpointCommit(r))
                   \/ Young(r) /\ Prompted(r) /\ UNCHANGED <<pending, admitted>>

(* A run that is left alone goes on so. *)
LEMMA LeftAlone ==
  ASSUME NEW q \in Runs, pc'[q] = pc[q], kind'[q] = kind[q], faulty'[q] = faulty[q],
         steering'[q] \in {steering[q], "closed"},
         steering'[q] = "open" => KeepsPace(q)
  PROVE  GoesOn(q)
  BY DEF GoesOn, Before, Young, Prompted, Taking

LEMMA RunsGoOn ==
  ASSUME TypeOK, Closed, [Next]_vars, NEW q \in Runs
  PROVE  GoesOn(q)
  <1> USE DEF TypeOK, RunsTyped, InputsTyped, BatchesTyped, CallsTyped, Goto, GotoWith
  <1>1. ASSUME NEW r \in Runs, NEW k \in {"turn", "compact"}, Begin(r, k) PROVE GoesOn(q)
    <2>1. CASE r = q
      BY <1>1, <2>1 DEF Begin, GoesOn, Before, Young, Prompted, Taking, KeepsPace, inputVars, batchVars, callVars
    <2>2. CASE r # q
      <3>1. pc'[q] = pc[q] /\ kind'[q] = kind[q] /\ UNCHANGED <<faulty, steering, pending, admitted>>
        BY <1>1, <2>2 DEF Begin, inputVars, batchVars, callVars
      <3>2. QED
        BY <3>1, LeftAlone DEF KeepsPace
    <2>3. QED
      BY <2>1, <2>2
  <1>2. ASSUME NEW r \in Runs,
               \/ Prepare(r) \/ AppendPrompt(r) \/ SaveRunning(r) \/ AnnouncePrompt(r)
               \/ OpenSteering(r) \/ AnnounceStarted(r)
        PROVE  GoesOn(q)
    <2>1. CASE r = q
      <3>1. CASE AppendPrompt(r)
        BY <2>1, <3>1 DEF AppendPrompt, GoesOn, Before, Young, Prompted, Taking, KeepsPace,
           inputVars, batchVars, callVars
      <3>2. CASE Prepare(r) \/ SaveRunning(r) \/ AnnouncePrompt(r)
        BY <2>1, <3>2 DEF Prepare, SaveRunning, AnnouncePrompt, GoesOn, Before, Young, Prompted, Taking,
           KeepsPace, inputVars, batchVars, callVars
      <3>3. CASE OpenSteering(r)
        <4>1. /\ pc[q] = "open" /\ pc'[q] \in {"starting", "finish"} /\ UNCHANGED <<kind, pending, admitted>>
              /\ pc'[q] = "finish" => steering'[q] = "closed"
          BY <2>1, <3>3 DEF OpenSteering, callVars
        <4>2. Young(q) /\ Prompted(q) /\ ~Young(q)' /\ ~Prompted(q)'
          BY <4>1 DEF Young, Prompted
        <4>3. ~Before(q)'
          BY <4>1 DEF Before, Closed
        <4>4. QED
          BY <4>1, <4>2, <4>3 DEF GoesOn
      <3>4. CASE AnnounceStarted(r)
        BY <2>1, <3>4 DEF AnnounceStarted, GoesOn, Before, Young, Prompted, Taking,
           KeepsPace, inputVars, batchVars, callVars
      <3>5. QED
        BY <1>2, <3>1, <3>2, <3>3, <3>4
    <2>2. CASE r # q
      <3>1. pc'[q] = pc[q] /\ kind'[q] = kind[q] /\ steering'[q] = steering[q]
            /\ UNCHANGED <<faulty, pending, admitted>>
        BY <1>2, <2>2 DEF Prepare, AppendPrompt, SaveRunning, AnnouncePrompt, OpenSteering, AnnounceStarted,
           inputVars, batchVars, callVars
      <3>2. QED
        BY <3>1, LeftAlone DEF KeepsPace
    <2>3. QED
      BY <2>1, <2>2
  <1>3. ASSUME NEW r \in Runs,
               \/ \E phase \in {"continue", "final"} : CheckpointEmpty(r, phase)
               \/ CheckpointCommit(r) \/ AnswerNext(r) \/ FinishBatch(r)
               \/ LoopReturn(r) \/ CompactReturn(r)
        PROVE  GoesOn(q)
    <2>1. CASE r = q
      <3>1. CASE CheckpointCommit(r)
        <4>1. pc[q] \in {"initial", "loop"} /\ pc'[q] = "answer" /\ UNCHANGED <<kind, steering>>
          BY <2>1, <3>1 DEF CheckpointCommit
        <4>2. QED
          BY <2>1, <3>1, <4>1 DEF GoesOn, Before, Young, Prompted, Taking
      <3>2. CASE ~CheckpointCommit(r)
        BY <1>3, <2>1, <3>2 DEF CheckpointEmpty, AnswerNext, FinishBatch, FinishInputs, LoopReturn, CompactReturn,
           GoesOn, Before, Young, Prompted, Taking, KeepsPace, inputVars, batchVars, callVars, runVars
      <3>3. QED
        BY <3>1, <3>2
    <2>2. CASE r # q
      <3>1. pc'[q] = pc[q] /\ kind'[q] = kind[q] /\ faulty'[q] = faulty[q] /\ steering'[q] = steering[q]
            /\ pending'[q] = pending[q] /\ UNCHANGED admitted
        BY <1>3, <2>2 DEF CheckpointEmpty, CheckpointCommit, AnswerNext, FinishBatch, FinishInputs, LoopReturn,
           CompactReturn, inputVars, batchVars, callVars, runVars
      <3>2. QED
        BY <3>1, LeftAlone DEF KeepsPace
    <2>3. QED
      BY <2>1, <2>2
  <1>4. ASSUME NEW r \in Runs,
               Finish(r) \/ SaveEnd(r) \/ AnnounceEnd(r) \/ Release(r) \/ Complete(r)
        PROVE  GoesOn(q)
    <2>1. CASE r = q
      BY <1>4, <2>1 DEF Finish, SaveEnd, AnnounceEnd, Release, Complete, FinishInputs,
         GoesOn, Before, Young, Prompted, Taking, KeepsPace, inputVars, batchVars, callVars
    <2>2. CASE r # q
      <3>1. pc'[q] = pc[q] /\ kind'[q] = kind[q] /\ steering'[q] = steering[q] /\ pending'[q] = pending[q]
            /\ UNCHANGED <<faulty, admitted>>
        BY <1>4, <2>2 DEF Finish, SaveEnd, AnnounceEnd, Release, Complete, FinishInputs, inputVars, batchVars, callVars
      <3>2. QED
        BY <3>1, LeftAlone DEF KeepsPace
    <2>3. QED
      BY <2>1, <2>2
  <1>5. ASSUME NEW r \in Runs, Stop(r) \/ CloseStop(r) PROVE GoesOn(q)
    <2>1. UNCHANGED <<pc, kind, faulty, admitted>>
          /\ \/ steering'[q] = "closed"
             \/ steering'[q] = steering[q] /\ pending'[q] = pending[q]
      BY <1>5 DEF Stop, CloseStop, FinishInputs, runVars, batchVars, callVars
    <2>2. QED
      BY <2>1, LeftAlone DEF KeepsPace
  <1>6. ASSUME UNCHANGED <<pc, kind, faulty, steering, pending, admitted>> PROVE GoesOn(q)
    BY <1>6, LeftAlone DEF KeepsPace
  <1>7. ASSUME NEW i \in Steers, \/ \E r \in Runs : SteerLookup(i, r)
                                 \/ SteerReturn(i) \/ SteerAbandon(i)
        PROVE  GoesOn(q)
    BY <1>6, <1>7 DEF SteerLookup, SteerReturn, SteerAbandon, runVars, inputVars, batchVars
  <1>8. ASSUME NEW i \in Inputs, (i \in Steers /\ SteerAdmit(i)) \/ (i \in Messages /\ ReceiveAdmit(i))
        PROVE  GoesOn(q)
    <2> DEFINE r == target[i]
    <2>1. UNCHANGED <<pc, kind, faulty, steering>> /\ r \in Runs
      BY <1>8 DEF SteerAdmit, ReceiveAdmit, runVars, batchVars
    <2>2. \/ UNCHANGED <<pending, admitted>>
          \/ /\ pending' = [pending EXCEPT ![r] = Append(@, i)]
             /\ admitted' = [admitted EXCEPT ![r] = Append(@, i)]
      BY <1>8 DEF SteerAdmit, ReceiveAdmit
    <2>3. CASE UNCHANGED <<pending, admitted>> \/ q # r
      BY <2>1, <2>2, <2>3, LeftAlone DEF KeepsPace
    <2>4. CASE ~UNCHANGED <<pending, admitted>> /\ q = r
      <3>1. pending'[q] = Append(pending[q], i) /\ admitted'[q] = Append(admitted[q], i)
        BY <2>1, <2>2, <2>4
      <3>2. KeepsPace(q)
        BY <3>1 DEF KeepsPace
      <3>3. QED
        BY <2>1, <3>2, LeftAlone
    <2>5. QED
      BY <2>3, <2>4
  <1>9. CASE \/ \E m \in Messages : ReceiveLookup(m)
             \/ \E r \in Runs : ContextCancelled(r)
             \/ CloseBegin \/ CloseReturn \/ UNCHANGED vars
    BY <1>6, <1>9 DEF ReceiveLookup, ContextCancelled, CloseBegin, CloseReturn, vars, runVars, inputVars, batchVars, callVars
  <1> HIDE DEF TypeOK, RunsTyped, InputsTyped, BatchesTyped, CallsTyped, Goto, GotoWith
  <1>10. ASSUME NEW j \in Steers, SteerAdmit(j) PROVE GoesOn(q)
    <2>1. j \in Inputs
      BY DEF Inputs
    <2>2. QED
      BY <1>8, <1>10, <2>1
  <1>11. ASSUME NEW m \in Messages, ReceiveAdmit(m) PROVE GoesOn(q)
    BY <1>8, <1>11 DEF Inputs
  <1>12. QED
    BY <1>1, <1>2, <1>3, <1>4, <1>5, <1>7, <1>9, <1>10, <1>11 DEF Next, RunStep

-----------------------------------------------------------------------------
(* What is recorded and admitted only grows *)

LEMMA LedgerShape ==
  ASSUME TypeOK, NEW s \in Sessions
  PROVE  /\ ledger[s] \in Seq(Entries) /\ Len(ledger[s]) \in Nat
         /\ DOMAIN ledger[s] = 1..Len(ledger[s])
  BY DEF TypeOK

LEMMA AdmittedGrows ==
  ASSUME TypeOK, AtHome, [Next]_vars, NEW r \in Runs
  PROVE  /\ \A k \in DOMAIN admitted[r] : k \in DOMAIN admitted'[r] /\ admitted'[r][k] = admitted[r][k]
         /\ steering[r] # "open" => admitted'[r] = admitted[r]
  <1>1. admitted \in [Runs -> Seq(Inputs)]
    BY DEF TypeOK, CallsTyped
  <1>2. ASSUME NEW q \in Runs, NEW x \in Inputs, Admits(q, x)
        PROVE  /\ \A k \in DOMAIN admitted[r] : k \in DOMAIN admitted'[r] /\ admitted'[r][k] = admitted[r][k]
               /\ steering[r] # "open" => admitted'[r] = admitted[r]
    <2>1. CASE q = r
      <3>1. steering[r] = "open" /\ admitted'[r] = Append(admitted[r], x) /\ admitted[r] \in Seq(Inputs)
        BY <1>1, <1>2, <2>1 DEF Admits
      <3>2. QED
        BY <3>1
    <2>2. CASE q # r
      BY <1>1, <1>2, <2>2 DEF Admits
    <2>3. QED
      BY <2>1, <2>2
  <1>3. UNCHANGED admitted \/ \E q \in Runs : \E x \in Inputs : Admits(q, x)
    BY WhoHolds DEF Rests, Drops, Opens, CheckpointCommit, callVars
  <1>4. QED
    BY <1>2, <1>3

(* CommittedInOrder, at two places of a ledger. *)
InPlace(s, p, k) ==
  (p < k /\ ledger[s][p].run = ledger[s][k].run /\ ledger[s][p].item \in {"prompt", "summary"}) =>
    /\ k - p \in DOMAIN admitted[ledger[s][k].run]
    /\ ledger[s][k].item = admitted[ledger[s][k].run][k - p]

LEMMA InPlaces ==
  CommittedInOrder <=> \A s \in Sessions : \A p, k \in DOMAIN ledger[s] : InPlace(s, p, k)
  BY DEF CommittedInOrder, InPlace

LEMMA OldStayInPlace ==
  ASSUME TypeOK, AtHome, CommittedInOrder, [Next]_vars,
         NEW s \in Sessions, NEW p \in DOMAIN ledger[s], NEW k \in DOMAIN ledger[s]
  PROVE  InPlace(s, p, k)'
  <1>1. InPlace(s, p, k)
    BY InPlaces
  <1>2. ledger'[s][p] = ledger[s][p] /\ ledger'[s][k] = ledger[s][k]
    BY LedgersGrow
  <1>3. ledger[s][k].run \in Runs
    <2>1. ledger[s][k] \in Entries
      BY LedgerShape
    <2>2. QED
      BY <2>1 DEF Entries
  <1>4. QED
    BY <1>1, <1>2, <1>3, AdmittedGrows DEF InPlace

-----------------------------------------------------------------------------
(* Runs that do not record *)

LEMMA PaceKeepsFollows ==
  ASSUME TypeOK, NEW r \in Runs, Follows(r), KeepsPace(r), ledger'[Home[r]] = ledger[Home[r]]
  PROVE  Follows(r)'
  <1>1. PICK p \in DOMAIN ledger[Home[r]] : FollowsFrom(r, p)
    BY DEF Follows
  <1> DEFINE n == Len(ledger[Home[r]]) - p
             old == admitted[r]
             held == pending[r]
  <1>2. /\ n \in Nat /\ held \in Seq(Inputs) /\ old \in Seq(Inputs)
        /\ Len(old) = n + Len(held) /\ \A j \in 1..Len(held) : held[j] = old[n + j]
    BY <1>1, LedgerShape, RunnerAssumption DEF FollowsFrom, TypeOK, InputsTyped, CallsTyped
  <1>3. CASE pending'[r] = pending[r] /\ admitted'[r] = admitted[r]
    BY <1>1, <1>3 DEF Follows, FollowsFrom
  <1>4. ASSUME NEW x \in Inputs, pending'[r] = Append(held, x), admitted'[r] = Append(old, x)
        PROVE  Follows(r)'
    <2> HIDE DEF n, old, held
    <2>1. /\ Len(Append(held, x)) = Len(held) + 1 /\ Len(Append(old, x)) = Len(old) + 1
          /\ \A j \in 1..Len(held) : Append(held, x)[j] = held[j]
          /\ Append(held, x)[Len(held) + 1] = x
          /\ \A j \in 1..Len(old) : Append(old, x)[j] = old[j]
          /\ Append(old, x)[Len(old) + 1] = x
      BY <1>2
    <2>2. Len(held) \in Nat /\ Len(old) \in Nat
      BY <1>2
    <2>3. ASSUME NEW j \in 1..(Len(held) + 1)
          PROVE  Append(held, x)[j] = Append(old, x)[n + j]
      <3>1. CASE j = Len(held) + 1
        <4>1. n + j = Len(old) + 1
          BY <1>2, <2>2, <3>1
        <4>2. QED
          BY <2>1, <3>1, <4>1
      <3>2. CASE j # Len(held) + 1
        <4>1. j \in 1..Len(held) /\ n + j \in 1..Len(old)
          BY <1>2, <2>2, <3>2
        <4>2. QED
          BY <1>2, <2>1, <4>1
      <3>3. QED
        BY <3>1, <3>2
    <2>4. Len(Append(old, x)) = n + Len(Append(held, x))
      BY <1>2, <2>1, <2>2
    <2>5. FollowsFrom(r, p)'
      BY <1>1, <1>4, <2>1, <2>3, <2>4 DEF FollowsFrom, n
    <2>6. QED
      BY <1>1, <2>5 DEF Follows
  <1>5. QED
    BY <1>3, <1>4 DEF KeepsPace

(* Admission opens behind the prompt, with nothing admitted yet. *)
LEMMA OpenedFollows ==
  ASSUME TypeOK, NEW r \in Runs, AtPrompt(r)', pending'[r] = <<>>, admitted'[r] = <<>>, TypeOK'
  PROVE  Follows(r)'
  <1>1. ledger'[Home[r]] \in Seq(Entries)
    BY RunnerAssumption DEF TypeOK
  <1>2. PICK p \in DOMAIN ledger'[Home[r]] : p = Len(ledger'[Home[r]])
    BY <1>1 DEF AtPrompt
  <1>3. p \in Nat /\ p - p = 0
    BY <1>1, <1>2
  <1>4. FollowsFrom(r, p)'
    BY <1>2, <1>3 DEF AtPrompt, FollowsFrom
  <1>5. QED
    BY <1>4 DEF Follows

(* What holds of a run whose ledger does not change. *)
LEMMA StaysOrdered ==
  ASSUME TypeOK, TypeOK', AtHome, NothingStranded, Closed, [Next]_vars,
         NEW r \in Runs, Ordered(r), ledger'[Home[r]] = ledger[Home[r]], ~CheckpointCommit(r)
  PROVE  Ordered(r)'
  <1>1. GoesOn(r)
    BY RunsGoOn
  <1>2. Young(r) => steering[r] # "open" /\ pending[r] = <<>> /\ admitted'[r] = <<>>
    BY AdmittedGrows DEF Young, NothingStranded, Ordered, Prompts
  <1>3. ~(pc[r] = "append" /\ ledger' = [ledger EXCEPT ![Home[r]] = Append(@, Entry(r, "prompt"))])
    <2> SUFFICES ASSUME ledger' = [ledger EXCEPT ![Home[r]] = Append(@, Entry(r, "prompt"))] PROVE FALSE
      OBVIOUS
    <2>1. Len(ledger'[Home[r]]) = Len(ledger[Home[r]]) + 1
      BY OpeningExtends
    <2>2. Len(ledger[Home[r]]) \in Nat
      BY LedgerShape, RunnerAssumption
    <2>3. QED
      BY <2>1, <2>2
  <1>4. Prompts(r)'
    BY <1>1, <1>2, <1>3 DEF GoesOn, Ordered, Prompts, Nothing, AtPrompt
  <1>5. ASSUME Taking(r)' PROVE Follows(r)'
    <2>1. CASE Taking(r) /\ KeepsPace(r)
      BY <2>1, PaceKeepsFollows DEF Ordered
    <2>2. CASE Young(r) /\ Prompted(r) /\ UNCHANGED <<pending, admitted>>
      <3>1. AtPrompt(r)'
        BY <2>2 DEF Ordered, Prompts, AtPrompt
      <3>2. QED
        BY <1>2, <2>2, <3>1, OpenedFollows
    <2>3. QED
      BY <1>1, <1>5, <2>1, <2>2 DEF GoesOn
  <1>6. QED
    BY <1>4, <1>5 DEF Ordered

(* Other runs while one records. *)
LEMMA OthersStayOrdered ==
  ASSUME TypeOK, TypeOK', AtHome, OneActiveRun, NothingStranded, Closed, [Next]_vars,
         NEW r \in Runs, Active(r), Extends(r),
         NEW q \in Runs \ {r}, Ordered(q), ~CheckpointCommit(q)
  PROVE  Ordered(q)'
  <1>1. CASE Active(q)
    <2>1. Home[q] \in Sessions \ {Home[r]}
      BY <1>1, RunnerAssumption DEF OneActiveRun
    <2>2. ledger'[Home[q]] = ledger[Home[q]]
      BY <2>1 DEF Extends
    <2>3. QED
      BY <2>2, StaysOrdered
  <1>2. CASE ~Active(q)
    <2>1. GoesOn(q)
      BY RunsGoOn
    <2>2. ~Prompted(q) /\ ~Taking(q) /\ pc[q] # "append"
      BY <1>2 DEF Active, Prompted, Taking, NothingStranded
    <2>3. Young(q)' => admitted'[q] = <<>>
      BY <2>1, AdmittedGrows DEF GoesOn, Young, NothingStranded, Ordered, Prompts
    <2>4. ASSUME Nothing(q), NEW k \in DOMAIN ledger'[Home[q]] PROVE ledger'[Home[q]][k].run # q
      <3>1. CASE Home[q] # Home[r]
        <4>1. ledger'[Home[q]] = ledger[Home[q]]
          BY <3>1, RunnerAssumption DEF Extends
        <4>2. QED
          BY <2>4, <4>1 DEF Nothing
      <3>2. CASE Home[q] = Home[r]
        <4>1. /\ DOMAIN ledger[Home[r]] = 1..Len(ledger[Home[r]]) /\ Len(ledger[Home[r]]) \in Nat
              /\ DOMAIN ledger'[Home[r]] = 1..Len(ledger'[Home[r]]) /\ Len(ledger'[Home[r]]) \in Nat
          BY RunnerAssumption DEF TypeOK
        <4>2. CASE k \in 1..Len(ledger[Home[r]])
          BY <2>4, <3>2, <4>1, <4>2 DEF Nothing, Extends
        <4>3. CASE k \notin 1..Len(ledger[Home[r]])
          <5>1. k \in (Len(ledger[Home[r]]) + 1)..Len(ledger'[Home[r]])
            BY <2>4, <3>2, <4>1, <4>3
          <5>2. QED
            BY <3>2, <5>1 DEF Extends
        <4>4. QED
          BY <4>2, <4>3
      <3>3. QED
        BY <3>1, <3>2
    <2>5. Prompts(q)'
      BY <2>1, <2>2, <2>3, <2>4 DEF GoesOn, Ordered, Prompts, Nothing
    <2>6. ~Taking(q)'
      BY <2>1, <2>2 DEF GoesOn
    <2>7. QED
      BY <2>5, <2>6 DEF Ordered
  <1>3. QED
    BY <1>1, <1>2

-----------------------------------------------------------------------------
(* A run that records *)

(* Behind an opening nothing is out of place, because the run that records *)
(* it has recorded nothing yet.                                            *)
LEMMA OpeningInOrder ==
  ASSUME TypeOK, TypeOK', AtHome, OneActiveRun, NothingStranded, Closed, InOrder, [Next]_vars,
         NEW r \in Runs, NEW x \in {"prompt", "summary"}, Nothing(r), Extends(r),
         Len(ledger'[Home[r]]) = Len(ledger[Home[r]]) + 1
  PROVE  CommittedInOrder'
  <1>1. /\ DOMAIN ledger[Home[r]] = 1..Len(ledger[Home[r]]) /\ Len(ledger[Home[r]]) \in Nat
        /\ DOMAIN ledger'[Home[r]] = 1..(Len(ledger[Home[r]]) + 1)
    BY RunnerAssumption DEF TypeOK
  <1>2. ASSUME NEW s \in Sessions, NEW p \in DOMAIN ledger'[s], NEW k \in DOMAIN ledger'[s]
        PROVE  InPlace(s, p, k)'
    <2>1. CASE s # Home[r]
      <3>1. ledger'[s] = ledger[s]
        BY <2>1 DEF Extends
      <3>2. QED
        BY <3>1, OldStayInPlace DEF InOrder
    <2>2. CASE s = Home[r] /\ p \in 1..Len(ledger[s]) /\ k \in 1..Len(ledger[s])
      BY <1>1, <2>2, OldStayInPlace DEF InOrder
    <2>3. CASE s = Home[r] /\ k \notin 1..Len(ledger[s])
      <3>1. k = Len(ledger[s]) + 1 /\ ledger'[s][k].run = r
        BY <1>1, <1>2, <2>3 DEF Extends
      <3>2. ASSUME p < k PROVE ledger'[s][p].run # r
        <4>1. p \in 1..Len(ledger[s])
          BY <1>1, <1>2, <2>3, <3>1, <3>2
        <4>2. QED
          BY <1>1, <2>3, <4>1 DEF Extends, Nothing
      <3>3. QED
        BY <3>1, <3>2 DEF InPlace
    <2>4. CASE s = Home[r] /\ p \notin 1..Len(ledger[s]) /\ k \in 1..Len(ledger[s])
      <3>1. ~(p < k)
        BY <1>1, <1>2, <2>4
      <3>2. QED
        BY <3>1 DEF InPlace
    <2>5. QED
      BY <2>1, <2>2, <2>3, <2>4
  <1>3. QED
    BY <1>2, InPlaces DEF InPlace, CommittedInOrder

LEMMA OpeningKeepsOrder ==
  ASSUME TypeOK, TypeOK', AtHome, OneActiveRun, NothingStranded, Closed, InOrder, [Next]_vars,
         NEW r \in Runs, NEW x \in {"prompt", "summary"},
         ledger' = [ledger EXCEPT ![Home[r]] = Append(@, Entry(r, x))],
         (AppendPrompt(r) /\ x = "prompt") \/ CompactReturn(r)
  PROVE  InOrder'
  <1>1. Extends(r) /\ Len(ledger'[Home[r]]) = Len(ledger[Home[r]]) + 1
        /\ ledger'[Home[r]][Len(ledger[Home[r]]) + 1] = Entry(r, x)
    BY OpeningExtends
  <1>2. /\ pc[r] \in {"append", "compacting"} /\ kind' = kind
        /\ \A q \in Runs \ {r} : pc'[q] = pc[q]
        /\ pc[r] = "append" => pc'[r] \in {"record", "finish"} /\ x = "prompt"
        /\ pc[r] = "compacting" => pc'[r] = "save"
    BY DEF AppendPrompt, CompactReturn, Goto, GotoWith, TypeOK, RunsTyped
  <1>3. Active(r) /\ Before(r) /\ ~Prompted(r) /\ steering[r] # "open" /\ Ordered(r) /\ Nothing(r)
    BY <1>2 DEF Active, Before, Prompted, NothingStranded, Closed, InOrder, Ordered, Prompts
  <1>4. CommittedInOrder'
    BY <1>1, <1>3, OpeningInOrder
  <1>5. ASSUME NEW q \in Runs \ {r} PROVE Ordered(q)'
    <2>1. ~CheckpointCommit(q)
      BY <1>2 DEF CheckpointCommit, Goto, TypeOK, RunsTyped
    <2>2. QED
      BY <1>1, <1>3, <2>1, OthersStayOrdered DEF InOrder
  <1>6. GoesOn(r)
    BY RunsGoOn
  <1>7. ~Taking(r)'
    BY <1>3, <1>6 DEF GoesOn, Taking
  <1>8. ~Before(r)'
    <2>1. pc[r] = "append" => kind[r] = "turn"
      BY <1>3 DEF Ordered, Prompts
    <2>2. QED
      BY <1>2, <2>1 DEF Before
  <1>9. Young(r)' => admitted'[r] = <<>>
    BY <1>3, <1>6, AdmittedGrows DEF GoesOn, Ordered, Prompts
  <1>10. Prompted(r)' => AtPrompt(r)'
    <2> SUFFICES ASSUME Prompted(r)' PROVE AtPrompt(r)'
      OBVIOUS
    <2>1. x = "prompt"
      BY <1>2 DEF Prompted
    <2>2. ledger[Home[r]] \in Seq(Entries) /\ ledger'[Home[r]] \in Seq(Entries)
      BY RunnerAssumption DEF TypeOK
    <2>3. QED
      BY <1>1, <2>1, <2>2 DEF AtPrompt
  <1>11. (pc[r] = "append")' => (kind[r] = "turn")'
    BY <1>2
  <1>12. QED
    BY <1>4, <1>5, <1>7, <1>8, <1>9, <1>10, <1>11 DEF InOrder, Ordered, Prompts

(* A run has one opening: a second one would be one of its inputs. *)
LEMMA OneOpening ==
  ASSUME TypeOK, CommittedInOrder, NEW r \in Runs,
         NEW p \in DOMAIN ledger[Home[r]], NEW q \in DOMAIN ledger[Home[r]],
         ledger[Home[r]][p].run = r, ledger[Home[r]][p].item \in {"prompt", "summary"},
         ledger[Home[r]][q].run = r, ledger[Home[r]][q].item \in {"prompt", "summary"}
  PROVE  p = q
  <1>1. ASSUME NEW a \in DOMAIN ledger[Home[r]], NEW b \in DOMAIN ledger[Home[r]], a < b,
               ledger[Home[r]][a].run = r, ledger[Home[r]][a].item \in {"prompt", "summary"},
               ledger[Home[r]][b].run = r
        PROVE  ledger[Home[r]][b].item \in Inputs
    <2>1. InPlace(Home[r], a, b)
      BY InPlaces, RunnerAssumption
    <2>2. b - a \in DOMAIN admitted[r] /\ ledger[Home[r]][b].item = admitted[r][b - a]
      BY <1>1, <2>1 DEF InPlace
    <2>3. admitted[r] \in Seq(Inputs)
      BY DEF TypeOK, CallsTyped
    <2>4. QED
      BY <2>2, <2>3
  <1>2. p \in Nat /\ q \in Nat
    BY LedgerShape, RunnerAssumption
  <1>3. ~(p < q) /\ ~(q < p)
    BY <1>1, RunnerAssumption
  <1>4. QED
    BY <1>2, <1>3

(* What a checkpoint records is what was admitted next. *)
LEMMA CommitInOrder ==
  ASSUME TypeOK, TypeOK', AtHome, NothingStranded, InOrder, [Next]_vars,
         NEW r \in Runs, CheckpointCommit(r)
  PROVE  CommittedInOrder' /\ (Taking(r)' => Follows(r)')
  <1> DEFINE home == Home[r]
             size == Len(ledger[home])
             n == good'[r]
             held == pending[r]
  <1>1. /\ Extends(r) /\ n \in 0..Len(held) /\ Len(ledger'[home]) = size + n
        /\ \A k \in 1..n : ledger'[home][size + k] = Entry(r, held[k])
    BY CommitExtends
  <1>2. /\ home \in Sessions /\ size \in Nat /\ n \in Nat
        /\ DOMAIN ledger[home] = 1..size /\ DOMAIN ledger'[home] = 1..(size + n)
        /\ held \in Seq(Inputs) /\ Len(held) \in Nat
        /\ admitted[r] \in Seq(Inputs) /\ UNCHANGED admitted
    BY <1>1, RunnerAssumption DEF TypeOK, InputsTyped, CallsTyped, CheckpointCommit, callVars
  <1>3. Taking(r)
    BY DEF CheckpointCommit, NothingStranded, Taking
  <1>4. PICK p0 \in DOMAIN ledger[home] : FollowsFrom(r, p0)
    BY <1>3 DEF InOrder, Ordered, Follows
  <1>5. /\ p0 \in 1..size /\ ledger[home][p0].run = r /\ ledger[home][p0].item = "prompt"
        /\ Len(admitted[r]) = size - p0 + Len(held)
        /\ \A j \in 1..Len(held) : held[j] = admitted[r][size - p0 + j]
        /\ ledger'[home][p0] = Entry(r, "prompt")
    <2>1. ledger[home][p0] = Entry(r, "prompt") /\ ledger'[home][p0] = ledger[home][p0]
      BY <1>1, <1>2, <1>4 DEF FollowsFrom, Extends
    <2>2. Entry(r, "prompt").run = r /\ Entry(r, "prompt").item = "prompt"
      BY DEF Entry
    <2>3. QED
      BY <1>2, <1>4, <2>1, <2>2 DEF FollowsFrom
  <1>6. \A x : Entry(r, x).run = r /\ Entry(r, x).item = x
    BY DEF Entry
  <1>7. \A a, b \in Nat : \A k \in 1..(a + b) : k \in 1..a \/ (k - a \in 1..b /\ k = a + (k - a) /\ a < k)
    OBVIOUS
  <1> HIDE DEF size, n, held
  <1>8. ASSUME NEW k \in DOMAIN ledger'[home], k \notin 1..size
        PROVE  /\ k - size \in 1..n /\ k = size + (k - size) /\ size < k
               /\ k - size \in 1..Len(held)
               /\ ledger'[home][k].run = r /\ ledger'[home][k].item = held[k - size]
               /\ ledger'[home][k].item \in Inputs
    <2>1. k - size \in 1..n /\ k = size + (k - size) /\ size < k
      BY <1>2, <1>7, <1>8
    <2>2. k - size \in 1..Len(held)
      BY <1>1, <1>2, <2>1
    <2>3. ledger'[home][k] = Entry(r, held[k - size])
      BY <1>1, <2>1
    <2>4. held[k - size] \in Inputs
      BY <1>2, <2>2
    <2>5. QED
      BY <1>6, <2>1, <2>2, <2>3, <2>4
  <1>9. ASSUME NEW s \in Sessions, NEW p \in DOMAIN ledger'[s], NEW k \in DOMAIN ledger'[s]
        PROVE  InPlace(s, p, k)'
    <2>1. CASE s # home
      <3>1. ledger'[s] = ledger[s]
        BY <1>1, <2>1 DEF Extends
      <3>2. QED
        BY <3>1, OldStayInPlace DEF InOrder
    <2>2. CASE s = home /\ p \in 1..size /\ k \in 1..size
      BY <1>2, <2>2, OldStayInPlace DEF InOrder
    <2>3. CASE s = home /\ p \notin 1..size
      <3>1. ledger'[s][p].item \notin {"prompt", "summary"}
        BY <1>8, <1>9, <2>3, RunnerAssumption
      <3>2. QED
        BY <3>1 DEF InPlace
    <2>4. CASE s = home /\ p \in 1..size /\ k \notin 1..size
      <3>1. ledger'[s][k].run = r /\ ledger'[s][k].item = held[k - size] /\ k - size \in 1..Len(held)
            /\ k = size + (k - size)
        BY <1>8, <1>9, <2>4
      <3>2. SUFFICES ASSUME ledger'[s][p].run = r, ledger'[s][p].item \in {"prompt", "summary"}
                     PROVE  /\ k - p \in DOMAIN admitted[r]
                            /\ held[k - size] = admitted[r][k - p]
        BY <1>2, <3>1 DEF InPlace
      <3>3. ledger[home][p].run = r /\ ledger[home][p].item \in {"prompt", "summary"}
        BY <1>1, <2>4, <3>2 DEF Extends, size
      <3>4. p = p0
        BY <1>2, <1>4, <1>5, <2>4, <3>3, OneOpening DEF InOrder
      <3>5. \A j \in 1..Len(held) : size - p0 + j \in 1..(size - p0 + Len(held))
        BY <1>2, <1>5
      <3>6. size - p0 + (k - size) = k - p0
        BY <1>2, <1>5, <3>1
      <3>7. DOMAIN admitted[r] = 1..(size - p0 + Len(held))
        BY <1>2, <1>5
      <3>8. QED
        BY <1>5, <3>1, <3>4, <3>5, <3>6, <3>7
    <2>5. QED
      BY <2>1, <2>2, <2>3, <2>4
  <1>10. CommittedInOrder'
    BY <1>9, InPlaces DEF InPlace, CommittedInOrder
  <1>11. ASSUME Taking(r)' PROVE Follows(r)'
    <2>1. n = Len(held)
      <3>1. pc'[r] = "answer" /\ faulty'[r] = (n < Len(held))
        BY <1>2 DEF CheckpointCommit, Goto, TypeOK, RunsTyped, BatchesTyped, n, held
      <3>2. ~(n < Len(held))
        BY <1>11, <3>1 DEF Taking
      <3>3. QED
        BY <1>1, <1>2, <3>2
    <2>2. pending'[r] = <<>> /\ Len(pending'[r]) = 0
      BY DEF CheckpointCommit, TypeOK, InputsTyped
    <2>3. Len(admitted'[r]) = Len(ledger'[home]) - p0 + 0
      BY <1>1, <1>2, <1>5, <2>1
    <2>4. p0 \in DOMAIN ledger'[home]
      BY <1>2, <1>5
    <2>5. FollowsFrom(r, p0)'
      BY <1>5, <2>2, <2>3 DEF FollowsFrom
    <2>6. QED
      BY <2>4, <2>5 DEF Follows
  <1>12. QED
    BY <1>10, <1>11

LEMMA CommitKeepsOrder ==
  ASSUME TypeOK, TypeOK', AtHome, OneActiveRun, NothingStranded, Closed, InOrder, [Next]_vars,
         NEW r \in Runs, CheckpointCommit(r)
  PROVE  InOrder'
  <1>1. /\ Active(r) /\ Extends(r) /\ pc'[r] = "answer" /\ pc[r] # "answer"
        /\ \A q \in Runs \ {r} : pc'[q] = pc[q]
    BY CommitExtends DEF CheckpointCommit, Goto, Active, TypeOK, RunsTyped
  <1>2. ASSUME NEW q \in Runs \ {r} PROVE Ordered(q)'
    <2>1. ~CheckpointCommit(q)
      BY <1>1 DEF CheckpointCommit, Goto, TypeOK, RunsTyped
    <2>2. QED
      BY <1>1, <2>1, OthersStayOrdered DEF InOrder
  <1>3. Prompts(r)'
    BY <1>1 DEF Prompts, Before, Young, Prompted
  <1>4. QED
    BY <1>2, <1>3, CommitInOrder DEF InOrder, Ordered

LEMMA InOrderKept ==
  TypeOK /\ TypeOK' /\ AtHome /\ OneActiveRun /\ NothingStranded /\ Closed /\ InOrder /\ [Next]_vars => InOrder'
  <1> SUFFICES ASSUME TypeOK, TypeOK', AtHome, OneActiveRun, NothingStranded, Closed, InOrder, [Next]_vars
               PROVE  InOrder'
    OBVIOUS
  <1>1. ASSUME NEW r \in Runs, CheckpointCommit(r) PROVE InOrder'
    BY <1>1, CommitKeepsOrder
  <1>2. ASSUME NEW r \in Runs, NEW x \in {"prompt", "summary"},
               ledger' = [ledger EXCEPT ![Home[r]] = Append(@, Entry(r, x))],
               (AppendPrompt(r) /\ x = "prompt") \/ CompactReturn(r)
        PROVE  InOrder'
    BY <1>2, OpeningKeepsOrder
  <1>3. ASSUME UNCHANGED ledger, \A r \in Runs : ~CheckpointCommit(r) PROVE InOrder'
    <2>1. \A r \in Runs : Ordered(r)'
      BY <1>3, StaysOrdered DEF InOrder
    <2>2. \A s \in Sessions : \A p, k \in DOMAIN ledger[s] : InPlace(s, p, k)'
      BY OldStayInPlace DEF InOrder
    <2>3. CommittedInOrder'
      BY <1>3, <2>2 DEF InPlace, CommittedInOrder
    <2>4. QED
      BY <2>1, <2>3 DEF InOrder
  <1>4. QED
    BY <1>1, <1>2, <1>3, WhoWrites

-----------------------------------------------------------------------------
(* Clients show what they said in the order in which they said it, and a   *)
(* model reads it so: what is recorded of a run's inputs is a prefix of    *)
(* what it admitted, whatever fails, and nothing is recorded twice         *)
(* (steer.go:142-206, collaboration.go:24-58).                             *)
THEOREM RecordedInOrderHolds == Spec => []RecordedInOrder
  <1>1. Init => InOrder /\ Closed
    BY RunnerAssumption DEF Init, InOrder, CommittedInOrder, Ordered, Prompts, Before, Young, Prompted, Taking,
       Nothing, Closed
  <1>2. InOrder => CommittedInOrder
    BY DEF InOrder
  <1>3. QED
    BY <1>1, <1>2, InOrderKept, ClosedKept, FreshHolds, TypeCorrect, OneActiveRunHolds, NothingStrandedHolds,
       RecordedOnceHolds, PTL DEF Spec, RecordedInOrder
=============================================================================

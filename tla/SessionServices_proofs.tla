---------------------- MODULE SessionServices_proofs ------------------------
(***************************************************************************)
(* The properties that TLC checks of the components around a session, in   *)
(* the instances of MCServices, as theorems: a behaviour of a part is one  *)
(* of its component, and what is proved of the component for every value   *)
(* of its constants holds of the part.                                     *)
(***************************************************************************)
EXTENDS MCServices, TLAPS

(* A behaviour stays in its part, and takes the steps of that part. *)
LEMMA PartSteps ==
  [ServicesNext]_servicesVars =>
    /\ part' = part
    /\ part = "updates" => [UpdatesStep]_servicesVars
    /\ part = "reports" => [ReportsStep]_servicesVars
    /\ part = "agents" => [AgentsStep]_servicesVars
    /\ part = "reverts" => [RevertsStep]_servicesVars
    /\ part = "restarts" => [RestartsStep]_servicesVars
    /\ part = "between" => [BetweenStep]_servicesVars
    /\ part = "hooks" => [HooksStep]_servicesVars
    /\ part = "models" => [ModelsStep]_servicesVars
    /\ part = "handedits" => [HandEditsStep]_servicesVars
  BY DEF ServicesNext, servicesVars, UpdatesStep, RevertsStep, BetweenStep,
     ApprovalsStep, ToolsStep, McpStep, ConnectionsStep, WritesStep, FilesStep, DiffsStep,
     EditsStep, ProcessesStep, TerminalsStep, LoginsStep, WithdrawalsStep, ReportsStep,
     RestartsStep, AgentsStep, ModelsStep, HandEditsStep, HooksStep, UpdatesAlone, RevertsAlone,
     ApprovalsAlone, McpAlone, ConnectionsAlone, FilesAlone, DiffsAlone, ProcessesAlone,
     TerminalsAlone, LoginsAlone, ReportsAlone, RestartsAlone, AgentsAlone, ModelsAlone,
     HooksAlone

-----------------------------------------------------------------------------
(* Updates, Delivery and AgentSettings, with the constants of U, Y and G. *)
N1 == INSTANCE Sessions_proofs WITH
  Runs <- {r1, r2}, Reverts <- {v1, v2}, MaxUpdates <- 5, BufferLimit <- 2,
  DiskFaults <- TRUE, NoRun <- None, Tasks <- {t1}, MaxTurns <- 2, MaxRuns <- 2,
  MaxFaults <- 0, Agents <- {a0, a1, a2}, Default <- a0, Sessions <- {s1, s2, s3},
  MaxSaves <- 2, MaxNew <- 2, live <- x1, clock <- x2, seq <- x3, phase <- x4,
  saved <- x5, stage <- x6, outbox <- x7, copied <- x8, issued <- x9, sub <- x10,
  view <- x11, through <- x12, buffer <- x13, sent <- x14, turn <- x1, running <- x2,
  tracked <- x3, loop <- x4, loopWoken <- x5, scan <- x6, retry <- x7, confirmed <- x8,
  wait <- x9, waitWoken <- x10, runPhase <- x11, runNo <- x12, stopped <- x13,
  familyStopped <- x14, asked <- x15, due <- x16, inbox <- x17, ledger <- x18,
  faults <- x19, agents <- x1, chosen <- x2, source <- x3, list <- x4, save <- x5,
  delete <- x6, choose <- x7, fork <- x8, spawn <- x9, saves <- x10, begun <- x11,
  Workspaces <- 0, Pages <- 0, Checks <- 0, Versions <- 0, Unreadable <- 0,
  MaxEdits <- 0, Providers <- 0, Models <- 0, Protocols <- 0, Of <- 0,
  CatalogProtocol <- 0, Catalog <- 0, Formats <- 0, Editors <- 0, ModelRuns <- 0, global <- 0, project <- 0, trust <- 0, mu <- 0, page <- 0, check <- 0,
  forget <- 0, kept <- 0, mixed <- 0, edits <- 0, hookFaults <- 0, config <- 0, models <- 0, current <- 0,
  editMu <- 0, form <- 0, pinned <- 0, stale <- 0, byHand <- 0,
  settingSaves <- 0, handEdits <- 0, modelFaults <- 0

(* Two runs that number updates. *)
LEMMA UpdatesSame ==
  /\ U!Init => N1!U!Init
  /\ U!Next => N1!U!Next
  /\ N1!U!TypeOK => U!TypeOK
  /\ N1!U!ClockKept => U!ClockKept
  /\ N1!U!UpdatesInOrder => U!UpdatesInOrder
  BY DEF U!Init, U!Publishers, N1!U!Init, N1!U!Publishers, U!Begin, U!Boundary,
     U!FirstSeq, U!Flush, U!KeptClock, U!Leave, U!Listen, U!Listening, U!Next, U!Number,
     U!PublishCall, U!PublishCopy, U!PublisherStep, U!Reach, U!Receive, U!ReleaseRead,
     U!ReleaseWrite, U!RevertCheck, U!RevertStamp, U!RevertStore, U!Stamp, U!StampLost,
     U!StartListener, U!Update, U!View, U!listenerVars, U!publishVars, U!runnerVars,
     N1!U!Begin, N1!U!Boundary, N1!U!FirstSeq, N1!U!Flush, N1!U!KeptClock, N1!U!Leave,
     N1!U!Listen, N1!U!Listening, N1!U!Next, N1!U!Number, N1!U!PublishCall,
     N1!U!PublishCopy, N1!U!PublisherStep, N1!U!Reach, N1!U!Receive, N1!U!ReleaseRead,
     N1!U!ReleaseWrite, N1!U!RevertCheck, N1!U!RevertStamp, N1!U!RevertStore,
     N1!U!Stamp, N1!U!StampLost, N1!U!StartListener, N1!U!Update, N1!U!View,
     N1!U!listenerVars, N1!U!publishVars, N1!U!runnerVars, U!Cardinality,
     N1!U!Cardinality, U!TypeOK, N1!U!TypeOK, U!ClockKept, N1!U!ClockKept,
     U!UpdatesInOrder, N1!U!UpdatesInOrder, U!IsPrefix, N1!U!IsPrefix

LEMMA UpdatesKept ==
  ServicesSpec => [](part = "updates" => U!TypeOK /\ U!ClockKept /\ U!UpdatesInOrder)
<1> DEFINE Inv == N1!UpdateIInv
<1>1. N1!Distinct
      BY ServicesAssumption DEF N1!Distinct
<1>2. ServicesInit /\ part = "updates" => Inv
      BY <1>1, UpdatesSame, N1!UpdateInitIInv DEF ServicesInit
<1>3. [ServicesNext]_servicesVars /\ part = "updates" /\ Inv => (part = "updates")' /\ Inv'
  <2> SUFFICES ASSUME [ServicesNext]_servicesVars, part = "updates", Inv
               PROVE  (part = "updates")' /\ Inv'
      OBVIOUS
  <2>1. /\ part' = part /\ [N1!U!Next]_(N1!U!vars)
        /\ x6' = x6
        BY PartSteps, UpdatesSame DEF UpdatesStep, servicesVars, N1!U!listenerVars,
           N1!U!publishVars, N1!U!runnerVars, N1!U!vars
  <2>2. x6 \in [{v1, v2} -> {"idle", "checked", "refused", "stored", "done"}]
        BY DEF N1!UpdateIInv, N1!UpdateTypes, N1!U!TypeOK
  <2>3. \A v \in {v1, v2} : ~N1!U!RevertStamp(v)
        BY <2>1, <2>2 DEF N1!U!RevertStamp
  <2>4. N1!Calm
        BY <2>1, <2>3, N1!CalmUnlessReverted
  <2>. QED BY <1>1, <2>1, <2>4, N1!UpdateStepIInv
<1>4. Inv => U!TypeOK /\ U!ClockKept /\ U!UpdatesInOrder
      BY UpdatesSame, N1!ClockFromIInv, N1!OrderFromIInv DEF N1!UpdateIInv,
         N1!UpdateTypes
<1>5. [ServicesNext]_servicesVars /\ ~(part = "updates") => ~(part = "updates")'
      BY PartSteps
<1> HIDE DEF Inv
<1>. QED BY <1>2, <1>3, <1>4, <1>5, PTL DEF ServicesSpec

(* A task of two turns, and two runs of its parent. *)
LEMMA ReportsSame ==
  /\ Y!Init => N1!Y!Init
  /\ Y!Next => N1!Y!Next
  /\ N1!Y!TypeOK => Y!TypeOK
  /\ N1!Y!RecordedOnce => Y!RecordedOnce
  /\ N1!Y!StartsInformed => Y!StartsInformed
  /\ N1!Y!WaitMissesNothing => Y!WaitMissesNothing
  BY DEF Y!Idle, Y!Init, Y!NoScan, Y!Results, N1!Y!Idle, N1!Y!Init, N1!Y!NoScan,
     N1!Y!Results, Y!Again, Y!Checkpoint, Y!CheckpointFails, Y!ChildEnd, Y!ChildStart,
     Y!Commit, Y!Ended, Y!EndedOf, Y!FinalCheckpoint, Y!First, Y!Known, Y!Look,
     Y!LoopWake, Y!News, Y!Next, Y!Project, Y!Queue, Y!QueuedIs, Y!Restart, Y!RunEnd,
     Y!RunStart, Y!ScanBegin, Y!ScanEnd, Y!Signal, Y!SignalChange, Y!Sleep,
     Y!StartScans, Y!StartStopped, Y!Stop, Y!StopsHere, Y!Target, Y!TaskDone, Y!Told,
     Y!WaitInput, Y!WaitLook, Y!WaitReturn, Y!WaitSleep, Y!WaitStart, Y!WaitTimeout,
     Y!WaitWake, Y!Waits, Y!childVars, Y!parentVars, Y!scanVars, Y!waitVars, N1!Y!Again,
     N1!Y!Checkpoint, N1!Y!CheckpointFails, N1!Y!ChildEnd, N1!Y!ChildStart, N1!Y!Commit,
     N1!Y!Ended, N1!Y!EndedOf, N1!Y!FinalCheckpoint, N1!Y!First, N1!Y!Known, N1!Y!Look,
     N1!Y!LoopWake, N1!Y!News, N1!Y!Next, N1!Y!Project, N1!Y!Queue, N1!Y!QueuedIs,
     N1!Y!Restart, N1!Y!RunEnd, N1!Y!RunStart, N1!Y!ScanBegin, N1!Y!ScanEnd,
     N1!Y!Signal, N1!Y!SignalChange, N1!Y!Sleep, N1!Y!StartScans, N1!Y!StartStopped,
     N1!Y!Stop, N1!Y!StopsHere, N1!Y!Target, N1!Y!TaskDone, N1!Y!Told, N1!Y!WaitInput,
     N1!Y!WaitLook, N1!Y!WaitReturn, N1!Y!WaitSleep, N1!Y!WaitStart, N1!Y!WaitTimeout,
     N1!Y!WaitWake, N1!Y!Waits, N1!Y!childVars, N1!Y!parentVars, N1!Y!scanVars,
     N1!Y!waitVars, Y!TypeOK, N1!Y!TypeOK, Y!RecordedOnce, N1!Y!RecordedOnce,
     Y!StartsInformed, N1!Y!StartsInformed, Y!WaitMissesNothing, N1!Y!WaitMissesNothing

LEMMA ReportsAre == N1!DeliveryBounds
  BY DEF N1!DeliveryBounds

LEMMA ReportsKept ==
  ServicesSpec => [](part = "reports" => Y!TypeOK /\ Y!RecordedOnce /\ Y!StartsInformed /\ Y!WaitMissesNothing)
<1>1. ServicesInit /\ part = "reports" => N1!Y!Init
      BY ReportsSame DEF ServicesInit
<1>2. [ServicesNext]_servicesVars /\ part = "reports"
        => (part = "reports")' /\ [N1!Y!Next]_(N1!Y!deliveryVars)
      BY PartSteps, ReportsSame DEF ReportsStep, servicesVars, N1!Y!childVars,
         N1!Y!deliveryVars, N1!Y!parentVars, N1!Y!scanVars, N1!Y!waitVars
<1>3. [ServicesNext]_servicesVars /\ ~(part = "reports") => ~(part = "reports")'
      BY PartSteps
<1>. QED BY <1>1, <1>2, <1>3, ReportsSame, ReportsAre, N1!DeliveryTypeCorrect,
            N1!RecordedOnceHolds, N1!StartsInformedHolds, N1!WaitMissesNothingHolds, PTL
            DEF ServicesSpec, N1!DeliveryBehaviour

(* Three agents and three sessions. *)
LEMMA AgentsSame ==
  /\ G!Init => N1!G!Init
  /\ G!Next => N1!G!Next
  /\ N1!G!TypeOK => G!TypeOK
  /\ N1!G!ChoiceExists => G!ChoiceExists
  /\ N1!G!ListIsWhole => G!ListIsWhole
  BY DEF G!Idle, G!Init, N1!G!Idle, N1!G!Init, G!Alone, G!Busy, G!Call, G!Choose,
     G!Create, G!Delete, G!DeleteSession, G!Fork, G!Fresh, G!Get, G!Known, G!List,
     G!Next, G!PutChild, G!PutChoice, G!PutCopy, G!ReadAgent, G!ReadSettings, G!Remove,
     G!Save, G!SaveNew, G!Shared, G!Spawn, G!calls, N1!G!Alone, N1!G!Busy, N1!G!Call,
     N1!G!Choose, N1!G!Create, N1!G!Delete, N1!G!DeleteSession, N1!G!Fork, N1!G!Fresh,
     N1!G!Get, N1!G!Known, N1!G!List, N1!G!Next, N1!G!PutChild, N1!G!PutChoice,
     N1!G!PutCopy, N1!G!ReadAgent, N1!G!ReadSettings, N1!G!Remove, N1!G!Save,
     N1!G!SaveNew, N1!G!Shared, N1!G!Spawn, N1!G!calls, G!TypeOK, N1!G!TypeOK,
     G!ChoiceExists, G!Refers, N1!G!ChoiceExists, N1!G!Refers, G!ListIsWhole,
     N1!G!ListIsWhole

LEMMA AgentsAre == N1!AgentConstants
  BY DEF N1!AgentConstants

LEMMA AgentsKept ==
  ServicesSpec => [](part = "agents" => G!TypeOK /\ G!ChoiceExists /\ G!ListIsWhole)
<1>1. ServicesInit /\ part = "agents" => N1!G!Init
      BY AgentsSame DEF ServicesInit
<1>2. [ServicesNext]_servicesVars /\ part = "agents"
        => (part = "agents")' /\ [N1!G!Next]_(N1!G!agentVars)
      BY PartSteps, AgentsSame DEF AgentsStep, servicesVars, N1!G!agentVars, N1!G!calls
<1>3. [ServicesNext]_servicesVars /\ ~(part = "agents") => ~(part = "agents")'
      BY PartSteps
<1>. QED BY <1>1, <1>2, <1>3, AgentsSame, AgentsAre, N1!AgentsTypeCorrect,
            N1!ChoiceExistsHolds, N1!ListIsWholeHolds, PTL DEF ServicesSpec, N1!G!Spec

-----------------------------------------------------------------------------
(* Updates and Delivery, with the constants of R and Z. *)
N2 == INSTANCE Sessions_proofs WITH
  Runs <- {r1, r2}, Reverts <- {v1, v2}, MaxUpdates <- 4, BufferLimit <- 2,
  DiskFaults <- FALSE, NoRun <- None, Tasks <- {t1}, MaxTurns <- 1, MaxRuns <- 2,
  MaxFaults <- 2, live <- x1, clock <- x2, seq <- x3, phase <- x4, saved <- x5,
  stage <- x6, outbox <- x7, copied <- x8, issued <- x9, sub <- x10, view <- x11,
  through <- x12, buffer <- x13, sent <- x14, turn <- x1, running <- x2, tracked <- x3,
  loop <- x4, loopWoken <- x5, scan <- x6, retry <- x7, confirmed <- x8, wait <- x9,
  waitWoken <- x10, runPhase <- x11, runNo <- x12, stopped <- x13, familyStopped <- x14,
  asked <- x15, due <- x16, inbox <- x17, ledger <- x18, faults <- x19,
  Workspaces <- 0, Pages <- 0, Checks <- 0, Versions <- 0, Unreadable <- 0,
  MaxEdits <- 0, Agents <- 0, Default <- 0, Sessions <- 0, MaxSaves <- 0, MaxNew <- 0,
  Providers <- 0, Models <- 0, Protocols <- 0, Of <- 0, CatalogProtocol <- 0,
  Catalog <- 0, Formats <- 0, Editors <- 0, ModelRuns <- 0,
  global <- 0, project <- 0, trust <- 0, mu <- 0, page <- 0, check <- 0, forget <- 0,
  kept <- 0, mixed <- 0,
  edits <- 0, hookFaults <- 0, agents <- 0, chosen <- 0, source <- 0, list <- 0,
  save <- 0, delete <- 0, choose <- 0, fork <- 0, spawn <- 0, saves <- 0, begun <- 0,
  config <- 0, models <- 0, current <- 0, editMu <- 0, form <- 0, pinned <- 0,
  stale <- 0, byHand <- 0, settingSaves <- 0, handEdits <- 0, modelFaults <- 0

(* A run, and reverts after it. *)
LEMMA RevertsSame ==
  /\ R!Init => N2!U!Init
  /\ R!Next => N2!U!Next
  /\ N2!U!UpdatesInOrder => R!UpdatesInOrder
  /\ N2!U!QuietIsCaughtUp => R!QuietIsCaughtUp
  BY DEF R!Init, R!Publishers, N2!U!Init, N2!U!Publishers, R!Begin, R!Boundary,
     R!FirstSeq, R!Flush, R!KeptClock, R!Leave, R!Listen, R!Listening, R!Next, R!Number,
     R!PublishCall, R!PublishCopy, R!PublisherStep, R!Reach, R!Receive, R!ReleaseRead,
     R!ReleaseWrite, R!RevertCheck, R!RevertStamp, R!RevertStore, R!Stamp, R!StampLost,
     R!StartListener, R!Update, R!View, R!listenerVars, R!publishVars, R!runnerVars,
     N2!U!Begin, N2!U!Boundary, N2!U!FirstSeq, N2!U!Flush, N2!U!KeptClock, N2!U!Leave,
     N2!U!Listen, N2!U!Listening, N2!U!Next, N2!U!Number, N2!U!PublishCall,
     N2!U!PublishCopy, N2!U!PublisherStep, N2!U!Reach, N2!U!Receive, N2!U!ReleaseRead,
     N2!U!ReleaseWrite, N2!U!RevertCheck, N2!U!RevertStamp, N2!U!RevertStore,
     N2!U!Stamp, N2!U!StampLost, N2!U!StartListener, N2!U!Update, N2!U!View,
     N2!U!listenerVars, N2!U!publishVars, N2!U!runnerVars, R!Cardinality,
     N2!U!Cardinality, R!UpdatesInOrder, N2!U!UpdatesInOrder, R!IsPrefix, N2!U!IsPrefix,
     R!QuietIsCaughtUp, N2!U!QuietIsCaughtUp

LEMMA RevertsKept ==
  ServicesSpec => [](part = "reverts" => R!UpdatesInOrder /\ R!QuietIsCaughtUp)
<1> DEFINE Inv == N2!UpdateIInv /\ N2!UpdateOwed /\ N2!EndsAlone(r1)
<1>1. N2!Distinct
      BY ServicesAssumption DEF N2!Distinct
<1>2. ServicesInit /\ part = "reverts" => Inv
  <2> SUFFICES ASSUME N2!U!Init PROVE Inv
      BY RevertsSame DEF ServicesInit
  <2>1. N2!EndsAlone(r1)
        BY DEF N2!U!Init, N2!EndsAlone
  <2>. QED BY <1>1, <2>1, N2!UpdateInitIInv, N2!InitOwes
<1>3. [ServicesNext]_servicesVars /\ part = "reverts" /\ Inv => (part = "reverts")' /\ Inv'
  <2> SUFFICES ASSUME [ServicesNext]_servicesVars, part = "reverts", Inv
               PROVE  (part = "reverts")' /\ Inv'
      OBVIOUS
  <2>1. /\ part' = part /\ [N2!U!Next]_(N2!U!vars)
        /\ x4'[r2] = "new" \/ x4' = x4
        BY PartSteps, RevertsSame DEF RevertsStep, servicesVars, N2!U!listenerVars,
           N2!U!publishVars, N2!U!runnerVars, N2!U!vars
  <2>2. \A q \in {r1, r2} \ {r1} : x4'[q] # "freeing"
        BY <2>1 DEF N2!EndsAlone
  <2>3. N2!EndsAlone(r1)'
        BY <2>1, <2>2, N2!EndsAloneStep
  <2>4. N2!Calm
        BY <2>1, N2!EndsAloneIsCalm
  <2>. QED BY <1>1, <2>1, <2>3, <2>4, N2!UpdateStepIInv, N2!StepOwes
<1>4. Inv => R!UpdatesInOrder /\ R!QuietIsCaughtUp
      BY RevertsSame, N2!OrderFromIInv, N2!CaughtUpFromOwed DEF N2!UpdateIInv,
         N2!UpdateTypes
<1>5. [ServicesNext]_servicesVars /\ ~(part = "reverts") => ~(part = "reverts")'
      BY PartSteps
<1> HIDE DEF Inv
<1>. QED BY <1>2, <1>3, <1>4, <1>5, PTL DEF ServicesSpec

(* The same with failures and restarts. *)
LEMMA RestartsSame ==
  /\ Z!Init => N2!Y!Init
  /\ Z!Next => N2!Y!Next
  /\ N2!Y!TypeOK => Z!TypeOK
  /\ N2!Y!RecordedOnce => Z!RecordedOnce
  /\ N2!Y!StartsInformed => Z!StartsInformed
  BY DEF Z!Idle, Z!Init, Z!NoScan, Z!Results, N2!Y!Idle, N2!Y!Init, N2!Y!NoScan,
     N2!Y!Results, Z!Again, Z!Checkpoint, Z!CheckpointFails, Z!ChildEnd, Z!ChildStart,
     Z!Commit, Z!Ended, Z!EndedOf, Z!FinalCheckpoint, Z!First, Z!Known, Z!Look,
     Z!LoopWake, Z!News, Z!Next, Z!Project, Z!Queue, Z!QueuedIs, Z!Restart, Z!RunEnd,
     Z!RunStart, Z!ScanBegin, Z!ScanEnd, Z!Signal, Z!SignalChange, Z!Sleep,
     Z!StartScans, Z!StartStopped, Z!Stop, Z!StopsHere, Z!Target, Z!TaskDone, Z!Told,
     Z!WaitInput, Z!WaitLook, Z!WaitReturn, Z!WaitSleep, Z!WaitStart, Z!WaitTimeout,
     Z!WaitWake, Z!Waits, Z!childVars, Z!parentVars, Z!scanVars, Z!waitVars, N2!Y!Again,
     N2!Y!Checkpoint, N2!Y!CheckpointFails, N2!Y!ChildEnd, N2!Y!ChildStart, N2!Y!Commit,
     N2!Y!Ended, N2!Y!EndedOf, N2!Y!FinalCheckpoint, N2!Y!First, N2!Y!Known, N2!Y!Look,
     N2!Y!LoopWake, N2!Y!News, N2!Y!Next, N2!Y!Project, N2!Y!Queue, N2!Y!QueuedIs,
     N2!Y!Restart, N2!Y!RunEnd, N2!Y!RunStart, N2!Y!ScanBegin, N2!Y!ScanEnd,
     N2!Y!Signal, N2!Y!SignalChange, N2!Y!Sleep, N2!Y!StartScans, N2!Y!StartStopped,
     N2!Y!Stop, N2!Y!StopsHere, N2!Y!Target, N2!Y!TaskDone, N2!Y!Told, N2!Y!WaitInput,
     N2!Y!WaitLook, N2!Y!WaitReturn, N2!Y!WaitSleep, N2!Y!WaitStart, N2!Y!WaitTimeout,
     N2!Y!WaitWake, N2!Y!Waits, N2!Y!childVars, N2!Y!parentVars, N2!Y!scanVars,
     N2!Y!waitVars, Z!TypeOK, N2!Y!TypeOK, Z!RecordedOnce, N2!Y!RecordedOnce,
     Z!StartsInformed, N2!Y!StartsInformed

LEMMA RestartsAre == N2!DeliveryBounds
  BY DEF N2!DeliveryBounds

LEMMA RestartsKept ==
  ServicesSpec => [](part = "restarts" => Z!TypeOK /\ Z!RecordedOnce /\ Z!StartsInformed)
<1>1. ServicesInit /\ part = "restarts" => N2!Y!Init
      BY RestartsSame DEF ServicesInit
<1>2. [ServicesNext]_servicesVars /\ part = "restarts"
        => (part = "restarts")' /\ [N2!Y!Next]_(N2!Y!deliveryVars)
      BY PartSteps, RestartsSame DEF RestartsStep, servicesVars, N2!Y!childVars,
         N2!Y!deliveryVars, N2!Y!parentVars, N2!Y!scanVars, N2!Y!waitVars
<1>3. [ServicesNext]_servicesVars /\ ~(part = "restarts") => ~(part = "restarts")'
      BY PartSteps
<1>. QED BY <1>1, <1>2, <1>3, RestartsSame, RestartsAre, N2!DeliveryTypeCorrect,
            N2!RecordedOnceHolds, N2!StartsInformedHolds, PTL DEF ServicesSpec,
            N2!DeliveryBehaviour

-----------------------------------------------------------------------------
(* Updates, HookSettings and ModelSettings, with the constants of B, H and V. *)
N3 == INSTANCE Sessions_proofs WITH
  Runs <- {r1, r2}, Reverts <- {v1}, MaxUpdates <- 4, BufferLimit <- 2,
  DiskFaults <- FALSE, NoRun <- None, MaxFaults <- 1, Workspaces <- {w1, w2},
  Pages <- {e1, e2}, Checks <- {c1}, Versions <- {v1, v2, bad}, Unreadable <- {bad},
  MaxEdits <- 1, Providers <- {"p", "q"}, Models <- {m1, m2}, Protocols <- {a1, a2},
  Of <- Owner, CatalogProtocol <- Known, Catalog <- Presets, Formats <- {"q"},
  Editors <- {e1}, ModelRuns <- {r1}, MaxSaves <- 3, live <- x1, clock <- x2, seq <- x3,
  phase <- x4, saved <- x5, stage <- x6, outbox <- x7, copied <- x8, issued <- x9,
  sub <- x10, view <- x11, through <- x12, buffer <- x13, sent <- x14, global <- x1,
  project <- x2, trust <- x3, mu <- x4, page <- x5, check <- x6, forget <- x7,
  confirmed <- x8, kept <- x9, mixed <- x10, edits <- x11, hookFaults <- x12,
  config <- x1, models <- x2, current <- x3, editMu <- x4, form <- x5, pinned <- x6,
  stale <- x7, byHand <- x8, settingSaves <- x9, handEdits <- x10, modelFaults <- x11,
  Tasks <- 0, MaxTurns <- 0, MaxRuns <- 0, Agents <- 0, Default <- 0, Sessions <- 0,
  MaxNew <- 0, turn <- 0, running <- 0, tracked <- 0, loop <- 0, loopWoken <- 0,
  scan <- 0, retry <- 0, wait <- 0, waitWoken <- 0, runPhase <- 0, runNo <- 0,
  stopped <- 0, familyStopped <- 0, asked <- 0, due <- 0, inbox <- 0, ledger <- 0,
  faults <- 0, agents <- 0, chosen <- 0, source <- 0, list <- 0, save <- 0, delete <- 0,
  choose <- 0, fork <- 0, spawn <- 0, saves <- 0, begun <- 0

(* A revert while the session goes on to a run that does not end. *)
LEMMA BetweenSame ==
  /\ B!Init => N3!U!Init
  /\ B!Next => N3!U!Next
  /\ N3!U!TypeOK => B!TypeOK
  /\ N3!U!UpdatesInOrder => B!UpdatesInOrder
  /\ N3!U!QuietIsCaughtUp => B!QuietIsCaughtUp
  BY DEF B!Init, B!Publishers, N3!U!Init, N3!U!Publishers, B!Begin, B!Boundary,
     B!FirstSeq, B!Flush, B!KeptClock, B!Leave, B!Listen, B!Listening, B!Next, B!Number,
     B!PublishCall, B!PublishCopy, B!PublisherStep, B!Reach, B!Receive, B!ReleaseRead,
     B!ReleaseWrite, B!RevertCheck, B!RevertStamp, B!RevertStore, B!Stamp, B!StampLost,
     B!StartListener, B!Update, B!View, B!listenerVars, B!publishVars, B!runnerVars,
     N3!U!Begin, N3!U!Boundary, N3!U!FirstSeq, N3!U!Flush, N3!U!KeptClock, N3!U!Leave,
     N3!U!Listen, N3!U!Listening, N3!U!Next, N3!U!Number, N3!U!PublishCall,
     N3!U!PublishCopy, N3!U!PublisherStep, N3!U!Reach, N3!U!Receive, N3!U!ReleaseRead,
     N3!U!ReleaseWrite, N3!U!RevertCheck, N3!U!RevertStamp, N3!U!RevertStore,
     N3!U!Stamp, N3!U!StampLost, N3!U!StartListener, N3!U!Update, N3!U!View,
     N3!U!listenerVars, N3!U!publishVars, N3!U!runnerVars, B!Cardinality,
     N3!U!Cardinality, B!TypeOK, N3!U!TypeOK, B!UpdatesInOrder, N3!U!UpdatesInOrder,
     B!IsPrefix, N3!U!IsPrefix, B!QuietIsCaughtUp, N3!U!QuietIsCaughtUp

LEMMA BetweenKept ==
  ServicesSpec => [](part = "between" => B!TypeOK /\ B!UpdatesInOrder /\ B!QuietIsCaughtUp)
<1> DEFINE Inv == N3!UpdateIInv /\ N3!UpdateOwed /\ N3!EndsAlone(r1)
<1>1. N3!Distinct
      BY ServicesAssumption DEF N3!Distinct
<1>2. ServicesInit /\ part = "between" => Inv
  <2> SUFFICES ASSUME N3!U!Init PROVE Inv
      BY BetweenSame DEF ServicesInit
  <2>1. N3!EndsAlone(r1)
        BY DEF N3!U!Init, N3!EndsAlone
  <2>. QED BY <1>1, <2>1, N3!UpdateInitIInv, N3!InitOwes
<1>3. [ServicesNext]_servicesVars /\ part = "between" /\ Inv => (part = "between")' /\ Inv'
  <2> SUFFICES ASSUME [ServicesNext]_servicesVars, part = "between", Inv
               PROVE  (part = "between")' /\ Inv'
      OBVIOUS
  <2>1. /\ part' = part /\ [N3!U!Next]_(N3!U!vars)
        /\ x4'[r2] # "freeing" \/ x4' = x4
        BY PartSteps, BetweenSame DEF BetweenStep, servicesVars, N3!U!listenerVars,
           N3!U!publishVars, N3!U!runnerVars, N3!U!vars
  <2>2. \A q \in {r1, r2} \ {r1} : x4'[q] # "freeing"
        BY <2>1 DEF N3!EndsAlone
  <2>3. N3!EndsAlone(r1)'
        BY <2>1, <2>2, N3!EndsAloneStep
  <2>4. N3!Calm
        BY <2>1, N3!EndsAloneIsCalm
  <2>. QED BY <1>1, <2>1, <2>3, <2>4, N3!UpdateStepIInv, N3!StepOwes
<1>4. Inv => B!TypeOK /\ B!UpdatesInOrder /\ B!QuietIsCaughtUp
      BY BetweenSame, N3!OrderFromIInv, N3!CaughtUpFromOwed DEF N3!UpdateIInv,
         N3!UpdateTypes
<1>5. [ServicesNext]_servicesVars /\ ~(part = "between") => ~(part = "between")'
      BY PartSteps
<1> HIDE DEF Inv
<1>. QED BY <1>2, <1>3, <1>4, <1>5, PTL DEF ServicesSpec

(* Two projects and two pages. *)
LEMMA HooksSame ==
  /\ H!Init => N3!H!Init
  /\ H!Next => N3!H!Next
  /\ N3!H!TypeOK => H!TypeOK
  /\ N3!H!RunsConfirmed => H!RunsConfirmed
  /\ N3!H!ConfirmedStaysApart => H!ConfirmedStaysApart
  /\ N3!H!NothingOverwritten => H!NothingOverwritten
  BY DEF H!ChecksTrust, H!ConfirmedStaysApart, H!Confirms, H!Contents, H!Done, H!Edit,
     H!ForgetFails, H!ForgetReads, H!ForgetWrites, H!Free, H!Init, H!Next, H!NoCheck,
     H!NoForget, H!NoPage, H!NothingOverwritten, H!Over, H!ReadProject, H!ReadTrust,
     H!Reading, H!Restart, H!Runs, H!RunsConfirmed, H!Save, H!SaveGlobal, H!SaveProject,
     H!Trust, H!TypeOK, H!Unchanged, H!Unsure, H!View, H!Without, H!WriteFails,
     H!WriteGlobal, H!WriteTrust, H!fileVars, H!history, N3!H!ChecksTrust,
     N3!H!ConfirmedStaysApart, N3!H!Confirms, N3!H!Contents, N3!H!Done, N3!H!Edit,
     N3!H!ForgetFails, N3!H!ForgetReads, N3!H!ForgetWrites, N3!H!Free, N3!H!Init,
     N3!H!Next, N3!H!NoCheck, N3!H!NoForget, N3!H!NoPage, N3!H!NothingOverwritten,
     N3!H!Over, N3!H!ReadProject, N3!H!ReadTrust, N3!H!Reading, N3!H!Restart, N3!H!Runs,
     N3!H!RunsConfirmed, N3!H!Save, N3!H!SaveGlobal, N3!H!SaveProject, N3!H!Trust,
     N3!H!TypeOK, N3!H!Unchanged, N3!H!Unsure, N3!H!View, N3!H!Without, N3!H!WriteFails,
     N3!H!WriteGlobal, N3!H!WriteTrust, N3!H!fileVars, N3!H!history

LEMMA HooksAre == None \notin {e1, e2} \cup {w1, w2} /\ 1 \in Nat
  BY ServicesAssumption

LEMMA HooksKept ==
  ServicesSpec => [](part = "hooks" => H!TypeOK /\ H!RunsConfirmed /\ H!ConfirmedStaysApart /\ H!NothingOverwritten)
<1>1. ServicesInit /\ part = "hooks" => N3!H!Init
      BY HooksSame DEF ServicesInit
<1>2. [ServicesNext]_servicesVars /\ part = "hooks"
        => (part = "hooks")' /\ [N3!H!Next]_(N3!H!hookVars)
      BY PartSteps, HooksSame DEF HooksStep, servicesVars, N3!H!fileVars, N3!H!history,
         N3!H!hookVars
<1>3. [ServicesNext]_servicesVars /\ ~(part = "hooks") => ~(part = "hooks")'
      BY PartSteps
<1>. QED BY <1>1, <1>2, <1>3, HooksSame, HooksAre, N3!HooksTypeCorrect,
            N3!RunsConfirmedHolds, N3!ConfirmedStaysApartHolds, N3!NothingOverwrittenHolds,
            PTL DEF ServicesSpec, N3!H!Spec

(* Two providers with a model each and a form, while the files are edited by hand. *)
LEMMA HandEditsSame ==
  /\ V!Init => N3!S!Init
  /\ V!Next => N3!S!Next
  /\ N3!S!TypeOK => V!TypeOK
  /\ N3!S!ModelsFit => V!ModelsFit
  /\ N3!S!CurrentIsDisk => V!CurrentIsDisk
  BY DEF V!AfterFailure, V!Configs, V!CurrentIsDisk, V!DeleteModel, V!DeleteProvider,
     V!Edit, V!EditConfig, V!EditModels, V!Entries, V!Entry, V!Fits, V!Init, V!Lists,
     V!MayChange, V!ModelProtocol, V!ModelsFit, V!Next, V!Next2, V!NoForm, V!NoPair,
     V!Open, V!Pair, V!Pin, V!ProtocolFor, V!Put, V!ReadSettings, V!Refused, V!Reload,
     V!Restart, V!SaveModel, V!SaveProvider, V!SettingsProtocol, V!TypeOK, V!Used,
     V!Write, V!WriteFails, V!WriteOrder, V!Writes, V!modelFiles, N3!S!AfterFailure,
     N3!S!Configs, N3!S!CurrentIsDisk, N3!S!DeleteModel, N3!S!DeleteProvider, N3!S!Edit,
     N3!S!EditConfig, N3!S!EditModels, N3!S!Entries, N3!S!Entry, N3!S!Fits, N3!S!Init,
     N3!S!Lists, N3!S!MayChange, N3!S!ModelProtocol, N3!S!ModelsFit, N3!S!Next,
     N3!S!Next2, N3!S!NoForm, N3!S!NoPair, N3!S!Open, N3!S!Pair, N3!S!Pin,
     N3!S!ProtocolFor, N3!S!Put, N3!S!ReadSettings, N3!S!Refused, N3!S!Reload,
     N3!S!Restart, N3!S!SaveModel, N3!S!SaveProvider, N3!S!SettingsProtocol,
     N3!S!TypeOK, N3!S!Used, N3!S!Write, N3!S!WriteFails, N3!S!WriteOrder, N3!S!Writes,
     N3!S!modelFiles

LEMMA HandEditsAre == N3!ModelConstants
<1>1. Presets \in N3!S!Lists
      BY ServicesAssumption DEF Presets, N3!S!Lists, N3!S!Entries
<1>. QED BY <1>1, ServicesAssumption DEF N3!ModelConstants, Owner, Known, Presets

LEMMA HandEditsKept ==
  ServicesSpec => [](part = "handedits" => V!TypeOK /\ V!ModelsFit /\ V!CurrentIsDisk)
<1>1. ServicesInit /\ part = "handedits" => N3!S!Init
      BY HandEditsSame DEF ServicesInit
<1>2. [ServicesNext]_servicesVars /\ part = "handedits"
        => (part = "handedits")' /\ [N3!S!Next]_(N3!S!modelVars)
      BY PartSteps, HandEditsSame DEF HandEditsStep, servicesVars, N3!S!modelFiles,
         N3!S!modelVars
<1>3. [ServicesNext]_servicesVars /\ ~(part = "handedits") => ~(part = "handedits")'
      BY PartSteps
<1>. QED BY <1>1, <1>2, <1>3, HandEditsSame, HandEditsAre, N3!ModelsTypeCorrect,
            N3!ModelsFitHolds, N3!CurrentIsDiskHolds, PTL DEF ServicesSpec, N3!S!Spec

-----------------------------------------------------------------------------
(* ModelSettings, with the constants of S.                                 *)
N4 == INSTANCE Sessions_proofs WITH
  Providers <- {"p", "q"}, Models <- {m1, m2}, Protocols <- {a1, a2}, Of <- Owner,
  CatalogProtocol <- Known, Catalog <- Presets, Formats <- {"q"}, Editors <- {e1, e2},
  ModelRuns <- {r1}, MaxSaves <- 3, MaxEdits <- 0, MaxFaults <- 1, config <- x1,
  models <- x2, current <- x3, editMu <- x4, form <- x5, pinned <- x6, stale <- x7,
  byHand <- x8, settingSaves <- x9, handEdits <- x10, modelFaults <- x11,
  Runs <- 0, Reverts <- 0, MaxUpdates <- 0, BufferLimit <- 0, DiskFaults <- 0,
  NoRun <- 0, Tasks <- 0, MaxTurns <- 0, MaxRuns <- 0, Workspaces <- 0, Pages <- 0,
  Checks <- 0, Versions <- 0, Unreadable <- 0, Agents <- 0, Default <- 0, Sessions <- 0,
  MaxNew <- 0, live <- 0, clock <- 0, seq <- 0, phase <- 0, saved <- 0, stage <- 0,
  outbox <- 0, copied <- 0, issued <- 0, sub <- 0, view <- 0, through <- 0, buffer <- 0,
  sent <- 0, turn <- 0, running <- 0, tracked <- 0, loop <- 0, loopWoken <- 0,
  scan <- 0, retry <- 0, confirmed <- 0, wait <- 0, waitWoken <- 0, runPhase <- 0,
  runNo <- 0, stopped <- 0, familyStopped <- 0, asked <- 0, due <- 0, inbox <- 0,
  ledger <- 0, faults <- 0, global <- 0, project <- 0, trust <- 0, mu <- 0, page <- 0,
  check <- 0, forget <- 0, kept <- 0, mixed <- 0, edits <- 0, hookFaults <- 0,
  agents <- 0, chosen <- 0, source <- 0, list <- 0, save <- 0, delete <- 0, choose <- 0,
  fork <- 0, spawn <- 0, saves <- 0, begun <- 0

(* Two providers with a model each and two forms. *)
LEMMA ModelsSame ==
  /\ S!Init => N4!S!Init
  /\ S!Next => N4!S!Next
  /\ N4!S!TypeOK => S!TypeOK
  /\ N4!S!ModelsFit => S!ModelsFit
  /\ N4!S!CurrentIsDisk => S!CurrentIsDisk
  BY DEF S!AfterFailure, S!Configs, S!CurrentIsDisk, S!DeleteModel, S!DeleteProvider,
     S!Edit, S!EditConfig, S!EditModels, S!Entries, S!Entry, S!Fits, S!Init, S!Lists,
     S!MayChange, S!ModelProtocol, S!ModelsFit, S!Next, S!Next2, S!NoForm, S!NoPair,
     S!Open, S!Pair, S!Pin, S!ProtocolFor, S!Put, S!ReadSettings, S!Refused, S!Reload,
     S!Restart, S!SaveModel, S!SaveProvider, S!SettingsProtocol, S!TypeOK, S!Used,
     S!Write, S!WriteFails, S!WriteOrder, S!Writes, S!modelFiles, N4!S!AfterFailure,
     N4!S!Configs, N4!S!CurrentIsDisk, N4!S!DeleteModel, N4!S!DeleteProvider, N4!S!Edit,
     N4!S!EditConfig, N4!S!EditModels, N4!S!Entries, N4!S!Entry, N4!S!Fits, N4!S!Init,
     N4!S!Lists, N4!S!MayChange, N4!S!ModelProtocol, N4!S!ModelsFit, N4!S!Next,
     N4!S!Next2, N4!S!NoForm, N4!S!NoPair, N4!S!Open, N4!S!Pair, N4!S!Pin,
     N4!S!ProtocolFor, N4!S!Put, N4!S!ReadSettings, N4!S!Refused, N4!S!Reload,
     N4!S!Restart, N4!S!SaveModel, N4!S!SaveProvider, N4!S!SettingsProtocol,
     N4!S!TypeOK, N4!S!Used, N4!S!Write, N4!S!WriteFails, N4!S!WriteOrder, N4!S!Writes,
     N4!S!modelFiles

LEMMA ModelsAre == N4!ModelConstants
<1>1. Presets \in N4!S!Lists
      BY ServicesAssumption DEF Presets, N4!S!Lists, N4!S!Entries
<1>. QED BY <1>1, ServicesAssumption DEF N4!ModelConstants, Owner, Known, Presets

LEMMA ModelsKept ==
  ServicesSpec => [](part = "models" => S!TypeOK /\ S!ModelsFit /\ S!CurrentIsDisk)
<1>1. ServicesInit /\ part = "models" => N4!S!Init
      BY ModelsSame DEF ServicesInit
<1>2. [ServicesNext]_servicesVars /\ part = "models"
        => (part = "models")' /\ [N4!S!Next]_(N4!S!modelVars)
      BY PartSteps, ModelsSame DEF ModelsStep, servicesVars, N4!S!modelFiles,
         N4!S!modelVars
<1>3. [ServicesNext]_servicesVars /\ ~(part = "models") => ~(part = "models")'
      BY PartSteps
<1>. QED BY <1>1, <1>2, <1>3, ModelsSame, ModelsAre, N4!ModelsTypeCorrect,
            N4!ModelsFitHolds, N4!CurrentIsDiskHolds, PTL DEF ServicesSpec, N4!S!Spec

-----------------------------------------------------------------------------
(* What TLC checks of the parts holds in every behaviour.                  *)

(* The updates of a session are numbered one after the other, and whoever  *)
(* subscribes gets the missing ones in order (runner/emit.go, release in   *)
(* run.go, harness_run.go).                                                *)
THEOREM ServicesUpdatesHold == ServicesSpec => []UpdatesHold
BY UpdatesKept, RevertsKept, BetweenKept, PTL DEF UpdatesHold

(* A result is recorded once, a run starts with the results of its tasks,  *)
(* and a wait misses none (subagents/notifications.go, wait.go).           *)
THEOREM ServicesReportsHold == ServicesSpec => []ReportsHold
BY ReportsKept, RestartsKept, PTL DEF ReportsHold

(* Sessions choose agents that exist, models are asked in the protocol     *)
(* their options are for, and only hooks that the user confirmed run, the  *)
(* confirmations being kept but for what a deletion overwrites (agents,    *)
(* llm, hooks).                                                            *)
THEOREM ServicesSettingsHold == ServicesSpec => []SettingsHold
BY AgentsKept, ModelsKept, HandEditsKept, HooksKept, PTL DEF SettingsHold
=============================================================================

------------------------ MODULE ToolServices_proofs -------------------------
(***************************************************************************)
(* The properties that TLC checks of the components that runs work with,   *)
(* in the instances of MCServices, as theorems: a behaviour of a part is   *)
(* one of its component, and what is proved of the component for every     *)
(* value of its constants holds of the part.                               *)
(***************************************************************************)
EXTENDS MCServices, FiniteSetTheorems, TLAPS

(* A behaviour stays in its part, and takes the steps of that part. *)
LEMMA PartSteps ==
  [ServicesNext]_servicesVars =>
    /\ part' = part
    /\ part = "approvals" => [ApprovalsStep]_servicesVars
    /\ part = "mcp" => [McpStep]_servicesVars
    /\ part = "logins" => [LoginsStep]_servicesVars
    /\ part = "diffs" => [DiffsStep]_servicesVars
    /\ part = "files" => [FilesStep]_servicesVars
    /\ part = "processes" => [ProcessesStep]_servicesVars
    /\ part = "terminals" => [TerminalsStep]_servicesVars
    /\ part = "withdrawals" => [WithdrawalsStep]_servicesVars
    /\ part = "connections" => [ConnectionsStep]_servicesVars
    /\ part = "tools" => [ToolsStep]_servicesVars
    /\ part = "edits" => [EditsStep]_servicesVars
    /\ part = "writes" => [WritesStep]_servicesVars
  BY DEF ServicesNext, servicesVars, UpdatesStep, RevertsStep, BetweenStep,
     ApprovalsStep, ToolsStep, McpStep, ConnectionsStep, WritesStep, FilesStep, DiffsStep,
     EditsStep, ProcessesStep, TerminalsStep, LoginsStep, WithdrawalsStep, ReportsStep,
     RestartsStep, AgentsStep, ModelsStep, HandEditsStep, HooksStep, UpdatesAlone, RevertsAlone,
     ApprovalsAlone, McpAlone, ConnectionsAlone, FilesAlone, DiffsAlone, ProcessesAlone,
     TerminalsAlone, LoginsAlone, ReportsAlone, RestartsAlone, AgentsAlone, ModelsAlone,
     HooksAlone

(* Two elements are finitely many. *)
LEMMA PairIsFinite == \A a, b : IsFiniteSet({a, b})
<1>. SUFFICES ASSUME NEW a, NEW b PROVE IsFiniteSet({a, b})
     OBVIOUS
<1>1. IsFiniteSet({a})
      BY FS_Singleton
<1>2. IsFiniteSet({a} \cup {b})
      BY <1>1, FS_AddElement
<1>3. {a, b} = {a} \cup {b}
      OBVIOUS
<1>. QED BY <1>2, <1>3

(* What the patches of MCServices write. *)
LEMMA PatchesWrite ==
  /\ \A w \in {a1, a2, ed} : Patches[w] \subseteq Seq({1, 2} \X F!Contents)
  /\ Files \in [{1, 2} -> F!Contents]
<1> DEFINE Texts == {"x", "absent", "A", "B", "E"}
           Steps == {1, 2} \X Texts
<1>1. \A w \in {a1, a2, ed} : Patches[w] \subseteq Seq(Steps)
  <2>1. <<1, "A">> \in Steps /\ <<1, "absent">> \in Steps /\ <<1, "x">> \in Steps
        OBVIOUS
  <2>2. <<2, "A">> \in Steps /\ <<1, "B">> \in Steps /\ <<2, "B">> \in Steps /\ <<1, "E">> \in Steps
        OBVIOUS
  <2> HIDE DEF Steps
  <2>3. \A s \in Steps : <<s>> \in Seq(Steps)
        OBVIOUS
  <2>4. \A r, s \in Steps : <<r, s>> \in Seq(Steps)
        OBVIOUS
  <2>. QED BY <2>1, <2>2, <2>3, <2>4 DEF Patches
<1>2. \A w \in {a1, a2, ed} : \A q \in Patches[w] : q \in Seq({1, 2} \X F!Contents)
  <2> SUFFICES ASSUME NEW w \in {a1, a2, ed}, NEW q \in Patches[w]
               PROVE  q \in Seq({1, 2} \X F!Contents)
      OBVIOUS
  <2>1. q \in Seq(Steps)
        BY <1>1
  <2> HIDE DEF Steps
  <2>2. \A i \in 1..Len(q) : q[i] \in Steps /\ i \in DOMAIN q
        BY <2>1
  <2>3. \A i \in 1..Len(q) : q[i][2] \in F!Contents
        BY <2>2 DEF F!Contents, F!Writers
  <2>4. \A i \in 1..Len(q) : q[i] \in {1, 2} \X F!Contents
        BY <2>2, <2>3 DEF Steps
  <2>. QED BY <2>1, <2>4
<1>3. Files \in [{1, 2} -> F!Contents]
  <2>1. Files[1] = "x" /\ Files[2] = "absent" /\ DOMAIN Files = {1, 2}
        BY DEF Files
  <2>2. \A p \in {1, 2} : Files[p] \in F!Contents
        BY DEF F!Contents
  <2>3. Files = [p \in {1, 2} |-> Files[p]]
        BY DEF Files
  <2>. QED BY <2>2, <2>3
<1>. QED BY <1>2, <1>3

(* The contents that runs give to files are different ones. *)
LEMMA TwoAreFresh ==
  LET f == <<"a", "b">>
  IN  /\ f \in Seq({f[i] : i \in DOMAIN f})
      /\ \A i, j \in 1..Len(f) : f[i] = f[j] => i = j
      /\ \A i \in 1..Len(f) : f[i] \notin {"x", "E", "none"}
<1> DEFINE f == <<"a", "b">>
<1>1. f[1] = "a" /\ f[2] = "b" /\ Len(f) = 2
      OBVIOUS
<1>2. \A i \in 1..2 : i = 1 \/ i = 2
      OBVIOUS
<1>3. f \in Seq({f[i] : i \in DOMAIN f})
      BY <1>1
<1> HIDE DEF f
<1>4. \A i, j \in 1..Len(f) : f[i] = f[j] => i = j
      BY <1>1, <1>2
<1>5. \A i \in 1..Len(f) : f[i] \notin {"x", "E", "none"}
      BY <1>1, <1>2
<1>. QED BY <1>3, <1>4, <1>5 DEF f

LEMMA ThreeAreFresh ==
  LET f == <<"a", "b", "c">>
  IN  /\ f \in Seq({f[i] : i \in DOMAIN f})
      /\ \A i, j \in 1..Len(f) : f[i] = f[j] => i = j
      /\ \A i \in 1..Len(f) : f[i] \notin {"x", "E", "none"}
<1> DEFINE f == <<"a", "b", "c">>
<1>1. f[1] = "a" /\ f[2] = "b" /\ f[3] = "c" /\ Len(f) = 3
      OBVIOUS
<1>2. \A i \in 1..3 : i = 1 \/ i = 2 \/ i = 3
      OBVIOUS
<1>3. f \in Seq({f[i] : i \in DOMAIN f})
      BY <1>1
<1> HIDE DEF f
<1>4. \A i, j \in 1..Len(f) : f[i] = f[j] => i = j
      BY <1>1, <1>2
<1>5. \A i \in 1..Len(f) : f[i] \notin {"x", "E", "none"}
      BY <1>1, <1>2
<1>. QED BY <1>3, <1>4, <1>5 DEF f

-----------------------------------------------------------------------------
(* Approvals, McpRuntime, Credentials and RunDiffs, with the constants of A, M, K, D. *)
T1 == INSTANCE Tools_proofs WITH
  Calls <- {c1, c2}, CallKind <- Kinds, Mode <- Modes, Workspace <- Places,
  Listeners <- {l1}, Workspaces <- {w1}, Runs <- {r1, r2}, MaxStates <- 3,
  MaxEdits <- 1, Conns <- {c1, c2}, MaxLogins <- 2, MaxEpoch <- 2, Paths <- {"p", "q"},
  DiffRuns <- {1, 2}, First <- "x", Edited <- "E", Fresh <- <<"a", "b">>,
  MaxFaults <- 1, stage <- x1, said <- x2, verdict <- x3, answer <- x4, ended <- x5,
  ctxDone <- x6, pending <- x7, listening <- x8, unread <- x9, known <- x10,
  trusted <- x11, forgetting <- x12, closing <- x13, where <- x1, plan <- x2, at <- x3,
  stopped <- x4, states <- x5, current <- x6, runs <- x7, saving <- x8, file <- x9,
  provider <- x10, saved <- x1, memory <- x2, revoked <- x3, generation <- x4,
  epoch <- x5, lock <- x6, conn <- x7, task <- x8, logins <- x9, removal <- x10,
  disk <- x1, exact <- x5, live <- x2, shown <- x3, net <- x4, status <- x6,
  summary <- x7, body <- x8, reconciled <- x9, holder <- x10, todo <- x11, idle <- x12,
  view <- x13, before <- x14, torn <- x15,
  changes <- x16, faults <- x17,
  Agents <- 0, Editors <- 0, Plans <- 0, Original <- 0, Absent <- 0, MaxPatches <- 0,
  MaxWriters <- 0, Terminals <- 0, Ttys <- 0, Interacts <- 0, Limit <- 0, Capacity <- 0,
  MaxOutput <- 0, Subs <- 0, Own <- 0, QueueLimit <- 0, PendingLimit <- 0,
  MaxEvents <- 0, locks <- 0, seen <- 0, wrote <- 0, completed <- 0, patches <- 0,
  diff <- 0, own <- 0, proc <- 0, made <- 0, pipe <- 0, reading <- 0, held <- 0,
  got <- 0, exited <- 0, sent <- 0, told <- 0, table <- 0, exec <- 0, call <- 0,
  target <- 0, busy <- 0, session <- 0, writing <- 0, gone <- 0, link <- 0,
  ctxOpen <- 0, gate <- 0, phase <- 0, sender <- 0, queue <- 0, active <- 0,
  closed <- 0, hooked <- 0, unhooking <- 0, published <- 0, received <- 0,
  answered <- 0, scheduled <- 0, waiter <- 0, scheduler <- 0, runner <- 0

(* The requests of an HTTP configuration and of an MCP tool. *)
LEMMA ApprovalsSame ==
  /\ A!Init => T1!A!Init
  /\ A!Next => T1!A!Next
  /\ T1!A!TypeOK => A!TypeOK
  /\ T1!A!DecisionsCount => A!DecisionsCount
  /\ T1!A!LatestIsCurrent => A!LatestIsCurrent
  /\ T1!A!ClosedIsEmpty => A!ClosedIsEmpty
  /\ T1!A!ClosedGrantsNothing => A!ClosedGrantsNothing
  BY DEF A!Init, A!NoForget, A!Nothing, T1!A!Init, T1!A!NoForget, T1!A!Nothing, A!Ask,
     A!Call, A!CallStep, A!CancelReaches, A!Cancelled, A!Close, A!CloseReturns,
     A!Decide, A!Final, A!Forbidden, A!ForgetReads, A!ForgetWrites, A!Goes, A!Left,
     A!Next, A!Open, A!Publish, A!ReadSnapshot, A!Respond, A!Review, A!Reviewed,
     A!Reviewer, A!SaveTrust, A!Shown, A!StopRun, A!Subscribe, A!TakeAnswer,
     A!TakeCancel, A!TrustFromSettings, A!Trusted, A!Unrestricted, A!Unsubscribe,
     A!Verdicts, A!WaitForHuman, A!Working, T1!A!Ask, T1!A!Call, T1!A!CallStep,
     T1!A!CancelReaches, T1!A!Cancelled, T1!A!Close, T1!A!CloseReturns, T1!A!Decide,
     T1!A!Final, T1!A!Forbidden, T1!A!ForgetReads, T1!A!ForgetWrites, T1!A!Goes,
     T1!A!Left, T1!A!Next, T1!A!Open, T1!A!Publish, T1!A!ReadSnapshot, T1!A!Respond,
     T1!A!Review, T1!A!Reviewed, T1!A!Reviewer, T1!A!SaveTrust, T1!A!Shown,
     T1!A!StopRun, T1!A!Subscribe, T1!A!TakeAnswer, T1!A!TakeCancel,
     T1!A!TrustFromSettings, T1!A!Trusted, T1!A!Unrestricted, T1!A!Unsubscribe,
     T1!A!Verdicts, T1!A!WaitForHuman, T1!A!Working, A!TypeOK, T1!A!TypeOK,
     A!DecisionsCount, T1!A!DecisionsCount, A!LatestIsCurrent, T1!A!LatestIsCurrent,
     A!ClosedIsEmpty, T1!A!ClosedIsEmpty, A!ClosedGrantsNothing,
     T1!A!ClosedGrantsNothing

LEMMA PlacesAre == "nothing" \notin {c1, c2} /\ Places \in [{c1, c2} -> {w1}]
  BY ServicesAssumption DEF Places

LEMMA ApprovalsKept ==
  ServicesSpec =>
    /\ [](part = "approvals" => A!TypeOK /\ A!DecisionsCount /\ A!LatestIsCurrent /\ A!ClosedIsEmpty)
    /\ [][part = "approvals" => A!ClosedGrantsNothing]_servicesVars
<1>1. ServicesInit /\ part = "approvals" => T1!A!Init
      BY ApprovalsSame DEF ServicesInit
<1>2. [ServicesNext]_servicesVars /\ part = "approvals"
        => (part = "approvals")' /\ [T1!A!Next]_(T1!A!approvalVars)
      BY PartSteps, ApprovalsSame DEF ApprovalsStep, servicesVars, T1!A!approvalVars
<1>3. [ServicesNext]_servicesVars /\ ~(part = "approvals") => ~(part = "approvals")'
      BY PartSteps
<1>4. [ServicesNext]_servicesVars /\ (part = "approvals" => [T1!A!ClosedGrantsNothing]_(T1!A!approvalVars))
        => [part = "approvals" => A!ClosedGrantsNothing]_servicesVars
      BY PartSteps, ApprovalsSame DEF ApprovalsStep, ApprovalsAlone, servicesVars,
         T1!A!approvalVars
<1>. QED BY <1>1, <1>2, <1>3, <1>4, ApprovalsSame, PlacesAre, T1!ApprovalsTypeCorrect,
            T1!DecisionsCountHolds, T1!LatestIsCurrentHolds, T1!ClosedIsEmptyHolds,
            T1!ClosedGrantsNothingHolds, PTL DEF ServicesSpec, T1!ApprovalBehaviour

(* Two runs and three sets of MCP connections. *)
LEMMA McpSame ==
  /\ M!Init => T1!M!Init
  /\ M!Next => T1!M!Next
  /\ T1!M!TypeOK => M!TypeOK
  /\ T1!M!PinnedStaysOpen => M!PinnedStaysOpen
  /\ T1!M!NothingLeaks => M!NothingLeaks
  /\ T1!M!RefsCount => M!RefsCount
  BY DEF M!Fresh, M!Init, T1!M!Fresh, T1!M!Init, M!Built, M!Close, M!CloseReturns,
     M!Collect, M!Confirm, M!Connect, M!EditProject, M!Enter, M!Goes, M!Inside,
     M!Invalidate, M!Keeps, M!Leave, M!Next, M!Plan, M!Referenced, M!ReleaseRun,
     M!Retire, M!Save, M!Serves, M!Step, M!StopRun, M!Unused, M!Version, M!Wait,
     T1!M!Built, T1!M!Close, T1!M!CloseReturns, T1!M!Collect, T1!M!Confirm,
     T1!M!Connect, T1!M!EditProject, T1!M!Enter, T1!M!Goes, T1!M!Inside,
     T1!M!Invalidate, T1!M!Keeps, T1!M!Leave, T1!M!Next, T1!M!Plan, T1!M!Referenced,
     T1!M!ReleaseRun, T1!M!Retire, T1!M!Save, T1!M!Serves, T1!M!Step, T1!M!StopRun,
     T1!M!Unused, T1!M!Version, T1!M!Wait, M!TypeOK, T1!M!TypeOK, M!Cardinality,
     T1!M!Cardinality, M!PinnedStaysOpen, T1!M!PinnedStaysOpen, M!Holders,
     M!NothingLeaks, T1!M!Holders, T1!M!NothingLeaks, M!RefsCount, T1!M!RefsCount

LEMMA RuntimesAre == T1!RuntimeConstants
<1>1. IsFiniteSet({r1, r2})
      BY PairIsFinite
<1>2. T1!IsFiniteSet({r1, r2})
      BY <1>1 DEF T1!IsFiniteSet, IsFiniteSet
<1>. QED BY <1>2 DEF T1!RuntimeConstants

LEMMA McpKept ==
  ServicesSpec => [](part = "mcp" => M!TypeOK /\ M!PinnedStaysOpen /\ M!NothingLeaks /\ M!RefsCount)
<1>1. ServicesInit /\ part = "mcp" => T1!M!Init
      BY McpSame DEF ServicesInit
<1>2. [ServicesNext]_servicesVars /\ part = "mcp"
        => (part = "mcp")' /\ [T1!M!Next]_(T1!M!mcpVars)
      BY PartSteps, McpSame DEF McpStep, servicesVars, T1!M!mcpVars
<1>3. [ServicesNext]_servicesVars /\ ~(part = "mcp") => ~(part = "mcp")'
      BY PartSteps
<1>. QED BY <1>1, <1>2, <1>3, McpSame, RuntimesAre, T1!RuntimeTypeCorrect,
            T1!PinnedStaysOpenHolds, T1!NothingLeaksHolds, T1!RefsCountHolds, PTL DEF
            ServicesSpec, T1!RuntimeBehaviour

(* Two connections that log in. *)
LEMMA LoginsSame ==
  /\ K!Init => T1!K!Init
  /\ K!Next => T1!K!Next
  /\ T1!K!NewLoginStays => K!NewLoginStays
  /\ T1!K!LoggedOutIsOut => K!LoggedOutIsOut
  BY DEF K!Init, K!NoConn, K!NoTask, T1!K!Init, T1!K!NoConn, T1!K!NoTask, K!Answer,
     K!CancelLogin, K!ConnStep, K!Disconnect, K!Drop, K!Expire, K!FreshLock,
     K!HandlerEpoch, K!HandlerRecord, K!HandlerVersion, K!Held, K!Issue, K!Lock,
     K!LoginAnswered, K!LoginChecked, K!LoginConnects, K!LoginLeaves, K!LoginVersion,
     K!Logout, K!MaySave, K!Next, K!PutsBack, K!Read, K!ReadLatest, K!Retire, K!Save,
     K!Set, K!StartLogin, K!StillIn, K!Unlocked, K!WriteConfig, K!storeVars,
     T1!K!Answer, T1!K!CancelLogin, T1!K!ConnStep, T1!K!Disconnect, T1!K!Drop,
     T1!K!Expire, T1!K!FreshLock, T1!K!HandlerEpoch, T1!K!HandlerRecord,
     T1!K!HandlerVersion, T1!K!Held, T1!K!Issue, T1!K!Lock, T1!K!LoginAnswered,
     T1!K!LoginChecked, T1!K!LoginConnects, T1!K!LoginLeaves, T1!K!LoginVersion,
     T1!K!Logout, T1!K!MaySave, T1!K!Next, T1!K!PutsBack, T1!K!Read, T1!K!ReadLatest,
     T1!K!Retire, T1!K!Save, T1!K!Set, T1!K!StartLogin, T1!K!StillIn, T1!K!Unlocked,
     T1!K!WriteConfig, T1!K!storeVars, K!Cardinality, T1!K!Cardinality, K!NewLoginStays,
     T1!K!NewLoginStays, K!LoggedOutIsOut, T1!K!LoggedOutIsOut

LEMMA LoginsAre == T1!CredConstants
<1>1. IsFiniteSet({c1, c2})
      BY PairIsFinite
<1>2. T1!IsFiniteSet({c1, c2})
      BY <1>1 DEF T1!IsFiniteSet, IsFiniteSet
<1>. QED BY <1>2 DEF T1!CredConstants

LEMMA LoginsKept ==
  ServicesSpec => [][part = "logins" => K!NewLoginStays /\ K!LoggedOutIsOut]_servicesVars
<1>1. ServicesInit /\ part = "logins" => T1!K!Init
      BY LoginsSame DEF ServicesInit
<1>2. [ServicesNext]_servicesVars /\ part = "logins"
        => (part = "logins")' /\ [T1!K!Next]_(T1!K!credVars)
      BY PartSteps, LoginsSame DEF LoginsStep, servicesVars, T1!K!credVars
<1>3. [ServicesNext]_servicesVars /\ ~(part = "logins") => ~(part = "logins")'
      BY PartSteps
<1>4. [ServicesNext]_servicesVars /\ (part = "logins" => [T1!K!NewLoginStays]_(T1!K!credVars) /\ [T1!K!LoggedOutIsOut]_(T1!K!credVars))
        => [part = "logins" => K!NewLoginStays /\ K!LoggedOutIsOut]_servicesVars
      BY PartSteps, LoginsSame DEF LoginsStep, LoginsAlone, servicesVars, T1!K!credVars
<1>. QED BY <1>1, <1>2, <1>3, <1>4, LoginsSame, LoginsAre, T1!NewLoginStaysHolds,
            T1!LoggedOutIsOutHolds, PTL DEF ServicesSpec, T1!K!Spec

(* Two runs that change two files. *)
LEMMA DiffsSame ==
  /\ D!Init => T1!D!Init
  /\ D!Next => T1!D!Next
  /\ T1!D!TypeOK => D!TypeOK
  /\ T1!D!ShownUnlessTorn => D!ShownUnlessTorn
  /\ T1!D!UndoesItsRun => D!UndoesItsRun
  BY DEF D!Adopted, D!AfterFailure, D!Change, D!Changed, D!Diff, D!Does, D!Edit,
     D!EndRun, D!Free, D!Init, D!Interrupted, D!Known, D!LeftBy, D!Look, D!Makes,
     D!MayHave, D!NetOf, D!Next, D!NoChange, D!NoDiff, D!NoFile, D!NoView, D!Nothing,
     D!Persist, D!Reconcile, D!ReconcileFails, D!Restart, D!Revert, D!RevertChecks,
     D!RevertFile, D!RevertRefused, D!SameRevision, D!ShownUnlessTorn, D!StartRun,
     D!StoreBody, D!StoreFails, D!StoreRecord, D!Storers, D!TypeOK, D!Unchanged,
     D!UndoesItsRun, D!Unset, T1!D!Adopted, T1!D!AfterFailure, T1!D!Change,
     T1!D!Changed, T1!D!Diff, T1!D!Does, T1!D!Edit, T1!D!EndRun, T1!D!Free, T1!D!Init,
     T1!D!Interrupted, T1!D!Known, T1!D!LeftBy, T1!D!Look, T1!D!Makes, T1!D!MayHave,
     T1!D!NetOf, T1!D!Next, T1!D!NoChange, T1!D!NoDiff, T1!D!NoFile, T1!D!NoView,
     T1!D!Nothing, T1!D!Persist, T1!D!Reconcile, T1!D!ReconcileFails, T1!D!Restart,
     T1!D!Revert, T1!D!RevertChecks, T1!D!RevertFile, T1!D!RevertRefused,
     T1!D!SameRevision, T1!D!ShownUnlessTorn, T1!D!StartRun, T1!D!StoreBody,
     T1!D!StoreFails, T1!D!StoreRecord, T1!D!Storers, T1!D!TypeOK, T1!D!Unchanged,
     T1!D!UndoesItsRun, T1!D!Unset

LEMMA DiffsAre == T1!DiffConstants
  BY TwoAreFresh DEF T1!DiffConstants, T1!D!Unset

LEMMA DiffsKept ==
  ServicesSpec =>
    /\ [](part = "diffs" => D!TypeOK /\ D!ShownUnlessTorn)
    /\ [][part = "diffs" => D!UndoesItsRun]_servicesVars
<1>1. ServicesInit /\ part = "diffs" => T1!D!Init
      BY DiffsSame DEF ServicesInit
<1>2. [ServicesNext]_servicesVars /\ part = "diffs"
        => (part = "diffs")' /\ [T1!D!Next]_(T1!D!diffVars)
      BY PartSteps, DiffsSame DEF DiffsStep, servicesVars, T1!D!diffVars
<1>3. [ServicesNext]_servicesVars /\ ~(part = "diffs") => ~(part = "diffs")'
      BY PartSteps
<1>4. [ServicesNext]_servicesVars /\ (part = "diffs" => [T1!D!UndoesItsRun]_(T1!D!diffVars))
        => [part = "diffs" => D!UndoesItsRun]_servicesVars
      BY PartSteps, DiffsSame DEF DiffsStep, DiffsAlone, servicesVars, T1!D!diffVars
<1>. QED BY <1>1, <1>2, <1>3, <1>4, DiffsSame, DiffsAre, T1!DiffsTypeCorrect,
            T1!ShownUnlessTornHolds, T1!UndoesItsRunHolds, PTL DEF ServicesSpec, T1!D!Spec

-----------------------------------------------------------------------------
(* FileChanges, Processes, Credentials and Connections, with the constants of F, P, L, C. *)
T2 == INSTANCE Tools_proofs WITH
  Calls <- {c1}, Conns <- {c1}, MaxLogins <- 2, MaxEpoch <- 4, Agents <- {a1, a2},
  Editors <- {ed}, Paths <- {1, 2}, Plans <- Patches, Original <- Files,
  Absent <- "absent", MaxPatches <- Most, MaxWriters <- 2, Terminals <- {t1},
  Ttys <- {a2, t1}, Interacts <- {i1}, Limit <- 1, Capacity <- 1, MaxOutput <- 1,
  Subs <- {s1}, Own <- {c1}, QueueLimit <- 2, PendingLimit <- 1, MaxEvents <- 3,
  stage <- x3, pending <- x10, listening <- x12, closing <- x18, plan <- x4, at <- x7,
  saved <- x1, memory <- x2, revoked <- x3, generation <- x4, epoch <- x5, lock <- x6,
  conn <- x7, task <- x8, logins <- x9, removal <- x10, disk <- x1, locks <- x2,
  seen <- x5, wrote <- x6, completed <- x7, exact <- x8, patches <- x9, diff <- x10,
  own <- x11, proc <- x1, made <- x2, pipe <- x3, reading <- x4, held <- x5, got <- x6,
  exited <- x7, sent <- x8, told <- x9, table <- x10, exec <- x11, call <- x12,
  target <- x13, busy <- x14, session <- x15, writing <- x16, gone <- x17, link <- x1,
  ctxOpen <- x2, gate <- x3, phase <- x4, sender <- x5, queue <- x6, active <- x8,
  closed <- x9, hooked <- x11, unhooking <- x13, published <- x14, received <- x15,
  answered <- x16, scheduled <- x17, waiter <- x18, scheduler <- x19, runner <- x20,
  CallKind <- 0, Mode <- 0, Workspace <- 0, Listeners <- 0, Workspaces <- 0, Runs <- 0,
  MaxStates <- 0, MaxEdits <- 0, DiffRuns <- 0, First <- 0, Edited <- 0, Fresh <- 0,
  MaxFaults <- 0, said <- 0, verdict <- 0, answer <- 0, ended <- 0, ctxDone <- 0,
  unread <- 0, known <- 0, trusted <- 0, forgetting <- 0, where <- 0, stopped <- 0,
  states <- 0, current <- 0, runs <- 0, saving <- 0, file <- 0, provider <- 0,
  live <- 0, shown <- 0, net <- 0, status <- 0, summary <- 0, body <- 0,
  reconciled <- 0, holder <- 0, todo <- 0, idle <- 0, view <- 0, before <- 0,
  torn <- 0, changes <- 0, faults <- 0

(* Two runs that patch and an editor. *)
LEMMA FilesSame ==
  /\ F!Init => T2!F!Init
  /\ F!Next => T2!F!Next
  /\ T2!F!TypeOK => F!TypeOK
  /\ T2!F!ExactIsTrue => F!ExactIsTrue
  /\ T2!F!NoLostWrite => F!NoLostWrite
  BY DEF F!Init, F!NoFile, F!Unset, F!Writers, T2!F!Init, T2!F!NoFile, T2!F!Unset,
     T2!F!Writers, F!After, F!Allow, F!ApplyChange, F!Begin, F!Broken, F!Check,
     F!Current, F!Deny, F!FailedExact, F!Finish, F!Follows, F!Found, F!Goes, F!Held,
     F!KilledExact, F!Lock, F!LockOrder, F!MayLock, F!NetChange, F!Next, F!PathsOf,
     F!Put, F!Read, F!Report, F!Stop, F!Unlock, F!Unread, F!Write, F!WriteFails,
     T2!F!After, T2!F!Allow, T2!F!ApplyChange, T2!F!Begin, T2!F!Broken, T2!F!Check,
     T2!F!Current, T2!F!Deny, T2!F!FailedExact, T2!F!Finish, T2!F!Follows, T2!F!Found,
     T2!F!Goes, T2!F!Held, T2!F!KilledExact, T2!F!Lock, T2!F!LockOrder, T2!F!MayLock,
     T2!F!NetChange, T2!F!Next, T2!F!PathsOf, T2!F!Put, T2!F!Read, T2!F!Report,
     T2!F!Stop, T2!F!Unlock, T2!F!Unread, T2!F!Write, T2!F!WriteFails, F!Cardinality,
     T2!F!Cardinality, F!Contents, F!TypeOK, T2!F!Contents, T2!F!TypeOK, F!ExactIsTrue,
     T2!F!ExactIsTrue, F!NoLostWrite, T2!F!NoLostWrite

LEMMA FilesAre == T2!FilesConstants
  BY PatchesWrite, ServicesAssumption
  DEF T2!FilesConstants, T2!F!Contents, T2!F!Writers, T2!F!Unset, F!Contents, F!Writers

LEMMA FilesKept ==
  ServicesSpec =>
    /\ [](part = "files" => F!TypeOK /\ F!ExactIsTrue)
    /\ [][part = "files" => F!NoLostWrite]_servicesVars
<1>1. ServicesInit /\ part = "files" => T2!F!Init
      BY FilesSame DEF ServicesInit
<1>2. [ServicesNext]_servicesVars /\ part = "files"
        => (part = "files")' /\ [T2!F!Next]_(T2!F!fileVars)
      BY PartSteps, FilesSame DEF FilesStep, servicesVars, T2!F!fileVars
<1>3. [ServicesNext]_servicesVars /\ ~(part = "files") => ~(part = "files")'
      BY PartSteps
<1>4. [ServicesNext]_servicesVars /\ (part = "files" => [T2!F!NoLostWrite]_(T2!F!fileVars))
        => [part = "files" => F!NoLostWrite]_servicesVars
      BY PartSteps, FilesSame DEF FilesStep, FilesAlone, servicesVars, T2!F!fileVars
<1>. QED BY <1>1, <1>2, <1>3, <1>4, FilesSame, FilesAre, T2!FilesTypeCorrect,
            T2!ExactIsTrueHolds, T2!NoLostWriteHolds, PTL DEF ServicesSpec,
            T2!FileBehaviour

(* Two processes of runs and a terminal. *)
LEMMA ProcessesSame ==
  /\ P!Init => T2!P!Init
  /\ P!Next => T2!P!Next
  /\ T2!P!TypeOK => P!TypeOK
  /\ T2!P!ExitIsWhole => P!ExitIsWhole
  /\ T2!P!CleanCloseLeavesNothing => P!CleanCloseLeavesNothing
  BY DEF P!All, P!Init, T2!P!All, T2!P!Init, P!ClientGone, P!Close, P!CloseReturns,
     P!Control, P!ControlEnds, P!Drain, P!Drains, P!Exec, P!ExecCancel, P!ExecRemove,
     P!ExecStopped, P!ExecTake, P!Exit, P!Finish, P!Forgets, P!GoneEnds, P!Interact,
     P!InteractCancel, P!InteractRemove, P!InteractTake, P!Killed, P!Lives, P!Lock,
     P!MayFinish, P!MayStart, P!Next, P!Prunable, P!Read, P!ReadEnd, P!SessionEnds,
     P!StartTerminal, P!Started, P!Take, P!Terminated, P!Tracked, P!Write, P!Wrote,
     P!callVars, P!procVars, P!termVars, T2!P!ClientGone, T2!P!Close, T2!P!CloseReturns,
     T2!P!Control, T2!P!ControlEnds, T2!P!Drain, T2!P!Drains, T2!P!Exec,
     T2!P!ExecCancel, T2!P!ExecRemove, T2!P!ExecStopped, T2!P!ExecTake, T2!P!Exit,
     T2!P!Finish, T2!P!Forgets, T2!P!GoneEnds, T2!P!Interact, T2!P!InteractCancel,
     T2!P!InteractRemove, T2!P!InteractTake, T2!P!Killed, T2!P!Lives, T2!P!Lock,
     T2!P!MayFinish, T2!P!MayStart, T2!P!Next, T2!P!Prunable, T2!P!Read, T2!P!ReadEnd,
     T2!P!SessionEnds, T2!P!StartTerminal, T2!P!Started, T2!P!Take, T2!P!Terminated,
     T2!P!Tracked, T2!P!Write, T2!P!Wrote, T2!P!callVars, T2!P!procVars, T2!P!termVars,
     P!Cardinality, T2!P!Cardinality, P!TypeOK, T2!P!TypeOK, P!ExitIsWhole,
     T2!P!ExitIsWhole, P!CleanCloseLeavesNothing, T2!P!CleanCloseLeavesNothing

LEMMA ProcessesAre == T2!ProcessConstants
  BY ServicesAssumption DEF T2!ProcessConstants

LEMMA ProcessesKept ==
  ServicesSpec => [](part \in {"processes", "terminals"} => P!TypeOK /\ P!ExitIsWhole /\ P!CleanCloseLeavesNothing)
<1>1. ServicesInit /\ part \in {"processes", "terminals"} => T2!P!Init
      BY ProcessesSame DEF ServicesInit
<1>2. [ServicesNext]_servicesVars /\ part \in {"processes", "terminals"}
        => (part \in {"processes", "terminals"})' /\ [T2!P!Next]_(T2!P!processVars)
      BY PartSteps, ProcessesSame DEF ProcessesStep, TerminalsStep, servicesVars,
         T2!P!callVars, T2!P!procVars, T2!P!processVars, T2!P!termVars
<1>3. [ServicesNext]_servicesVars /\ ~(part \in {"processes", "terminals"}) => ~(part \in {"processes", "terminals"})'
      BY PartSteps
<1>. QED BY <1>1, <1>2, <1>3, ProcessesSame, ProcessesAre, T2!ProcessesTypeCorrect,
            T2!ExitIsWholeHolds, T2!CleanCloseLeavesNothingHolds, PTL DEF ServicesSpec,
            T2!ProcessBehaviour

(* A login that meets a withdrawal of its server. *)
LEMMA WithdrawalsSame ==
  /\ L!Init => T2!K!Init
  /\ L!Next => T2!K!Next
  /\ T2!K!NewLoginStays => L!NewLoginStays
  /\ T2!K!LoggedOutIsOut => L!LoggedOutIsOut
  BY DEF L!Init, L!NoConn, L!NoTask, T2!K!Init, T2!K!NoConn, T2!K!NoTask, L!Answer,
     L!CancelLogin, L!ConnStep, L!Disconnect, L!Drop, L!Expire, L!FreshLock,
     L!HandlerEpoch, L!HandlerRecord, L!HandlerVersion, L!Held, L!Issue, L!Lock,
     L!LoginAnswered, L!LoginChecked, L!LoginConnects, L!LoginLeaves, L!LoginVersion,
     L!Logout, L!MaySave, L!Next, L!PutsBack, L!Read, L!ReadLatest, L!Retire, L!Save,
     L!Set, L!StartLogin, L!StillIn, L!Unlocked, L!WriteConfig, L!storeVars,
     T2!K!Answer, T2!K!CancelLogin, T2!K!ConnStep, T2!K!Disconnect, T2!K!Drop,
     T2!K!Expire, T2!K!FreshLock, T2!K!HandlerEpoch, T2!K!HandlerRecord,
     T2!K!HandlerVersion, T2!K!Held, T2!K!Issue, T2!K!Lock, T2!K!LoginAnswered,
     T2!K!LoginChecked, T2!K!LoginConnects, T2!K!LoginLeaves, T2!K!LoginVersion,
     T2!K!Logout, T2!K!MaySave, T2!K!Next, T2!K!PutsBack, T2!K!Read, T2!K!ReadLatest,
     T2!K!Retire, T2!K!Save, T2!K!Set, T2!K!StartLogin, T2!K!StillIn, T2!K!Unlocked,
     T2!K!WriteConfig, T2!K!storeVars, L!Cardinality, T2!K!Cardinality, L!NewLoginStays,
     T2!K!NewLoginStays, L!LoggedOutIsOut, T2!K!LoggedOutIsOut

LEMMA WithdrawalsAre == T2!CredConstants
<1>1. IsFiniteSet({c1})
      BY FS_Singleton
<1>2. T2!IsFiniteSet({c1})
      BY <1>1 DEF T2!IsFiniteSet, IsFiniteSet
<1>. QED BY <1>2 DEF T2!CredConstants

LEMMA WithdrawalsKept ==
  ServicesSpec => [][part = "withdrawals" => L!NewLoginStays /\ L!LoggedOutIsOut]_servicesVars
<1>1. ServicesInit /\ part = "withdrawals" => T2!K!Init
      BY WithdrawalsSame DEF ServicesInit
<1>2. [ServicesNext]_servicesVars /\ part = "withdrawals"
        => (part = "withdrawals")' /\ [T2!K!Next]_(T2!K!credVars)
      BY PartSteps, WithdrawalsSame DEF WithdrawalsStep, servicesVars, T2!K!credVars
<1>3. [ServicesNext]_servicesVars /\ ~(part = "withdrawals") => ~(part = "withdrawals")'
      BY PartSteps
<1>4. [ServicesNext]_servicesVars /\ (part = "withdrawals" => [T2!K!NewLoginStays]_(T2!K!credVars) /\ [T2!K!LoggedOutIsOut]_(T2!K!credVars))
        => [part = "withdrawals" => L!NewLoginStays /\ L!LoggedOutIsOut]_servicesVars
      BY PartSteps, WithdrawalsSame DEF WithdrawalsStep, LoginsAlone, servicesVars,
         T2!K!credVars
<1>. QED BY <1>1, <1>2, <1>3, <1>4, WithdrawalsSame, WithdrawalsAre,
            T2!NewLoginStaysHolds, T2!LoggedOutIsOutHolds, PTL DEF ServicesSpec,
            T2!K!Spec

(* A subscription and a write of its connection. *)
LEMMA ConnectionsSame ==
  /\ C!Init => T2!C!Init
  /\ C!Next => T2!C!Next
  /\ T2!C!TypeOK => C!TypeOK
  /\ T2!C!NothingLost => C!NothingLost
  /\ T2!C!AfterResponse => C!AfterResponse
  /\ T2!C!ClosedHearsNothing => C!ClosedHearsNothing
  BY DEF C!Abandon, C!Activate, C!AfterResponse, C!Answer, C!BodyEnds, C!CallsOf,
     C!Cardinality, C!CheckCtx, C!Claim, C!CloseAll, C!CloseFailed,
     C!ClosedHearsNothing, C!Closing, C!Create, C!CtxDone, C!Drain, C!Enqueue, C!Goes,
     C!Handling, C!Hook, C!InQueue, C!Init, C!ItemOf, C!LinkDown, C!Listen,
     C!MayAbandon, C!MayClose, C!MayNotify, C!Moves, C!Next, C!NothingLost, C!Notify,
     C!Pop, C!Reply, C!Return, C!Room, C!Runs, C!Schedule, C!Send, C!SenderEnds,
     C!SetCleanup, C!SubStep, C!Take, C!TypeOK, C!Unhook, C!Unsubscribe, C!Up,
     C!Waiting, C!Waits, C!Work, C!schedVars, C!subVars, T2!C!Abandon, T2!C!Activate,
     T2!C!AfterResponse, T2!C!Answer, T2!C!BodyEnds, T2!C!CallsOf, T2!C!Cardinality,
     T2!C!CheckCtx, T2!C!Claim, T2!C!CloseAll, T2!C!CloseFailed,
     T2!C!ClosedHearsNothing, T2!C!Closing, T2!C!Create, T2!C!CtxDone, T2!C!Drain,
     T2!C!Enqueue, T2!C!Goes, T2!C!Handling, T2!C!Hook, T2!C!InQueue, T2!C!Init,
     T2!C!ItemOf, T2!C!LinkDown, T2!C!Listen, T2!C!MayAbandon, T2!C!MayClose,
     T2!C!MayNotify, T2!C!Moves, T2!C!Next, T2!C!NothingLost, T2!C!Notify, T2!C!Pop,
     T2!C!Reply, T2!C!Return, T2!C!Room, T2!C!Runs, T2!C!Schedule, T2!C!Send,
     T2!C!SenderEnds, T2!C!SetCleanup, T2!C!SubStep, T2!C!Take, T2!C!TypeOK,
     T2!C!Unhook, T2!C!Unsubscribe, T2!C!Up, T2!C!Waiting, T2!C!Waits, T2!C!Work,
     T2!C!schedVars, T2!C!subVars

LEMMA ConnectionsAre == T2!ConnConstants
  BY DEF T2!ConnConstants

LEMMA ConnectionsKept ==
  ServicesSpec => [](part = "connections" => C!TypeOK /\ C!NothingLost /\ C!AfterResponse /\ C!ClosedHearsNothing)
<1>1. ServicesInit /\ part = "connections" => T2!C!Init
      BY ConnectionsSame DEF ServicesInit
<1>2. [ServicesNext]_servicesVars /\ part = "connections"
        => (part = "connections")' /\ [T2!C!Next]_(T2!C!connVars)
      BY PartSteps, ConnectionsSame DEF ConnectionsStep, servicesVars, T2!C!connVars,
         T2!C!schedVars, T2!C!subVars
<1>3. [ServicesNext]_servicesVars /\ ~(part = "connections") => ~(part = "connections")'
      BY PartSteps
<1>. QED BY <1>1, <1>2, <1>3, ConnectionsSame, ConnectionsAre,
            T2!ConnectionsTypeCorrect, T2!NothingLostHolds, T2!AfterResponseHolds,
            T2!ClosedHearsNothingHolds, PTL DEF ServicesSpec, T2!ConnectionBehaviour

-----------------------------------------------------------------------------
(* Approvals and RunDiffs, with the constants of T and E. *)
T3 == INSTANCE Tools_proofs WITH
  Calls <- {c1, c2}, CallKind <- ToolKinds, Mode <- ToolModes, Workspace <- Places,
  Listeners <- {l1}, Workspaces <- {w1}, Paths <- {"p"}, DiffRuns <- {1}, First <- "x",
  Edited <- "E", Fresh <- <<"a", "b", "c">>, MaxFaults <- 0, stage <- x1, said <- x2,
  verdict <- x3, answer <- x4, ended <- x5, ctxDone <- x6, pending <- x7,
  listening <- x8, unread <- x9, known <- x10, trusted <- x11, forgetting <- x12,
  closing <- x13, disk <- x1, exact <- x5, live <- x2, shown <- x3, net <- x4,
  status <- x6, summary <- x7, body <- x8, reconciled <- x9, holder <- x10, todo <- x11,
  idle <- x12, view <- x13, before <- x14, torn <- x15,
  changes <- x16, faults <- x17,
  Runs <- 0, MaxStates <- 0, MaxEdits <- 0, Conns <- 0, MaxLogins <- 0, MaxEpoch <- 0,
  Agents <- 0, Editors <- 0, Plans <- 0, Original <- 0, Absent <- 0, MaxPatches <- 0,
  MaxWriters <- 0, Terminals <- 0, Ttys <- 0, Interacts <- 0, Limit <- 0, Capacity <- 0,
  MaxOutput <- 0, Subs <- 0, Own <- 0, QueueLimit <- 0, PendingLimit <- 0,
  MaxEvents <- 0, where <- 0, plan <- 0, at <- 0, stopped <- 0, states <- 0,
  current <- 0, runs <- 0, saving <- 0, file <- 0, provider <- 0, saved <- 0,
  memory <- 0, revoked <- 0, generation <- 0, epoch <- 0, lock <- 0, conn <- 0,
  task <- 0, logins <- 0, removal <- 0, locks <- 0, seen <- 0, wrote <- 0,
  completed <- 0, patches <- 0, diff <- 0, own <- 0, proc <- 0, made <- 0, pipe <- 0,
  reading <- 0, held <- 0, got <- 0, exited <- 0, sent <- 0, told <- 0, table <- 0,
  exec <- 0, call <- 0, target <- 0, busy <- 0, session <- 0, writing <- 0, gone <- 0,
  link <- 0, ctxOpen <- 0, gate <- 0, phase <- 0, sender <- 0, queue <- 0, active <- 0,
  closed <- 0, hooked <- 0, unhooking <- 0, published <- 0, received <- 0,
  answered <- 0, scheduled <- 0, waiter <- 0, scheduler <- 0, runner <- 0

(* The calls of tools that a model reviews. *)
LEMMA ToolsSame ==
  /\ T!Init => T3!A!Init
  /\ T!Next => T3!A!Next
  /\ T3!A!TypeOK => T!TypeOK
  /\ T3!A!DecisionsCount => T!DecisionsCount
  /\ T3!A!LatestIsCurrent => T!LatestIsCurrent
  /\ T3!A!ClosedIsEmpty => T!ClosedIsEmpty
  /\ T3!A!ClosedGrantsNothing => T!ClosedGrantsNothing
  BY DEF T!Init, T!NoForget, T!Nothing, T3!A!Init, T3!A!NoForget, T3!A!Nothing, T!Ask,
     T!Call, T!CallStep, T!CancelReaches, T!Cancelled, T!Close, T!CloseReturns,
     T!Decide, T!Final, T!Forbidden, T!ForgetReads, T!ForgetWrites, T!Goes, T!Left,
     T!Next, T!Open, T!Publish, T!ReadSnapshot, T!Respond, T!Review, T!Reviewed,
     T!Reviewer, T!SaveTrust, T!Shown, T!StopRun, T!Subscribe, T!TakeAnswer,
     T!TakeCancel, T!TrustFromSettings, T!Trusted, T!Unrestricted, T!Unsubscribe,
     T!Verdicts, T!WaitForHuman, T!Working, T3!A!Ask, T3!A!Call, T3!A!CallStep,
     T3!A!CancelReaches, T3!A!Cancelled, T3!A!Close, T3!A!CloseReturns, T3!A!Decide,
     T3!A!Final, T3!A!Forbidden, T3!A!ForgetReads, T3!A!ForgetWrites, T3!A!Goes,
     T3!A!Left, T3!A!Next, T3!A!Open, T3!A!Publish, T3!A!ReadSnapshot, T3!A!Respond,
     T3!A!Review, T3!A!Reviewed, T3!A!Reviewer, T3!A!SaveTrust, T3!A!Shown,
     T3!A!StopRun, T3!A!Subscribe, T3!A!TakeAnswer, T3!A!TakeCancel,
     T3!A!TrustFromSettings, T3!A!Trusted, T3!A!Unrestricted, T3!A!Unsubscribe,
     T3!A!Verdicts, T3!A!WaitForHuman, T3!A!Working, T!TypeOK, T3!A!TypeOK,
     T!DecisionsCount, T3!A!DecisionsCount, T!LatestIsCurrent, T3!A!LatestIsCurrent,
     T!ClosedIsEmpty, T3!A!ClosedIsEmpty, T!ClosedGrantsNothing,
     T3!A!ClosedGrantsNothing

LEMMA ToolsKept ==
  ServicesSpec =>
    /\ [](part = "tools" => T!TypeOK /\ T!DecisionsCount /\ T!LatestIsCurrent /\ T!ClosedIsEmpty)
    /\ [][part = "tools" => T!ClosedGrantsNothing]_servicesVars
<1>1. ServicesInit /\ part = "tools" => T3!A!Init
      BY ToolsSame DEF ServicesInit
<1>2. [ServicesNext]_servicesVars /\ part = "tools"
        => (part = "tools")' /\ [T3!A!Next]_(T3!A!approvalVars)
      BY PartSteps, ToolsSame DEF ToolsStep, servicesVars, T3!A!approvalVars
<1>3. [ServicesNext]_servicesVars /\ ~(part = "tools") => ~(part = "tools")'
      BY PartSteps
<1>4. [ServicesNext]_servicesVars /\ (part = "tools" => [T3!A!ClosedGrantsNothing]_(T3!A!approvalVars))
        => [part = "tools" => T!ClosedGrantsNothing]_servicesVars
      BY PartSteps, ToolsSame DEF ToolsStep, ApprovalsAlone, servicesVars,
         T3!A!approvalVars
<1>. QED BY <1>1, <1>2, <1>3, <1>4, ToolsSame, PlacesAre, T3!ApprovalsTypeCorrect,
            T3!DecisionsCountHolds, T3!LatestIsCurrentHolds, T3!ClosedIsEmptyHolds,
            T3!ClosedGrantsNothingHolds, PTL DEF ServicesSpec, T3!ApprovalBehaviour

(* A run whose file the user edits. *)
LEMMA EditsSame ==
  /\ E!Init => T3!D!Init
  /\ E!Next => T3!D!Next
  /\ T3!D!TypeOK => E!TypeOK
  /\ T3!D!ShownUnlessTorn => E!ShownUnlessTorn
  /\ T3!D!UndoesItsRun => E!UndoesItsRun
  BY DEF E!Adopted, E!AfterFailure, E!Change, E!Changed, E!Diff, E!Does, E!Edit,
     E!EndRun, E!Free, E!Init, E!Interrupted, E!Known, E!LeftBy, E!Look, E!Makes,
     E!MayHave, E!NetOf, E!Next, E!NoChange, E!NoDiff, E!NoFile, E!NoView, E!Nothing,
     E!Persist, E!Reconcile, E!ReconcileFails, E!Restart, E!Revert, E!RevertChecks,
     E!RevertFile, E!RevertRefused, E!SameRevision, E!ShownUnlessTorn, E!StartRun,
     E!StoreBody, E!StoreFails, E!StoreRecord, E!Storers, E!TypeOK, E!Unchanged,
     E!UndoesItsRun, E!Unset, T3!D!Adopted, T3!D!AfterFailure, T3!D!Change,
     T3!D!Changed, T3!D!Diff, T3!D!Does, T3!D!Edit, T3!D!EndRun, T3!D!Free, T3!D!Init,
     T3!D!Interrupted, T3!D!Known, T3!D!LeftBy, T3!D!Look, T3!D!Makes, T3!D!MayHave,
     T3!D!NetOf, T3!D!Next, T3!D!NoChange, T3!D!NoDiff, T3!D!NoFile, T3!D!NoView,
     T3!D!Nothing, T3!D!Persist, T3!D!Reconcile, T3!D!ReconcileFails, T3!D!Restart,
     T3!D!Revert, T3!D!RevertChecks, T3!D!RevertFile, T3!D!RevertRefused,
     T3!D!SameRevision, T3!D!ShownUnlessTorn, T3!D!StartRun, T3!D!StoreBody,
     T3!D!StoreFails, T3!D!StoreRecord, T3!D!Storers, T3!D!TypeOK, T3!D!Unchanged,
     T3!D!UndoesItsRun, T3!D!Unset

LEMMA EditsAre == T3!DiffConstants
  BY ThreeAreFresh DEF T3!DiffConstants, T3!D!Unset

LEMMA EditsKept ==
  ServicesSpec =>
    /\ [](part = "edits" => E!TypeOK /\ E!ShownUnlessTorn)
    /\ [][part = "edits" => E!UndoesItsRun]_servicesVars
<1>1. ServicesInit /\ part = "edits" => T3!D!Init
      BY EditsSame DEF ServicesInit
<1>2. [ServicesNext]_servicesVars /\ part = "edits"
        => (part = "edits")' /\ [T3!D!Next]_(T3!D!diffVars)
      BY PartSteps, EditsSame DEF EditsStep, servicesVars, T3!D!diffVars
<1>3. [ServicesNext]_servicesVars /\ ~(part = "edits") => ~(part = "edits")'
      BY PartSteps
<1>4. [ServicesNext]_servicesVars /\ (part = "edits" => [T3!D!UndoesItsRun]_(T3!D!diffVars))
        => [part = "edits" => E!UndoesItsRun]_servicesVars
      BY PartSteps, EditsSame DEF EditsStep, DiffsAlone, servicesVars, T3!D!diffVars
<1>. QED BY <1>1, <1>2, <1>3, <1>4, EditsSame, EditsAre, T3!DiffsTypeCorrect,
            T3!ShownUnlessTornHolds, T3!UndoesItsRunHolds, PTL DEF ServicesSpec, T3!D!Spec

-----------------------------------------------------------------------------
(* Connections, with the constants of W.                                   *)
T4 == INSTANCE Tools_proofs WITH
  Calls <- SessionWrites, Subs <- {}, Own <- SessionWrites \cap {c2}, QueueLimit <- 0,
  PendingLimit <- 0, MaxEvents <- 0, pending <- x10, listening <- x12, at <- x7,
  link <- x1, ctxOpen <- x2, gate <- x3, phase <- x4, sender <- x5, queue <- x6,
  active <- x8, closed <- x9, hooked <- x11, unhooking <- x13, published <- x14,
  received <- x15, answered <- x16, scheduled <- x17, waiter <- x18, scheduler <- x19,
  runner <- x20,
  CallKind <- 0, Mode <- 0, Workspace <- 0, Listeners <- 0, Workspaces <- 0, Runs <- 0,
  MaxStates <- 0, MaxEdits <- 0, Conns <- 0, MaxLogins <- 0, MaxEpoch <- 0, Agents <- 0,
  Editors <- 0, Paths <- 0, Plans <- 0, Original <- 0, Absent <- 0, MaxPatches <- 0,
  MaxWriters <- 0, Terminals <- 0, Ttys <- 0, Interacts <- 0, Limit <- 0, Capacity <- 0,
  MaxOutput <- 0, DiffRuns <- 0, First <- 0, Edited <- 0, Fresh <- 0, MaxFaults <- 0,
  stage <- 0, said <- 0, verdict <- 0, answer <- 0, ended <- 0, ctxDone <- 0,
  unread <- 0, known <- 0, trusted <- 0, forgetting <- 0, closing <- 0, where <- 0,
  plan <- 0, stopped <- 0, states <- 0, current <- 0, runs <- 0, saving <- 0, file <- 0,
  provider <- 0, saved <- 0, memory <- 0, revoked <- 0, generation <- 0, epoch <- 0,
  lock <- 0, conn <- 0, task <- 0, logins <- 0, removal <- 0, disk <- 0, locks <- 0,
  seen <- 0, wrote <- 0, completed <- 0, exact <- 0, patches <- 0, diff <- 0, own <- 0,
  proc <- 0, made <- 0, pipe <- 0, reading <- 0, held <- 0, got <- 0, exited <- 0,
  sent <- 0, told <- 0, table <- 0, exec <- 0, call <- 0, target <- 0, busy <- 0,
  session <- 0, writing <- 0, gone <- 0, live <- 0, shown <- 0, net <- 0, status <- 0,
  summary <- 0, body <- 0, reconciled <- 0, holder <- 0, todo <- 0, idle <- 0,
  view <- 0, before <- 0, torn <- 0, changes <- 0, faults <- 0

(* The writes of a session. *)
LEMMA WritesSame ==
  /\ W!Init => T4!C!Init
  /\ W!Next => T4!C!Next
  /\ T4!C!TypeOK => W!TypeOK
  /\ T4!C!RunsOnce => W!RunsOnce
  /\ T4!C!NothingStalls => W!NothingStalls
  /\ T4!C!ClosedHearsNothing => W!ClosedHearsNothing
  BY DEF W!Abandon, W!Activate, W!Answer, W!BodyEnds, W!CallsOf, W!CheckCtx, W!Claim,
     W!CloseAll, W!CloseFailed, W!ClosedHearsNothing, W!Closing, W!Create, W!CtxDone,
     W!Drain, W!Enqueue, W!Goes, W!GoesOn, W!Handling, W!Hook, W!Init, W!ItemOf,
     W!LinkDown, W!Listen, W!MayAbandon, W!MayClose, W!MayNotify, W!Moves, W!Next,
     W!NothingStalls, W!Notify, W!Pop, W!Reply, W!Return, W!Room, W!Runs, W!RunsOnce,
     W!Schedule, W!Send, W!SenderEnds, W!SetCleanup, W!SubStep, W!Take, W!TypeOK,
     W!Unhook, W!Unsubscribe, W!Up, W!Waiting, W!Waits, W!Work, W!schedVars, W!subVars,
     T4!C!Abandon, T4!C!Activate, T4!C!Answer, T4!C!BodyEnds, T4!C!CallsOf,
     T4!C!CheckCtx, T4!C!Claim, T4!C!CloseAll, T4!C!CloseFailed,
     T4!C!ClosedHearsNothing, T4!C!Closing, T4!C!Create, T4!C!CtxDone, T4!C!Drain,
     T4!C!Enqueue, T4!C!Goes, T4!C!GoesOn, T4!C!Handling, T4!C!Hook, T4!C!Init,
     T4!C!ItemOf, T4!C!LinkDown, T4!C!Listen, T4!C!MayAbandon, T4!C!MayClose,
     T4!C!MayNotify, T4!C!Moves, T4!C!Next, T4!C!NothingStalls, T4!C!Notify, T4!C!Pop,
     T4!C!Reply, T4!C!Return, T4!C!Room, T4!C!Runs, T4!C!RunsOnce, T4!C!Schedule,
     T4!C!Send, T4!C!SenderEnds, T4!C!SetCleanup, T4!C!SubStep, T4!C!Take, T4!C!TypeOK,
     T4!C!Unhook, T4!C!Unsubscribe, T4!C!Up, T4!C!Waiting, T4!C!Waits, T4!C!Work,
     T4!C!schedVars, T4!C!subVars

LEMMA WritesAre == T4!ConnConstants
  BY DEF T4!ConnConstants

LEMMA WritesKept ==
  ServicesSpec => [](part = "writes" => W!TypeOK /\ W!RunsOnce /\ W!NothingStalls /\ W!ClosedHearsNothing)
<1>1. ServicesInit /\ part = "writes" => T4!C!Init
      BY WritesSame DEF ServicesInit
<1>2. [ServicesNext]_servicesVars /\ part = "writes"
        => (part = "writes")' /\ [T4!C!Next]_(T4!C!connVars)
      BY PartSteps, WritesSame DEF WritesStep, servicesVars, T4!C!connVars,
         T4!C!schedVars, T4!C!subVars
<1>3. [ServicesNext]_servicesVars /\ ~(part = "writes") => ~(part = "writes")'
      BY PartSteps
<1>. QED BY <1>1, <1>2, <1>3, WritesSame, WritesAre, T4!ConnectionsTypeCorrect,
            T4!RunsOnceHolds, T4!NothingStallsHolds, T4!ClosedHearsNothingHolds, PTL DEF
            ServicesSpec, T4!ConnectionBehaviour

-----------------------------------------------------------------------------
(* What TLC checks of the parts holds in every behaviour.                  *)

(* No tool call goes on that was refused or that nobody decided, whoever   *)
(* decides sees the current requests, and a closed service has no request  *)
(* left (approvals/service.go, approvals/mcp.go).                          *)
THEOREM ServicesDecisionsHold == ServicesSpec => []DecisionsHold
BY ApprovalsKept, ToolsKept, PTL DEF DecisionsHold

(* The connections of MCP servers live as long as a run needs them and no  *)
(* longer, and are counted right (tools/mcp/runtime.go).                   *)
THEOREM ServicesRuntimesHold == ServicesSpec => []RuntimesHold
BY McpKept, PTL DEF RuntimesHold

(* A connection that stays gets every event of its subscription, none      *)
(* before the response and none after its end (appserver, rpc).            *)
THEOREM ServicesNotificationsHold == ServicesSpec => []NotificationsHold
BY ConnectionsKept, PTL DEF NotificationsHold

(* The writes of a session never come to a standstill, none runs that was  *)
(* given up, and none runs twice, though the Scheduler may work on them in *)
(* several goroutines (appserver/internal/rpc/scheduler.go).               *)
THEOREM ServicesWritesHold == ServicesSpec => []WritesHold
BY WritesKept, PTL DEF WritesHold

(* A diff that calls itself exact is one, and the diff that is shown is    *)
(* the one that is stored, unless the write of its body failed             *)
(* (runner/diff_tracker.go, diff_store.go).                                *)
THEOREM ServicesFilesHold == ServicesSpec => []FilesHold
BY FilesKept, DiffsKept, EditsKept, PTL DEF FilesHold

(* The end of a process is reported with all its output, and the service   *)
(* closes without leaving one behind (machine/local, tools/exec).          *)
THEOREM ServicesProcessesHold == ServicesSpec => []ProcessesHold
BY ProcessesKept, PTL DEF ProcessesHold

(* No refresh of an older connection replaces what a newer login issued,   *)
(* and after a logout none stores anything (tools/mcp/oauth_store.go).     *)
THEOREM ServicesLoginsHold == ServicesSpec => LoginsHold
BY LoginsKept, WithdrawalsKept, PTL DEF LoginsHold

(* What no step may do: let a call pass in a closed service, replace what  *)
(* the writer has not read, or undo anything but what the run did.         *)
THEOREM ServicesStepsHold == ServicesSpec => StepsHold
BY ApprovalsKept, ToolsKept, FilesKept, DiffsKept, EditsKept, PTL DEF StepsHold
=============================================================================

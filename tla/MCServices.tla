----------------------------- MODULE MCServices -----------------------------
(***************************************************************************)
(* Small instances, for TLC, of the components around the runner, which    *)
(* run without each other.  A behaviour is one of a single part: x1, x2,   *)
(* ... are the variables of its module, in the order of their declaration. *)
(***************************************************************************)
EXTENDS Naturals, Sequences

CONSTANTS
  Parts,   \* the parts to check
  SessionWrites,  \* the writes of a session
  None, r1, r2, v1, v2, bad, c1, c2, l1, w1, w2, s1, s2, s3, a0, a1, a2, ed, t1, i1,
  m1, m2, e1, e2

\* What the instances that the theorems are about need of their values.
ASSUME ServicesAssumption ==
  /\ None \notin {r1, r2, e1, e2, w1, w2, a1, a2}
  /\ {r1, r2} \cap {v1, v2} = {}
  /\ a1 # a2 /\ {a1, a2} \cap {ed, t1} = {}
  /\ {"nothing", "none"} \cap {c1, c2, a1, a2, ed} = {}

VARIABLES part, x1, x2, x3, x4, x5, x6, x7, x8, x9, x10,
  x11, x12, x13, x14, x15, x16, x17, x18, x19, x20

Kinds == [q \in {c1, c2} |-> IF q = c1 THEN "config" ELSE "mcp"]
ToolKinds == [q \in {c1, c2} |-> "tool"]
ToolModes == [q \in {c1, c2} |-> IF q = c1 THEN "approveForMe" ELSE "askForApproval"]
Modes == [q \in {c1, c2} |-> IF q = c1 THEN "askForApproval" ELSE "approveForMe"]
Places == [q \in {c1, c2} |-> w1]

\* Patches that meet on one path; one lists its paths in reverse.
Patches == [w \in {a1, a2, ed} |->
  IF w = a1 THEN {<<<<1, "A">>>>, <<<<1, "absent">>>>, <<<<1, "x">>>>, <<<<2, "A">>, <<1, "A">>>>}
  ELSE IF w = a2 THEN {<<<<1, "B">>, <<2, "B">>>>}
  ELSE {<<<<1, "E">>>>, <<<<1, "A">>>>}]
Files == <<"x", "absent">>
Most == [w \in {a1, a2, ed} |-> IF w = a1 THEN 2 ELSE 1]

\* The catalogue knows q and a model of it.
Owner == [m \in {m1, m2} |-> IF m = m1 THEN "p" ELSE "q"]
Known == [p \in {"p", "q"} |-> IF p = "p" THEN None ELSE a1]
Presets == [m \in {m1, m2} |-> IF m = m1 THEN None ELSE [made |-> a1, routed |-> None]]

\* Two runs of a session, whose usage records may fail, and two reverts.
U == INSTANCE Updates WITH
  Runs <- {r1, r2}, Reverts <- {v1, v2}, MaxUpdates <- 5, BufferLimit <- 2,
  DiskFaults <- TRUE, NoRun <- None,
  live <- x1, clock <- x2, seq <- x3, phase <- x4, saved <- x5, stage <- x6,
  outbox <- x7, copied <- x8, issued <- x9, sub <- x10, view <- x11,
  through <- x12, buffer <- x13, sent <- x14

\* The same when nothing fails.
R == INSTANCE Updates WITH
  Runs <- {r1, r2}, Reverts <- {v1, v2}, MaxUpdates <- 4, BufferLimit <- 2,
  DiskFaults <- FALSE, NoRun <- None,
  live <- x1, clock <- x2, seq <- x3, phase <- x4, saved <- x5, stage <- x6,
  outbox <- x7, copied <- x8, issued <- x9, sub <- x10, view <- x11,
  through <- x12, buffer <- x13, sent <- x14

\* A revert while the session goes from one run to the next.
B == INSTANCE Updates WITH
  Runs <- {r1, r2}, Reverts <- {v1}, MaxUpdates <- 4, BufferLimit <- 2,
  DiskFaults <- FALSE, NoRun <- None,
  live <- x1, clock <- x2, seq <- x3, phase <- x4, saved <- x5, stage <- x6,
  outbox <- x7, copied <- x8, issued <- x9, sub <- x10, view <- x11,
  through <- x12, buffer <- x13, sent <- x14

\* A call of an HTTP configuration and one of an MCP tool, a subscriber.
A == INSTANCE Approvals WITH
  Calls <- {c1, c2}, CallKind <- Kinds, Mode <- Modes, Workspace <- Places,
  Listeners <- {l1}, Workspaces <- {w1},
  stage <- x1, said <- x2, verdict <- x3, answer <- x4, ended <- x5,
  ctxDone <- x6, pending <- x7, listening <- x8, unread <- x9, known <- x10,
  trusted <- x11, forgetting <- x12, closing <- x13

\* A call of a tool that a model reviews, and a subscriber.
T == INSTANCE Approvals WITH
  Calls <- {c1, c2}, CallKind <- ToolKinds, Mode <- ToolModes, Workspace <- Places,
  Listeners <- {l1}, Workspaces <- {w1},
  stage <- x1, said <- x2, verdict <- x3, answer <- x4, ended <- x5,
  ctxDone <- x6, pending <- x7, listening <- x8, unread <- x9, known <- x10,
  trusted <- x11, forgetting <- x12, closing <- x13

\* Two runs, three sets of connections, an edit of a file.
M == INSTANCE McpRuntime WITH
  Runs <- {r1, r2}, MaxStates <- 3, MaxEdits <- 1,
  where <- x1, plan <- x2, at <- x3, stopped <- x4, states <- x5,
  current <- x6, runs <- x7, saving <- x8, file <- x9, provider <- x10

\* A subscription, and a write of this connection.
C == INSTANCE Connections WITH
  Subs <- {s1}, Calls <- {c1}, Own <- {c1}, QueueLimit <- 2,
  PendingLimit <- 1, MaxEvents <- 3,
  link <- x1, ctxOpen <- x2, gate <- x3, phase <- x4, sender <- x5,
  queue <- x6, at <- x7, active <- x8, closed <- x9, pending <- x10,
  hooked <- x11, listening <- x12, unhooking <- x13, published <- x14,
  received <- x15, answered <- x16, scheduled <- x17, waiter <- x18, scheduler <- x19,
  runner <- x20

\* The writes of a session, one of them of this connection.
W == INSTANCE Connections WITH
  Subs <- {}, Calls <- SessionWrites, Own <- SessionWrites \cap {c2}, QueueLimit <- 0,
  PendingLimit <- 0, MaxEvents <- 0,
  link <- x1, ctxOpen <- x2, gate <- x3, phase <- x4, sender <- x5,
  queue <- x6, at <- x7, active <- x8, closed <- x9, pending <- x10,
  hooked <- x11, listening <- x12, unhooking <- x13, published <- x14,
  received <- x15, answered <- x16, scheduled <- x17, waiter <- x18, scheduler <- x19,
  runner <- x20

\* Two runs that patch and an editor, on two paths.
F == INSTANCE FileChanges WITH
  Agents <- {a1, a2}, Editors <- {ed}, Paths <- {1, 2}, Plans <- Patches,
  Original <- Files, Absent <- "absent", MaxPatches <- Most, MaxWriters <- 2,
  disk <- x1, locks <- x2, stage <- x3, plan <- x4, seen <- x5, wrote <- x6,
  completed <- x7, exact <- x8, patches <- x9, diff <- x10, own <- x11

\* Two runs that change two files, a failed write or a restart.
D == INSTANCE RunDiffs WITH
  Runs <- {1, 2}, Paths <- {"p", "q"}, First <- "x", Edited <- "E",
  Fresh <- <<"a", "b">>, MaxFaults <- 1,
  disk <- x1, live <- x2, shown <- x3, net <- x4, exact <- x5, status <- x6,
  summary <- x7, body <- x8, reconciled <- x9, holder <- x10, todo <- x11,
  idle <- x12, view <- x13, before <- x14, torn <- x15,
  changes <- x16, faults <- x17

\* A run whose file the user edits, and that goes on.
E == INSTANCE RunDiffs WITH
  Runs <- {1}, Paths <- {"p"}, First <- "x", Edited <- "E",
  Fresh <- <<"a", "b", "c">>, MaxFaults <- 0,
  disk <- x1, live <- x2, shown <- x3, net <- x4, exact <- x5, status <- x6,
  summary <- x7, body <- x8, reconciled <- x9, holder <- x10, todo <- x11,
  idle <- x12, view <- x13, before <- x14, torn <- x15,
  changes <- x16, faults <- x17

\* Two processes of runs, at a limit of one, and a terminal.
P == INSTANCE Processes WITH
  Agents <- {a1, a2}, Terminals <- {t1}, Ttys <- {a2, t1}, Interacts <- {i1},
  Limit <- 1, Capacity <- 1, MaxOutput <- 1,
  proc <- x1, made <- x2, pipe <- x3, reading <- x4, held <- x5, got <- x6,
  exited <- x7, sent <- x8, told <- x9, table <- x10, exec <- x11,
  call <- x12, target <- x13, busy <- x14, session <- x15, writing <- x16,
  gone <- x17, closing <- x18

\* Two connections, two logins.
K == INSTANCE Credentials WITH
  Conns <- {c1, c2}, MaxLogins <- 2, MaxEpoch <- 2,
  saved <- x1, memory <- x2, revoked <- x3, generation <- x4, epoch <- x5,
  lock <- x6, conn <- x7, task <- x8, logins <- x9, removal <- x10

\* One connection, a login that meets a withdrawal of the server.
L == INSTANCE Credentials WITH
  Conns <- {c1}, MaxLogins <- 2, MaxEpoch <- 4,
  saved <- x1, memory <- x2, revoked <- x3, generation <- x4, epoch <- x5,
  lock <- x6, conn <- x7, task <- x8, logins <- x9, removal <- x10

\* A task of two turns, two runs of its parent.
Y == INSTANCE Delivery WITH
  Tasks <- {t1}, MaxTurns <- 2, MaxRuns <- 2, MaxFaults <- 0,
  turn <- x1, running <- x2, tracked <- x3, loop <- x4, loopWoken <- x5,
  scan <- x6, retry <- x7, confirmed <- x8, wait <- x9, waitWoken <- x10,
  phase <- x11, runNo <- x12, stopped <- x13, familyStopped <- x14,
  asked <- x15, due <- x16, inbox <- x17, ledger <- x18, faults <- x19

\* A task of one turn, with two failures or restarts.
Z == INSTANCE Delivery WITH
  Tasks <- {t1}, MaxTurns <- 1, MaxRuns <- 2, MaxFaults <- 2,
  turn <- x1, running <- x2, tracked <- x3, loop <- x4, loopWoken <- x5,
  scan <- x6, retry <- x7, confirmed <- x8, wait <- x9, waitWoken <- x10,
  phase <- x11, runNo <- x12, stopped <- x13, familyStopped <- x14,
  asked <- x15, due <- x16, inbox <- x17, ledger <- x18, faults <- x19

\* Two agents besides the default, three sessions.
G == INSTANCE AgentSettings WITH
  Agents <- {a0, a1, a2}, Default <- a0, Sessions <- {s1, s2, s3},
  MaxSaves <- 2, MaxNew <- 2,
  agents <- x1, chosen <- x2, source <- x3, list <- x4, save <- x5,
  delete <- x6, choose <- x7, fork <- x8, spawn <- x9, saves <- x10,
  begun <- x11

\* A provider of the user and one of the catalogue, each with a model, two
\* forms, a fault.
S == INSTANCE ModelSettings WITH
  Providers <- {"p", "q"}, Models <- {m1, m2}, Protocols <- {a1, a2}, Of <- Owner,
  CatalogProtocol <- Known, Catalog <- Presets, Formats <- {"q"},
  Editors <- {e1, e2}, Runs <- {r1}, MaxSaves <- 3, MaxEdits <- 0, MaxFaults <- 1,
  config <- x1, models <- x2, current <- x3, editMu <- x4, form <- x5,
  pinned <- x6, stale <- x7, byHand <- x8, settingSaves <- x9, handEdits <- x10,
  modelFaults <- x11

\* The same with one form, while somebody edits the files.
V == INSTANCE ModelSettings WITH
  Providers <- {"p", "q"}, Models <- {m1, m2}, Protocols <- {a1, a2}, Of <- Owner,
  CatalogProtocol <- Known, Catalog <- Presets, Formats <- {"q"},
  Editors <- {e1}, Runs <- {r1}, MaxSaves <- 3, MaxEdits <- 1, MaxFaults <- 1,
  config <- x1, models <- x2, current <- x3, editMu <- x4, form <- x5,
  pinned <- x6, stale <- x7, byHand <- x8, settingSaves <- x9, handEdits <- x10,
  modelFaults <- x11

\* Two projects and two pages, a call of a tool, an edit, a fault.
H == INSTANCE HookSettings WITH
  Workspaces <- {w1, w2}, Pages <- {e1, e2}, Checks <- {c1}, Versions <- {v1,
  v2, bad}, Unreadable <- {bad}, MaxEdits <- 1, MaxFaults <- 1,
  global <- x1, project <- x2, trust <- x3, mu <- x4, page <- x5, check <- x6,
  forget <- x7, confirmed <- x8, kept <- x9, mixed <- x10, edits <- x11,
  hookFaults <- x12

-----------------------------------------------------------------------------
ServicesInit ==
  /\ part \in Parts
  /\ \/ part = "updates" /\ U!Init /\ x15 = 0 /\ x16 = 0 /\ x17 = 0 /\ x18 = 0
        /\ x19 = 0 /\ x20 = 0
     \/ part = "reverts" /\ R!Init /\ x15 = 0 /\ x16 = 0 /\ x17 = 0 /\ x18 = 0
        /\ x19 = 0 /\ x20 = 0
     \/ part = "between" /\ B!Init /\ x15 = 0 /\ x16 = 0 /\ x17 = 0 /\ x18 = 0
        /\ x19 = 0 /\ x20 = 0
     \/ part = "approvals" /\ A!Init /\ x14 = 0 /\ x15 = 0 /\ x16 = 0
        /\ x17 = 0 /\ x18 = 0 /\ x19 = 0 /\ x20 = 0
     \/ part = "tools" /\ T!Init /\ x14 = 0 /\ x15 = 0 /\ x16 = 0
        /\ x17 = 0 /\ x18 = 0 /\ x19 = 0 /\ x20 = 0
     \/ part = "mcp" /\ M!Init /\ x11 = 0 /\ x12 = 0 /\ x13 = 0 /\ x14 = 0
        /\ x15 = 0 /\ x16 = 0 /\ x17 = 0 /\ x18 = 0 /\ x19 = 0 /\ x20 = 0
     \/ part = "connections" /\ C!Init
     \/ part = "writes" /\ W!Init
     \/ part = "files" /\ F!Init /\ x12 = 0 /\ x13 = 0 /\ x14 = 0 /\ x15 = 0 /\ x16 = 0
        /\ x17 = 0 /\ x18 = 0 /\ x19 = 0 /\ x20 = 0
     \/ part = "diffs" /\ D!Init /\ x18 = 0 /\ x19 = 0 /\ x20 = 0
     \/ part = "edits" /\ E!Init /\ x18 = 0 /\ x19 = 0 /\ x20 = 0
     \/ part = "processes" /\ P!Init /\ x19 = 0 /\ x20 = 0
     \/ part = "terminals" /\ P!Init /\ x19 = 0 /\ x20 = 0
     \/ part = "logins" /\ K!Init /\ x11 = 0 /\ x12 = 0 /\ x13 = 0 /\ x14 = 0
        /\ x15 = 0 /\ x16 = 0 /\ x17 = 0 /\ x18 = 0 /\ x19 = 0 /\ x20 = 0
     \/ part = "withdrawals" /\ L!Init /\ x11 = 0 /\ x12 = 0 /\ x13 = 0
        /\ x14 = 0 /\ x15 = 0 /\ x16 = 0 /\ x17 = 0 /\ x18 = 0 /\ x19 = 0 /\ x20 = 0
     \/ part = "reports" /\ Y!Init /\ x20 = 0
     \/ part = "restarts" /\ Z!Init /\ x20 = 0
     \/ part = "agents" /\ G!Init /\ x12 = 0 /\ x13 = 0 /\ x14 = 0 /\ x15 = 0
        /\ x16 = 0 /\ x17 = 0 /\ x18 = 0 /\ x19 = 0 /\ x20 = 0
     \/ part = "models" /\ S!Init /\ x12 = 0 /\ x13 = 0
        /\ x14 = 0 /\ x15 = 0 /\ x16 = 0 /\ x17 = 0 /\ x18 = 0 /\ x19 = 0
        /\ x20 = 0
     \/ part = "handedits" /\ V!Init /\ x12 = 0 /\ x13 = 0
        /\ x14 = 0 /\ x15 = 0 /\ x16 = 0 /\ x17 = 0 /\ x18 = 0 /\ x19 = 0
        /\ x20 = 0
     \/ part = "hooks" /\ H!Init /\ x13 = 0 /\ x14 = 0
        /\ x15 = 0 /\ x16 = 0 /\ x17 = 0 /\ x18 = 0 /\ x19 = 0 /\ x20 = 0

UpdatesAlone == UNCHANGED <<part, x15, x16, x17, x18, x19, x20>>
RevertsAlone == UNCHANGED <<part, x15, x16, x17, x18, x19, x20>>
ApprovalsAlone == UNCHANGED <<part, x14, x15, x16, x17, x18, x19, x20>>
McpAlone == UNCHANGED <<part, x11, x12, x13, x14, x15, x16, x17, x18, x19,
  x20>>
ConnectionsAlone == UNCHANGED part
FilesAlone == UNCHANGED <<part, x12, x13, x14, x15, x16, x17, x18, x19, x20>>
DiffsAlone == UNCHANGED <<part, x18, x19, x20>>
ProcessesAlone == UNCHANGED <<part, x19, x20>>
TerminalsAlone == UNCHANGED <<part, x19, x20>>
LoginsAlone == UNCHANGED <<part, x11, x12, x13, x14, x15, x16, x17, x18, x19,
  x20>>
ReportsAlone == UNCHANGED <<part, x20>>
RestartsAlone == UNCHANGED <<part, x20>>
AgentsAlone == UNCHANGED <<part, x12, x13, x14, x15, x16, x17, x18, x19, x20>>
ModelsAlone == UNCHANGED <<part, x12, x13, x14, x15, x16, x17, x18, x19, x20>>
HooksAlone == UNCHANGED <<part, x13, x14, x15, x16, x17, x18, x19, x20>>

\* Without reverts (x6 is their stage); with one run only (x4 is the phase of runs),
\* or a second that goes on (that one ends during a revert is what MCUpdates shows);
\* without sessions of terminals (x15); without commands of agents (x11).
UpdatesStep == part = "updates" /\ U!Next /\ x6' = x6 /\ UpdatesAlone
RevertsStep == part = "reverts" /\ R!Next /\ x4'[r2] = "new" /\ RevertsAlone
BetweenStep == part = "between" /\ B!Next /\ x4'[r2] /= "freeing" /\ RevertsAlone
ApprovalsStep == part = "approvals" /\ A!Next /\ ApprovalsAlone
ToolsStep == part = "tools" /\ T!Next /\ ApprovalsAlone
McpStep == part = "mcp" /\ M!Next /\ McpAlone
ConnectionsStep == part = "connections" /\ C!Next /\ ConnectionsAlone
WritesStep == part = "writes" /\ W!Next /\ ConnectionsAlone
FilesStep == part = "files" /\ F!Next /\ FilesAlone
DiffsStep == part = "diffs" /\ D!Next /\ DiffsAlone
EditsStep == part = "edits" /\ E!Next /\ DiffsAlone
ProcessesStep == part = "processes" /\ P!Next /\ x15' = x15 /\ ProcessesAlone
TerminalsStep == part = "terminals" /\ P!Next /\ x11' = x11 /\ TerminalsAlone
LoginsStep == part = "logins" /\ K!Next /\ LoginsAlone
WithdrawalsStep == part = "withdrawals" /\ L!Next /\ LoginsAlone
ReportsStep == part = "reports" /\ Y!Next /\ ReportsAlone
RestartsStep == part = "restarts" /\ Z!Next /\ RestartsAlone
AgentsStep == part = "agents" /\ G!Next /\ AgentsAlone
ModelsStep == part = "models" /\ S!Next /\ ModelsAlone
HandEditsStep == part = "handedits" /\ V!Next /\ ModelsAlone
HooksStep == part = "hooks" /\ H!Next /\ HooksAlone

ServicesNext ==
  \/ UpdatesStep
  \/ RevertsStep
  \/ BetweenStep
  \/ ApprovalsStep
  \/ ToolsStep
  \/ McpStep
  \/ ConnectionsStep
  \/ WritesStep
  \/ FilesStep
  \/ DiffsStep
  \/ EditsStep
  \/ ProcessesStep
  \/ TerminalsStep
  \/ LoginsStep
  \/ WithdrawalsStep
  \/ ReportsStep
  \/ RestartsStep
  \/ AgentsStep
  \/ ModelsStep
  \/ HandEditsStep
  \/ HooksStep

servicesVars ==
  <<part, x1, x2, x3, x4, x5, x6, x7, x8, x9, x10, x11, x12, x13, x14, x15,
  x16, x17, x18, x19, x20>>

ServicesSpec == ServicesInit /\ [][ServicesNext]_servicesVars

\* Each part under the fairness that its module states.
ServicesFairness ==
  /\ \A p \in {r1, r2, v1, v2} : WF_servicesVars(part = "reverts" /\ R!PublisherStep(p) /\ RevertsAlone)
  /\ WF_servicesVars(part = "reverts" /\ R!View /\ RevertsAlone)
  /\ WF_servicesVars(part = "reverts" /\ R!StartListener /\ RevertsAlone)
  /\ \A q \in {c1, c2} : WF_servicesVars(part = "approvals" /\ A!CallStep(q) /\ ApprovalsAlone)
  /\ WF_servicesVars(part = "approvals" /\ A!CloseReturns /\ ApprovalsAlone)
  /\ \A u \in {r1, r2} : WF_servicesVars(part = "mcp" /\ M!Step(u) /\ McpAlone)
  /\ WF_servicesVars(part = "mcp" /\ M!CloseReturns /\ McpAlone)
  /\ WF_servicesVars(part = "connections" /\ C!SubStep(s1) /\ ConnectionsAlone)
  /\ WF_servicesVars(part = "connections" /\ C!Waits(c1) /\ ConnectionsAlone)
  /\ WF_servicesVars(part = "connections" /\ C!Work(c1) /\ ConnectionsAlone)
  /\ WF_servicesVars(part = "connections" /\ C!End /\ ConnectionsAlone)
  /\ \A c \in SessionWrites : WF_servicesVars(part = "writes" /\ W!Waits(c) /\ ConnectionsAlone)
  /\ \A c \in SessionWrites : WF_servicesVars(part = "writes" /\ W!Work(c) /\ ConnectionsAlone)
  /\ WF_servicesVars(part = "writes" /\ W!End /\ ConnectionsAlone)
  /\ \A w \in {a1, a2, ed} : WF_servicesVars(part = "files" /\ F!Working(w) /\ FilesAlone)
  /\ WF_servicesVars(part = "terminals" /\ P!Runs(t1) /\ TerminalsAlone)
  /\ WF_servicesVars(part = "terminals" /\ P!Killed(t1) /\ TerminalsAlone)
  /\ WF_servicesVars(part = "terminals" /\ P!Drain(t1) /\ TerminalsAlone)
  /\ WF_servicesVars(part = "terminals" /\ P!GoneEnds(t1) /\ TerminalsAlone)
  /\ WF_servicesVars(part = "terminals" /\ P!SessionEnds(t1) /\ TerminalsAlone)
  /\ WF_servicesVars(part = "terminals" /\ P!ControlEnds(t1) /\ ~P!Lives(t1) /\ TerminalsAlone)

FairServicesSpec == ServicesSpec /\ ServicesFairness

-----------------------------------------------------------------------------
(* The properties, each of the part that it is about.                      *)

UpdatesHold ==
  /\ part = "updates" => U!TypeOK /\ U!ClockKept /\ U!UpdatesInOrder
  /\ part = "reverts" => R!UpdatesInOrder /\ R!QuietIsCaughtUp
  /\ part = "between" => B!TypeOK /\ B!UpdatesInOrder /\ B!QuietIsCaughtUp
DecisionsHold ==
  /\ part = "approvals" => A!TypeOK /\ A!DecisionsCount /\ A!LatestIsCurrent /\ A!ClosedIsEmpty
  /\ part = "tools" => T!TypeOK /\ T!DecisionsCount /\ T!LatestIsCurrent /\ T!ClosedIsEmpty
RuntimesHold == part = "mcp" => M!TypeOK /\ M!PinnedStaysOpen /\ M!NothingLeaks /\ M!RefsCount
NotificationsHold == part = "connections" =>
  C!TypeOK /\ C!NothingLost /\ C!AfterResponse /\ C!ClosedHearsNothing
WritesHold == part = "writes" =>
  W!TypeOK /\ W!RunsOnce /\ W!NothingStalls /\ W!ClosedHearsNothing
FilesHold ==
  /\ part = "files" => F!TypeOK /\ F!ExactIsTrue
  /\ part = "diffs" => D!TypeOK /\ D!ShownUnlessTorn
  /\ part = "edits" => E!TypeOK /\ E!ShownUnlessTorn
ProcessesHold == part \in {"processes", "terminals"} =>
  P!TypeOK /\ P!ExitIsWhole /\ P!CleanCloseLeavesNothing
ReportsHold ==
  /\ part = "reports" => Y!TypeOK /\ Y!RecordedOnce /\ Y!StartsInformed /\ Y!WaitMissesNothing
  /\ part = "restarts" => Z!TypeOK /\ Z!RecordedOnce /\ Z!StartsInformed
SettingsHold ==
  /\ part = "agents" => G!TypeOK /\ G!ChoiceExists /\ G!ListIsWhole
  /\ part = "models" => S!TypeOK /\ S!ModelsFit /\ S!CurrentIsDisk
  /\ part = "handedits" => V!TypeOK /\ V!ModelsFit /\ V!CurrentIsDisk
  /\ part = "hooks" => H!TypeOK /\ H!RunsConfirmed /\ H!ConfirmedStaysApart /\ H!NothingOverwritten
LoginsHold ==
  [][/\ part = "logins" => K!NewLoginStays /\ K!LoggedOutIsOut
     /\ part = "withdrawals" => L!NewLoginStays /\ L!LoggedOutIsOut]_servicesVars
StepsHold ==
  [][/\ part = "approvals" => A!ClosedGrantsNothing
     /\ part = "tools" => T!ClosedGrantsNothing
     /\ part = "files" => F!NoLostWrite
     /\ part = "diffs" => D!UndoesItsRun
     /\ part = "edits" => E!UndoesItsRun]_servicesVars

Waits(i) ==
  CASE part = "reverts" -> R!Numbered(i)
    [] part = "approvals" -> A!IsClosed
    [] part = "mcp" -> M!IsClosed
    [] part = "connections" -> C!Gone
    [] part = "writes" -> W!Gone
    [] part = "files" -> F!Waits(<<a1, a2, ed, a1>>[i])
    [] part = "terminals" -> P!Left(t1)
    [] OTHER -> FALSE
Served(i) ==
  CASE part = "reverts" -> R!Served(i)
    [] part = "approvals" -> A!Closed
    [] part = "mcp" -> M!Closed
    [] part = "connections" -> C!Ended
    [] part = "writes" -> W!Ended
    [] part = "files" -> F!Over(<<a1, a2, ed, a1>>[i])
    [] part = "terminals" -> P!Over(t1)
    [] OTHER -> FALSE
EverythingEnds == \A i \in 1..4 : Waits(i) ~> Served(i)
=============================================================================

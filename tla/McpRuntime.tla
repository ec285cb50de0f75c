----------------------------- MODULE McpRuntime -----------------------------
(***************************************************************************)
(* The connections of tools/mcp: Provider.state pins a version of the MCP  *)
(* configuration to each run, builds its connections once for all who wait *)
(* for them, and closes them when the last run that uses a replaced        *)
(* version is over.  Saving the settings replaces every version, and Close *)
(* waits for what is being built.  The connections of no project, which    *)
(* only the settings page uses, are made and closed the same way and left  *)
(* out.                                                                    *)
(*                                                                         *)
(* A version of the connections (workspaceState) is a number; 0 is none.   *)
(* One step of a run lies between two of its uses of Provider.mu or        *)
(* between two reads of the files.                                         *)
(***************************************************************************)
EXTENDS FiniteSets, Naturals

CONSTANTS Runs,       \* runs that work in one project
          MaxStates,  \* bound: versions of the connections at one time
          MaxEdits    \* bound: changes of each configuration file

VARIABLES
  where,     \* [Runs -> where the run is in Provider.state]
  plan,      \* [Runs -> the version of the files its plan was read from]
  at,        \* [Runs -> the connections it refers to, or 0]
  stopped,   \* the runs whose context is cancelled
  states,    \* [1..MaxStates -> workspaceState]
  current,   \* Provider.current: the connections of the project, or 0
  runs,      \* Provider.runs: [Runs -> connections or 0]
  saving,    \* a save whose invalidateAll is still to come
  file,      \* the versions of mcp.json and of the project's file
  provider   \* "open", "closed" (Close waits) or "done"

mcpVars == <<where, plan, at, stopped, states, current, runs, file, saving, provider>>

Inside == {"planned", "waiting", "confirming", "connecting", "leaving"}

Fresh == [of |-> 0, refs |-> 0, building |-> FALSE,
          built |-> FALSE, bad |-> FALSE, retry |-> FALSE, retired |-> FALSE,
          open |-> FALSE]

TypeOK ==
  /\ where \in [Runs -> {"out", "over", "pinned", "failed"} \cup Inside]
  /\ at \in [Runs -> 0..MaxStates] /\ stopped \subseteq Runs
  /\ \A s \in 1..MaxStates : states[s].refs \in 0..Cardinality(Runs)
  /\ current \in 0..MaxStates /\ runs \in [Runs -> 0..MaxStates]
  /\ file \in [{"global", "project"} -> 0..MaxEdits]
  /\ provider \in {"open", "closed", "done"}

Init ==
  /\ where = [u \in Runs |-> "out"]
  /\ plan = [u \in Runs |-> 0]
  /\ at = [u \in Runs |-> 0]
  /\ stopped = {}
  /\ states = [s \in 1..MaxStates |-> Fresh]
  /\ current = 0
  /\ runs = [r \in Runs |-> 0]
  /\ file = [p \in {"global", "project"} |-> 0]
  /\ saving = FALSE
  /\ provider = "open"

\* What plans are compared by: a plan rests on both files.
Version == file["global"] + (MaxEdits + 1) * file["project"]

\* A replaced version nobody uses is closed, and its number may be used again;
\* one that is still being built is closed when its last user leaves.
Unused_Ever(state) == state.retired /\ state.built
Unused(state) == state.retired /\ state.built /\ state.refs = 0

Collect(all, s) == IF Unused(all[s]) THEN [all EXCEPT ![s] = Fresh] ELSE all

Retire(all, s) ==
  IF s = 0 THEN all ELSE Collect([all EXCEPT ![s].retired = TRUE], s)

Goes(u, to) == where' = [where EXCEPT ![u] = to]

-----------------------------------------------------------------------------
(* Provider.state.                                                         *)

\* Nothing is pinned yet: the plan is read from the files with no lock held.
Plan(u) ==
  /\ where[u] = "out"
  /\ IF provider /= "open" THEN Goes(u, "failed") /\ UNCHANGED plan
     ELSE Goes(u, "planned") /\ plan' = [plan EXCEPT ![u] = Version]
  /\ UNCHANGED <<at, stopped, states, current, runs, file, saving, provider>>

\* The current connections serve the plan unless they are of another version
\* or should be tried again.
Serves(s, u) == /\ s /= 0 /\ states[s].of = plan[u]
                /\ ~(states[s].built /\ states[s].retry)

Enter(u) ==
  LET old == current
      gone == IF Serves(old, u) THEN states ELSE Retire(states, old)
      free == {s \in 1..MaxStates : gone[s] = Fresh}
      s == IF Serves(old, u) THEN old ELSE CHOOSE f \in free : \A g \in free : f <= g
      kept == IF Serves(old, u) THEN states
              ELSE [gone EXCEPT ![s] =
                     [Fresh EXCEPT !.of = plan[u], !.building = TRUE]]
  IN /\ where[u] = "planned"
     /\ IF provider /= "open"
        THEN Goes(u, "failed") /\ UNCHANGED <<at, states, current, runs>>
        ELSE /\ Serves(old, u) \/ free /= {}
             /\ states' = [kept EXCEPT ![s].refs = @ + 1]
             /\ current' = s
             /\ runs' = [r \in Runs |-> IF r = u THEN s ELSE runs[r]]
             /\ at' = [at EXCEPT ![u] = s]
             /\ Goes(u, IF Serves(old, u) THEN "waiting" ELSE "confirming")
     /\ UNCHANGED <<plan, stopped, file, saving, provider>>

Built(u, bad, retry, open) ==
  /\ states' = [states EXCEPT ![at[u]] =
       [@ EXCEPT !.building = FALSE, !.built = TRUE, !.bad = bad,
                 !.retry = retry, !.open = open]]
  /\ Goes(u, "leaving")

\* The builder asks for the trust of the project's servers.  Denied, it goes
\* on without them; confirmed, the files must not have changed meanwhile.
Confirm(u) ==
  /\ where[u] = "confirming"
  /\ \/ /\ plan[u] = Version
        /\ Goes(u, "connecting")
        /\ UNCHANGED states
     \/ Built(u, FALSE, TRUE, TRUE)
     \/ /\ u \in stopped \/ plan[u] /= Version
        /\ Built(u, TRUE, TRUE, FALSE)
  /\ UNCHANGED <<plan, at, stopped, current, runs, file, saving, provider>>

\* The servers are connected one after the other; one that fails is left out
\* (and asks for another try), a cancelled builder fails all.
Connect(u) ==
  /\ where[u] = "connecting"
  /\ \/ u \notin stopped /\ Built(u, FALSE, FALSE, TRUE)
     \/ u \notin stopped /\ Built(u, FALSE, TRUE, TRUE)
     \/ u \in stopped /\ Built(u, TRUE, TRUE, FALSE)
  /\ UNCHANGED <<plan, at, stopped, current, runs, file, saving, provider>>

\* sync.Once: the others wait for the builder, whatever their own context.
Wait(u) ==
  /\ where[u] = "waiting" /\ ~states[at[u]].building
  /\ Goes(u, "leaving")
  /\ UNCHANGED <<plan, at, stopped, states, current, runs, file, saving, provider>>

\* A run that succeeded keeps its reference; one that met an error gives it
\* back.
Keeps_Always(u) == TRUE
Keeps(u) == ~states[at[u]].bad

Leave(u) ==
  LET s == at[u] IN
  /\ where[u] = "leaving"
  /\ IF Keeps(u)
     THEN /\ Goes(u, "pinned")
          /\ UNCHANGED <<at, states, runs>>
     ELSE /\ states' = Collect([states EXCEPT ![s].refs = @ - 1], s)
          /\ runs' = [r \in Runs |-> IF r = u THEN 0 ELSE runs[r]]
          /\ at' = [at EXCEPT ![u] = 0]
          /\ Goes(u, "failed")
  /\ plan' = [plan EXCEPT ![u] = 0]
  /\ UNCHANGED <<stopped, current, file, saving, provider>>

-----------------------------------------------------------------------------
(* The ends of a run, the settings and the provider.                       *)

StopRun(r) ==
  /\ r \in Runs \ stopped /\ where[r] \in Inside
  /\ stopped' = stopped \cup {r}
  /\ UNCHANGED <<where, plan, at, states, current, runs, file, saving, provider>>

ReleaseRun(r) ==
  /\ where[r] = "pinned"
  /\ Goes(r, "over")
  /\ at' = [at EXCEPT ![r] = 0]
  /\ IF runs[r] = 0 THEN UNCHANGED <<runs, states>>
     ELSE /\ runs' = [runs EXCEPT ![r] = 0]
          /\ states' = Collect([states EXCEPT ![runs[r]].refs = @ - 1], runs[r])
  /\ UNCHANGED <<plan, stopped, current, file, saving, provider>>

\* writeGlobal: a save that names the version it changes.  The versions in
\* use are retired later, by invalidateAll.
Save ==
  /\ file["global"] < MaxEdits
  /\ file' = [file EXCEPT !["global"] = @ + 1]
  /\ saving' = TRUE
  /\ UNCHANGED <<where, plan, at, stopped, states, current, runs, provider>>

Invalidate ==
  /\ saving
  /\ saving' = FALSE
  /\ states' = IF provider = "done" THEN states ELSE Retire(states, current)
  /\ current' = 0
  /\ UNCHANGED <<where, plan, at, stopped, runs, file, provider>>

\* The project's own file is changed by whoever edits it.
EditProject ==
  /\ file["project"] < MaxEdits
  /\ file' = [file EXCEPT !["project"] = @ + 1]
  /\ UNCHANGED <<where, plan, at, stopped, states, current, runs, saving, provider>>

\* The runner, closed before the provider, has stopped every run.
Close ==
  /\ provider = "open"
  /\ provider' = "closed"
  /\ stopped' = Runs
  /\ UNCHANGED <<where, plan, at, states, current, runs, file, saving>>

Referenced == {current} \cup {runs[r] : r \in Runs}

CloseReturns ==
  /\ provider = "closed"
  /\ \A u \in Runs : where[u] \notin Inside \ {"planned"}
  /\ provider' = "done"
  /\ states' = [s \in 1..MaxStates |->
                  IF s \in Referenced THEN [states[s] EXCEPT !.open = FALSE]
                  ELSE states[s]]
  /\ current' = 0
  /\ runs' = [r \in Runs |-> 0]
  /\ UNCHANGED <<where, plan, at, stopped, file, saving>>

Step(u) == \/ Enter(u) \/ Confirm(u) \/ Connect(u) \/ Wait(u) \/ Leave(u)

Next == \/ \E u \in Runs : Plan(u) \/ Step(u)
        \/ \E r \in Runs : StopRun(r) \/ ReleaseRun(r)
        \/ Save \/ Invalidate \/ EditProject \/ Close \/ CloseReturns

Fairness == (\A u \in Runs : WF_mcpVars(Step(u))) /\ WF_mcpVars(CloseReturns)

Spec == Init /\ [][Next]_mcpVars /\ Fairness

-----------------------------------------------------------------------------
(* Properties.                                                             *)

Holders(s) == Cardinality({u \in Runs : at[u] = s})

\* What a run has pinned stays connected until it is released, whatever is
\* saved or replaced meanwhile (runtime.go:366-410); only Close takes it.
PinnedStaysOpen == \A r \in Runs :
  where[r] = "pinned" /\ provider /= "done" => states[at[r]].open

\* Connections stay open only while somebody can still use or close them:
\* they are current or held, and after Close none is (runtime.go:140-153,
\* 404-455).
NothingLeaks == \A s \in 1..MaxStates : states[s].open =>
  /\ s \in Referenced \/ Holders(s) > 0
  /\ provider /= "done"

\* The count of references is the number of its holders, except that Close
\* forgets who holds what (runtime.go:130, 146, 373).
RefsCount == provider /= "done" =>
  \A s \in 1..MaxStates : states[s].refs = Holders(s)

\* Close waits for everybody who is inside, and returns (runtime.go:404-455).
IsClosed == provider = "closed"
Closed == provider = "done"
CloseEnds == IsClosed ~> Closed
=============================================================================

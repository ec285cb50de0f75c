------------------------------ MODULE RunDiffs ------------------------------
(***************************************************************************)
(* What a session keeps of the files its runs changed, and reverts:        *)
(* runner/diff_store.go, with records.go, the live runs of emit.go and the *)
(* restart.  A body holds the net change of a run with its contents, the   *)
(* record of the run the summary of it that clients see; they are two      *)
(* files, written one after the other.                                     *)
(*                                                                         *)
(* The net change itself is the subject of FileChanges.                    *)
(***************************************************************************)
EXTENDS Naturals, Sequences

CONSTANTS Runs,         \* 1..n: the runs of the session, in their order
          Paths,
          First,        \* what the files hold at the beginning
          Edited,       \* what the user makes of a file
          Fresh,        \* bound: what each patch makes of a file, if it undoes nothing
          MaxFaults     \* bound: restarts of the process, failed writes of the store

Unset == "none"

VARIABLES
  disk,       \* [Paths -> content]
  live,       \* r.live: the run under way
  shown,      \* its diffSummary: the revision, 0 when there is none
  net,        \* its tracker: [Paths -> [old, new]]
  exact,      \* can the tracker still be trusted
  status,     \* [Runs -> RunStatus in its record]
  summary,    \* [Runs -> Diff of its record]
  body,       \* [Runs -> runDiffBody]
  reconciled, \* r.reconciled of the session
  holder,     \* recordsMu: who holds it
  todo,       \* [run, revert -> what it has to store, and how far it is]
  idle,       \* a revert that found no run under way: its request
  view,       \* the diff the client looks at
  before,     \* history: [Runs -> [Paths -> what another left there last]]
  torn,       \* history: the runs whose body failed to be written, neither
              \* stored nor compared since
  changes, faults

diffVars == <<disk, live, shown, net, exact, status, summary, body, reconciled, holder,
              todo, idle, view, before, torn, changes, faults>>

NoFile == [old |-> Unset, new |-> Unset]
NoChange == [p \in Paths |-> NoFile]
NoDiff == [rev |-> 0, files |-> NoChange]
Nothing == [run |-> 0, stage |-> Unset, diff |-> NoDiff, path |-> Unset]

NoView == [run |-> 0, diff |-> NoDiff]

Storers == {"run", "revert"}

TypeOK ==
  /\ disk \in [Paths -> {Fresh[i] : i \in DOMAIN Fresh} \cup {First, Edited}]
  /\ live \in Runs \cup {0} /\ shown \in Nat
  /\ status \in [Runs -> {"new", "running", "over"}]
  /\ reconciled \in BOOLEAN
  /\ holder \in {Unset, "run", "revert"}
  /\ torn \subseteq Runs
  /\ \A w \in Storers : todo[w].stage \in {Unset, "body", "record", "file", "failed"}
  /\ \A r \in Runs : summary[r].rev = 0 <=> summary[r].files = NoChange

Init ==
  /\ disk = [p \in Paths |-> First]
  /\ live = 0 /\ shown = 0 /\ net = NoChange /\ exact = TRUE
  /\ status = [r \in Runs |-> "new"]
  /\ summary = [r \in Runs |-> NoDiff]
  /\ body = [r \in Runs |-> NoDiff]
  /\ reconciled = FALSE
  /\ holder = Unset /\ todo = [w \in Storers |-> Nothing] /\ idle = Nothing
  /\ view = NoView
  /\ before = [r \in Runs |-> [p \in Paths |-> First]]
  /\ torn = {} /\ changes = 0 /\ faults = 0

Changed(files) == {p \in Paths : files[p] /= NoFile}
\* A diff of no files is none, and its body is removed.
Diff(rev, files) == IF Changed(files) = {} THEN NoDiff ELSE [rev |-> rev, files |-> files]

\* Somebody else than run r put c at p; 0 is the user.
LeftBy(r, p, c) ==
  before' = [q \in Runs |-> IF q = r THEN before[q] ELSE [before[q] EXCEPT ![p] = c]]

Does(w, what) == todo' = [todo EXCEPT ![w] = what]
Free == holder' = Unset

-----------------------------------------------------------------------------
(* A run.                                                                  *)

StartRun(r) ==
  /\ live = 0 /\ status[r] = "new" /\ \A q \in 1..r - 1 : status[q] /= "new"
  /\ live' = r
  /\ status' = [status EXCEPT ![r] = "running"]
  /\ shown' = 0 /\ net' = NoChange /\ exact' = TRUE
  /\ UNCHANGED <<disk, summary, body, reconciled, holder, todo, idle, view,
                 before, torn, changes, faults>>

\* apply_patch changed a file, and the net change of the run follows, unless
\* somebody else changed the file meanwhile: then the run has none any more.
Known(p) == exact /\ (net[p] = NoFile \/ net[p].new = disk[p])
NetOf(p, c) ==
  LET old == IF net[p] = NoFile THEN disk[p] ELSE net[p].old
  IN  IF ~Known(p) THEN NoChange
      ELSE [net EXCEPT ![p] = IF old = c THEN NoFile ELSE [old |-> old, new |-> c]]

Makes(p, c) ==
  /\ live /= 0 /\ todo["run"] = Nothing /\ c /= disk[p]
  /\ changes' = changes + 1
  /\ disk' = [disk EXCEPT ![p] = c]
  /\ LeftBy(live, p, c)
  /\ net' = NetOf(p, c)
  /\ exact' = Known(p)
  /\ IF exact THEN Does("run", [run |-> live, stage |-> "body", path |-> Unset,
                                diff |-> Diff(shown + 1, NetOf(p, c))])
     ELSE UNCHANGED todo
  /\ UNCHANGED <<live, shown, status, summary, body, reconciled, holder, idle,
                 view, torn, faults>>

\* Something nobody made before, or what the run itself had found.
Change(p) == /\ changes < Len(Fresh)
             /\ \E c \in {Fresh[changes + 1], net[p].old} \ {Unset} : Makes(p, c)

\* persistLiveDiff takes recordsMu.
Persist ==
  /\ todo["run"].stage = "body" /\ holder = Unset
  /\ holder' = "run"
  /\ UNCHANGED <<disk, live, shown, net, exact, status, summary, body, reconciled,
                 todo, idle, view, before, torn, changes, faults>>

EndRun ==
  /\ live /= 0 /\ todo["run"].stage \in {Unset, "failed"} /\ holder = Unset
  /\ Does("run", Nothing)
  /\ status' = [status EXCEPT ![live] = "over"]
  /\ live' = 0 /\ shown' = 0 /\ net' = NoChange /\ exact' = TRUE
  /\ UNCHANGED <<disk, summary, body, reconciled, holder, idle, view, before,
                 torn, changes, faults>>

-----------------------------------------------------------------------------
(* storeDiffLocked, for a run and for a revert.                            *)

StoreBody ==
  /\ holder /= Unset /\ todo[holder].stage = "body"
  /\ body' = [body EXCEPT ![todo[holder].run] = todo[holder].diff]
  /\ Does(holder, [todo[holder] EXCEPT !.stage = "record"])
  /\ UNCHANGED <<disk, live, shown, net, exact, status, summary, reconciled, holder,
                 idle, view, before, torn, changes, faults>>

StoreRecord ==
  /\ holder /= Unset /\ todo[holder].stage = "record"
  /\ summary' = [summary EXCEPT ![todo[holder].run] = todo[holder].diff]
  /\ shown' = IF holder = "run" THEN todo[holder].diff.rev ELSE shown
  /\ torn' = torn \ {todo[holder].run}
  /\ Free /\ Does(holder, Nothing)
  /\ UNCHANGED <<disk, live, net, exact, status, body, reconciled, idle, view, before,
                 changes, faults>>

\* A write or a removal of persist may have taken effect though it failed,
\* when the directory was synchronised.
MayHave(file, r, diff) == {file, [file EXCEPT ![r] = diff]}

\* A record that could not be saved has the next reader compare the two.
AfterFailure_Kept == reconciled
AfterFailure == FALSE

\* A run that cannot store its diff fails.
StoreFails ==
  /\ holder /= Unset
  /\ \/ /\ todo[holder].stage = "body"
        /\ body' \in MayHave(body, todo[holder].run, todo[holder].diff)
        /\ torn' = torn \cup {todo[holder].run}
        /\ UNCHANGED <<summary, reconciled>>
     \/ /\ todo[holder].stage = "record"
        /\ summary' \in MayHave(summary, todo[holder].run, todo[holder].diff)
        /\ reconciled' = AfterFailure
        /\ UNCHANGED <<body, torn>>
  /\ faults < MaxFaults
  /\ faults' = faults + 1
  /\ Free
  /\ Does(holder, IF holder = "run" THEN [Nothing EXCEPT !.stage = "failed"] ELSE Nothing)
  /\ UNCHANGED <<disk, live, shown, net, exact, status, idle, view, before, changes>>

\* reconcileDiffsLocked: the records follow the bodies.
Adopted == [r \in Runs |-> IF status[r] = "new" THEN summary[r] ELSE body[r]]
Reconcile ==
  /\ summary' = IF reconciled THEN summary ELSE Adopted
  /\ torn' = IF reconciled THEN torn ELSE {}
  /\ reconciled' = TRUE

\* The records could not be saved, or only seemed not to be.
ReconcileFails ==
  /\ holder = Unset /\ ~reconciled /\ faults < MaxFaults
  /\ faults' = faults + 1
  /\ summary' = Adopted
  /\ UNCHANGED <<disk, live, shown, net, exact, status, body, reconciled, holder, todo,
                 idle, view, before, torn, changes>>

\* interruptStaleRecords
Interrupted == [r \in Runs |-> IF status[r] = "running" /\ live /= r THEN "over" ELSE status[r]]

\* A snapshot, ReadRunDiffFile: what the client then looks at.
Look(r) ==
  /\ holder = Unset /\ status[r] /= "new"
  /\ Reconcile
  /\ status' = Interrupted
  /\ view' = IF summary'[r] = NoDiff THEN NoView ELSE [run |-> r, diff |-> summary'[r]]
  /\ UNCHANGED <<disk, live, shown, net, exact, body, holder, todo, idle, before,
                 changes, faults>>

-----------------------------------------------------------------------------
(* RevertRunDiffFile, of a file the client looks at.                       *)

Revert(p) ==
  /\ idle = Nothing /\ view.run /= 0 /\ view.diff.files[p] /= NoFile
  /\ live = 0
  /\ idle' = [run |-> view.run, stage |-> Unset, diff |-> view.diff, path |-> p]
  /\ view' = NoView
  /\ UNCHANGED <<disk, live, shown, net, exact, status, summary, body, reconciled,
                 holder, todo, before, torn, changes, faults>>

SameRevision == body[idle.run].rev = idle.diff.rev

RevertRefused == \/ summary'[idle.run] = NoDiff \/ status[idle.run] = "running"
                 \/ ~SameRevision
                 \/ body[idle.run].files[idle.path] = NoFile

RevertChecks ==
  /\ idle /= Nothing /\ holder = Unset
  /\ Reconcile
  /\ idle' = Nothing
  /\ IF RevertRefused THEN UNCHANGED <<holder, todo>>
     ELSE /\ holder' = "revert"
          /\ Does("revert", [idle EXCEPT !.stage = "file", !.diff = body[idle.run]])
  /\ UNCHANGED <<disk, live, shown, net, exact, status, body, view, before, changes,
                 faults>>

\* revertFile, by the hash the run left.
Unchanged_Any(p) == TRUE
Unchanged(p) == disk[p] = todo["revert"].diff.files[p].new

RevertFile ==
  /\ todo["revert"].stage = "file"
  /\ LET p == todo["revert"].path
         d == todo["revert"].diff
     IN IF Unchanged(p)
        THEN /\ disk' = [disk EXCEPT ![p] = d.files[p].old]
             /\ LeftBy(0, p, d.files[p].old)
             /\ Does("revert", [todo["revert"] EXCEPT !.stage = "body",
                                 !.diff = Diff(d.rev + 1, [d.files EXCEPT ![p] = NoFile])])
             /\ UNCHANGED holder
        ELSE Free /\ Does("revert", Nothing) /\ UNCHANGED <<disk, before>>
  /\ UNCHANGED <<live, shown, net, exact, status, summary, body, reconciled, idle,
                 view, torn, changes, faults>>

-----------------------------------------------------------------------------

\* The user edits a file.
Edit(p) ==
  /\ \A q \in Paths : disk[q] /= Edited
  /\ disk' = [disk EXCEPT ![p] = Edited]
  /\ LeftBy(0, p, Edited)
  /\ UNCHANGED <<live, shown, net, exact, status, summary, body, reconciled, holder,
                 todo, idle, view, torn, changes, faults>>

Restart ==
  /\ faults < MaxFaults
  /\ faults' = faults + 1
  /\ live' = 0 /\ shown' = 0 /\ net' = NoChange /\ exact' = TRUE
  /\ reconciled' = FALSE
  /\ Free /\ todo' = [w \in Storers |-> Nothing] /\ idle' = Nothing
  /\ UNCHANGED <<disk, status, summary, body, view, before, torn, changes>>

Next == \/ \E r \in Runs : StartRun(r) \/ Look(r)
        \/ \E p \in Paths : Revert(p) \/ Edit(p) \/ Change(p)
        \/ Persist \/ EndRun \/ StoreBody \/ StoreRecord \/ StoreFails
        \/ ReconcileFails \/ RevertChecks \/ RevertFile \/ Restart

Spec == Init /\ [][Next]_diffVars

-----------------------------------------------------------------------------
(* Properties.                                                             *)

\* Once compared, the diff that clients see of a run is the one a revert
\* works with (diff_store.go:103), unless the body of that run failed to be
\* written: the file may hold the new diff while the session still counts as
\* compared (68-79), until the diff is stored again or the session is opened
\* again.  No other failure, of a record or of the process, parts the two for
\* good (81-106 and 344-374).
ShownUnlessTorn == reconciled /\ holder = Unset =>
  \A r \in Runs \ torn : status[r] /= "new" => summary[r] = body[r]

\* A revert gives a file back as it was before the run touched it and after
\* the last thing anybody else did to it, unless that was to put back what
\* the run had left: it undoes the work of its run and no other
\* (diff_store.go:197-215).
UndoesItsRun ==
  LET t == todo["revert"] IN
  t.stage = "file" /\ todo'["revert"].stage = "body" =>
    before[t.run][t.path] \in {disk'[t.path], disk[t.path]}
=============================================================================

---------------------------- MODULE FileChanges ----------------------------
(***************************************************************************)
(* The files that agents, the editor and reverts change together:          *)
(* tools/applypatch, machine/local (files.go, agent_files.go) and the net  *)
(* change a run keeps of them, runner/diff_tracker.go.                     *)
(*                                                                         *)
(* A writer reads the files it is going to change, may wait a long time    *)
(* for an approval, then takes the locks of all its paths and replaces     *)
(* each file only if it still is what was read.  An agent's changes are    *)
(* made by a helper process that is killed when its run is stopped.        *)
(***************************************************************************)
EXTENDS FiniteSets, Naturals, Sequences

CONSTANTS Agents,      \* runs that call apply_patch
          Editors,     \* saves of the editor and reverts of a diff
          Paths,       \* sorted as numbers, as canonicalPath sorts names
          Plans,       \* [writer -> the patches it may make]
          Original,    \* [Paths -> what the files hold at first]
          Absent,      \* AbsentFileHash: no file
          MaxPatches,  \* bound: [writer -> its patches]
          MaxWriters   \* bound: writers that ever begin

Writers == Agents \cup Editors
Unset == "none"

VARIABLES
  disk,      \* [Paths -> content]
  locks,     \* fileLocks: [Paths -> the writer that holds it]
  stage,     \* [Writers -> where it is]
  plan,      \* [Writers -> its changes: a sequence of <<path, content>>]
  seen,      \* [Writers -> [Paths -> expectedHash, oldContent]]
  wrote,     \* [Writers -> changes its helper made]
  completed, \* [Writers -> those it has reported]
  exact,     \* [Writers -> is FileCommit.Exact]
  patches,   \* [Writers -> patches begun]
  diff,      \* [Agents -> turnDiffTracker]
  own        \* history: [Agents -> [Paths -> what it wrote last, and what it
             \* had found there before]]

fileVars == <<disk, locks, stage, plan, seen, wrote, completed, exact, patches,
              diff, own>>

NoFile == [baseline |-> Unset, current |-> Unset]
Contents == UNION {{Original[p] : p \in Paths}, {Absent},
                   {c[2] : c \in UNION {{q[i] : i \in DOMAIN q} : q \in UNION {Plans[w] : w \in Writers}}}}

TypeOK ==
  /\ disk \in [Paths -> Contents]
  /\ locks \in [Paths -> Writers \cup {Unset}]
  /\ stage \in [Writers -> {"idle", "reading", "asking", "locking", "checking",
                            "writing", "reporting", "unlocking", "applying"}]
  /\ \A w \in Writers : completed[w] <= wrote[w] /\ wrote[w] <= Len(plan[w])
  /\ \A a \in Agents : diff[a].exact \in BOOLEAN

Init ==
  /\ disk = Original
  /\ locks = [p \in Paths |-> Unset]
  /\ stage = [w \in Writers |-> "idle"]
  /\ plan = [w \in Writers |-> <<>>]
  /\ seen = [w \in Writers |-> [p \in Paths |-> Unset]]
  /\ wrote = [w \in Writers |-> 0]
  /\ completed = [w \in Writers |-> 0]
  /\ exact = [w \in Writers |-> TRUE]
  /\ patches = [w \in Writers |-> 0]
  /\ diff = [a \in Agents |-> [exact |-> TRUE, files |-> [p \in Paths |-> NoFile]]]
  /\ own = [a \in Agents |-> [p \in Paths |-> NoFile]]

Goes(w, to) == stage' = [stage EXCEPT ![w] = to]
PathsOf(w) == {plan[w][i][1] : i \in DOMAIN plan[w]}
Held(w) == {p \in Paths : locks[p] = w}
Unread(w) == {p \in PathsOf(w) : seen[w][p] = Unset}
Current(w) == plan[w][wrote[w] + 1]

-----------------------------------------------------------------------------

\* A call of apply_patch, or a save.
Begin(w) ==
  /\ stage[w] = "idle" /\ patches[w] < MaxPatches[w]
  /\ Cardinality({v \in Writers : patches[v] > 0} \cup {w}) <= MaxWriters
  /\ \E q \in Plans[w] : plan' = [plan EXCEPT ![w] = q]
  /\ patches' = [patches EXCEPT ![w] = @ + 1]
  /\ Goes(w, "reading")
  /\ UNCHANGED <<disk, locks, seen, wrote, completed, exact, diff, own>>

\* prepareChanges: ReadFileVersion waits for the lock of the path.  A file
\* that is not there can only be added.
Read(w) ==
  /\ stage[w] = "reading"
  /\ \E p \in Unread(w) :
       /\ locks[p] = Unset
       /\ \A q \in Unread(w) : p <= q
       /\ seen' = [seen EXCEPT ![w][p] = disk[p]]
       /\ Goes(w, IF disk[p] = Absent /\ <<p, Absent>> \in {plan[w][i] : i \in DOMAIN plan[w]}
                  THEN "unlocking"
                  ELSE IF Unread(w) /= {p} THEN "reading" ELSE "asking")
  /\ UNCHANGED <<disk, locks, plan, wrote, completed, exact, patches, diff, own>>

\* Authorize, with no lock held; an editor's hash has been read long before.
Allow(w) ==
  /\ stage[w] = "asking"
  /\ Goes(w, "locking")
  /\ UNCHANGED <<disk, locks, plan, seen, wrote, completed, exact, patches,
                 diff, own>>

Deny(w) ==
  /\ stage[w] = "asking"
  /\ Goes(w, "unlocking")
  /\ UNCHANGED <<disk, locks, plan, seen, wrote, completed, exact, patches,
                 diff, own>>

\* AgentApplyChanges: every path of the batch, in the order of their names.
LockOrder_AsWritten(w) == LET i == CHOOSE i \in DOMAIN plan[w] :
                                     /\ plan[w][i][1] \notin Held(w)
                                     /\ \A j \in 1..i - 1 : plan[w][j][1] \in Held(w)
                          IN  plan[w][i][1]
LockOrder(w) == CHOOSE p \in PathsOf(w) \ Held(w) :
                  \A q \in PathsOf(w) \ Held(w) : p <= q

MayLock_Shared(w, p) == TRUE
MayLock(w, p) == locks[p] = Unset

Lock(w) ==
  /\ stage[w] = "locking"
  /\ MayLock(w, LockOrder(w))
  /\ locks' = [locks EXCEPT ![LockOrder(w)] = w]
  /\ Goes(w, IF PathsOf(w) \ Held(w) = {LockOrder(w)} THEN "checking" ELSE "locking")
  /\ UNCHANGED <<disk, plan, seen, wrote, completed, exact, patches, diff, own>>

\* WriteFileIfUnchanged, RemoveFileIfUnchanged: the file as it is now against
\* the hash that was read.  A file that is gone is an error of its own, after
\* which nobody knows what was done.
Check(w) ==
  /\ stage[w] = "checking"
  /\ LET p == Current(w)[1] IN
     IF disk[p] = seen[w][p] THEN Goes(w, "writing") /\ UNCHANGED exact
     ELSE /\ Goes(w, "unlocking")
          /\ exact' = [exact EXCEPT ![w] = disk[p] /= Absent]
  /\ UNCHANGED <<disk, locks, plan, seen, wrote, completed, patches, diff, own>>

\* What a run found at a path: where it finds what it left there itself, what
\* it had found the time before.
Found(a, p) == IF own[a][p].current = disk[p] THEN own[a][p].baseline ELSE disk[p]

Put(w, p, c) ==
  /\ disk' = [disk EXCEPT ![p] = c]
  /\ wrote' = [wrote EXCEPT ![w] = @ + 1]
  /\ own' = [a \in Agents |-> IF a /= w THEN own[a]
                              ELSE [own[a] EXCEPT ![p] = [baseline |-> Found(a, p), current |-> c]]]

\* replaceFile, or the creation or removal of the file.
Write(w) ==
  /\ stage[w] = "writing"
  /\ Put(w, Current(w)[1], Current(w)[2])
  /\ Goes(w, "reporting")
  /\ UNCHANGED <<locks, plan, seen, completed, exact, patches, diff>>

\* It fails: with the file as it was, or replaced but not synced.  What was
\* not there before cannot be told from what is not there now.
FailedExact(w, touched) == ~touched /\ seen[w][Current(w)[1]] /= Absent

WriteFails(w) ==
  /\ stage[w] = "writing"
  /\ \E touched \in BOOLEAN :
       /\ IF touched THEN Put(w, Current(w)[1], Current(w)[2])
          ELSE UNCHANGED <<disk, wrote, own>>
       /\ exact' = [exact EXCEPT ![w] = FailedExact(w, touched)]
  /\ Goes(w, "unlocking")
  /\ UNCHANGED <<locks, plan, seen, completed, patches, diff>>

\* The helper tells the host how far it is.
Report(w) ==
  /\ stage[w] = "reporting"
  /\ completed' = [completed EXCEPT ![w] = @ + 1]
  /\ Goes(w, IF wrote[w] = Len(plan[w]) THEN "unlocking" ELSE "checking")
  /\ UNCHANGED <<disk, locks, plan, seen, wrote, exact, patches, diff, own>>

\* The run is stopped.  A helper that began is killed, and the host knows
\* only what it had reported.
KilledExact_AsReported(w) == exact[w]
KilledExact(w) == FALSE

\* The killed helper is taken to be dead when its locks are given back: the
\* code waits for that for five seconds at most.
Stop(w) ==
  /\ w \in Agents
  /\ stage[w] \in {"asking", "locking", "checking", "writing", "reporting"}
  /\ exact' = [exact EXCEPT ![w] = IF stage[w] \in {"asking", "locking"} THEN TRUE
                                   ELSE KilledExact(w)]
  /\ Goes(w, "unlocking")
  /\ UNCHANGED <<disk, locks, plan, seen, wrote, completed, patches, diff, own>>

\* The locks are given back.
Unlock(w) ==
  /\ stage[w] = "unlocking"
  /\ locks' = [p \in Paths |-> IF locks[p] = w THEN Unset ELSE locks[p]]
  /\ Goes(w, "applying")
  /\ UNCHANGED <<disk, plan, seen, wrote, completed, exact, patches, diff, own>>

\* turnDiffTracker.Apply.
Broken == [exact |-> FALSE, files |-> [p \in Paths |-> NoFile]]

Follows_Always(file, old) == TRUE
Follows(file, old) == file = NoFile \/ file.current = old

ApplyChange(d, p, old, new) ==
  LET file == d.files[p]
      baseline == IF file = NoFile THEN old ELSE file.baseline
  IN  IF ~d.exact \/ ~Follows(file, old) THEN Broken
      ELSE [d EXCEPT !.files[p] = IF baseline = new THEN NoFile
                                  ELSE [baseline |-> baseline, current |-> new]]

\* The tracker after each of the changes that were reported.
After(a) ==
  LET after[i \in 0..completed[a]] ==
        IF i = 0 THEN diff[a]
        ELSE ApplyChange(after[i - 1], plan[a][i][1], seen[a][plan[a][i][1]], plan[a][i][2])
  IN  after

NetChange(a) == IF exact[a] THEN After(a)[completed[a]] ELSE Broken

\* The result of the call: the delta goes to the run.
Finish(w) ==
  /\ stage[w] = "applying"
  /\ diff' = [a \in Agents |-> IF a = w THEN NetChange(a) ELSE diff[a]]
  /\ plan' = [plan EXCEPT ![w] = <<>>]
  /\ seen' = [seen EXCEPT ![w] = [p \in Paths |-> Unset]]
  /\ wrote' = [wrote EXCEPT ![w] = 0]
  /\ completed' = [completed EXCEPT ![w] = 0]
  /\ exact' = [exact EXCEPT ![w] = TRUE]
  /\ Goes(w, "idle")
  /\ UNCHANGED <<disk, locks, patches, own>>

Working(w) ==
  \/ Read(w) \/ Allow(w) \/ Lock(w) \/ Check(w) \/ Write(w) \/ WriteFails(w)
  \/ Report(w) \/ Unlock(w) \/ Finish(w)

Next == \E w \in Writers :
  \/ Begin(w) \/ Read(w) \/ Allow(w) \/ Deny(w) \/ Lock(w) \/ Check(w) \/ Write(w)
  \/ WriteFails(w) \/ Report(w) \/ Stop(w) \/ Unlock(w) \/ Finish(w)

\* Approvals are answered, and file operations end.
Fairness == \A w \in Writers : WF_fileVars(Working(w))

Spec == Init /\ [][Next]_fileVars /\ Fairness

-----------------------------------------------------------------------------
(* Properties.                                                             *)

\* A file is replaced only by a writer that knows what it replaces: no patch,
\* save or revert overwrites what another one wrote after it had read
\* (files.go:212-250, agent_files.go:65-86).
NoLostWrite ==
  \A p \in Paths : disk'[p] /= disk[p] =>
    \E w \in Writers : wrote'[w] = wrote[w] + 1 /\ seen[w][p] = disk[p]

\* As long as the net change of a run is called exact it is the truth: every
\* file the run changed is listed with what it was before the run touched it
\* and what the run made of it, whatever happened to its patches in between
\* (diff_tracker.go:53-91, agent_files.go:103-136 and 185-213).
ExactIsTrue == \A a \in Agents : stage[a] = "idle" /\ diff[a].exact =>
  \A p \in Paths :
    diff[a].files[p] = IF own[a][p].baseline = own[a][p].current THEN NoFile ELSE own[a][p]

\* Patches of several files at once do not wait for each other for ever
\* (agent_files.go:65-86).
Waits(w) == stage[w] = "locking"
Over(w) == stage[w] = "idle"
PatchesEnd == \A w \in Writers : Waits(w) ~> Over(w)
=============================================================================

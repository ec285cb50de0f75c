---------------------------- MODULE HookSettings ----------------------------
(***************************************************************************)
(* The settings of hooks (hooks/service.go): the global file, the file of  *)
(* each project, which anybody may edit, and the versions of those that a  *)
(* person has confirmed.  A tool call runs the hooks of a project only in  *)
(* a confirmed version.                                                    *)
(*                                                                         *)
(* A version stands for the content of a file and for its hash.  The       *)
(* deletion of a project rewrites the list of versions too, and does not   *)
(* take the lock of the service (ForgetProjectTrust).                      *)
(***************************************************************************)
EXTENDS Naturals

CONSTANTS Workspaces,
          Pages,       \* calls of Save and Trust
          Checks,      \* tool calls
          Versions,
          Unreadable,  \* the versions among them that do not decode
          MaxEdits,    \* bound: edits of project files by others
          MaxFaults,   \* bound: writes that fail, and restarts
          None

VARIABLES
  global,     \* settings.json
  project,    \* [Workspaces -> .harness/hooks.json]
  trust,      \* trust.json: [Workspaces -> the version that is trusted]
  mu,         \* who holds Service.mu
  page,       \* [Pages -> the call]
  check,      \* [Checks -> Service.Check]
  forget,     \* the deletion of a project that forgets its trust, one at a time
  confirmed,  \* [Workspaces -> versions a person saved or confirmed], history
  kept,       \* [Workspaces -> the last one that was told to succeed], history
  mixed,      \* history: the projects whose trust changed last while another
              \* was between reading and writing the list
  edits, hookFaults

fileVars == <<global, project, trust>>
history == <<confirmed, kept, mixed>>
hookVars == <<fileVars, mu, page, check, forget, history, edits, hookFaults>>

Contents == Versions \cup {None}
Unsure == "unsure"
NoPage == [at |-> "none", ws |-> None, seen |-> None, new |-> None,
           copy |-> [w \in Workspaces |-> None]]
NoForget == [at |-> "none", ws |-> None, left |-> {}, copy |-> [w \in Workspaces |-> None]]
NoCheck == [at |-> "none", ws |-> None, content |-> None, ran |-> None]

TypeOK ==
  /\ global \in Contents /\ project \in [Workspaces -> Contents]
  /\ trust \in [Workspaces -> Contents]
  /\ mu \in Pages \cup Checks \cup {None}
  /\ \A p \in Pages :
       /\ page[p].at \in {"none", "open", "global", "project", "trust", "written", "read",
                          "over"}
       /\ page[p].ws \in Workspaces \cup {None}
       /\ page[p].copy \in [Workspaces -> Contents]
  /\ check \in [Checks -> [at : {"none", "read", "done"}, ws : Workspaces \cup {None},
                           content : Contents, ran : Contents]]
  /\ forget \in [at : {"none", "read"}, ws : Workspaces \cup {None}, left : SUBSET Workspaces,
                 copy : [Workspaces -> Contents]]
  /\ confirmed \in [Workspaces -> SUBSET Versions]
  /\ kept \in [Workspaces -> Contents \cup {Unsure}] /\ mixed \subseteq Workspaces
  /\ edits \in 0..MaxEdits /\ hookFaults \in 0..MaxFaults

Init ==
  /\ global = None
  /\ project = [w \in Workspaces |-> None] /\ trust = [w \in Workspaces |-> None]
  /\ mu = None
  /\ page = [p \in Pages |-> NoPage]
  /\ check = [c \in Checks |-> NoCheck]
  /\ forget = NoForget
  /\ confirmed = [w \in Workspaces |-> {}]
  /\ kept = [w \in Workspaces |-> None] /\ mixed = {}
  /\ edits = 0 /\ hookFaults = 0

-----------------------------------------------------------------------------
(* The pages of the settings.                                              *)

Over(p) == page' = [page EXCEPT ![p] = [NoPage EXCEPT !.at = "over"]]

\* View: a page shows the file of a project, or the global one.
View(p, w) ==
  /\ page[p].at = "none"
  /\ page' = [page EXCEPT ![p] = [NoPage EXCEPT
       !.at = "open", !.ws = w, !.seen = IF w = None THEN global ELSE project[w]]]
  /\ UNCHANGED <<fileVars, mu, check, forget, history, edits, hookFaults>>

\* Service.mu.
Free_Always(p) == TRUE
Free(p) == mu = None

\* Save of a valid list of hooks, for the version that the page showed.
Save(p, v) ==
  /\ page[p].at = "open" /\ Free(p) /\ v \notin Unreadable
  /\ mu' = p
  /\ page' = [page EXCEPT ![p].at = IF page[p].ws = None THEN "global" ELSE "project",
                          ![p].new = v]
  /\ UNCHANGED <<fileVars, check, forget, history, edits, hookFaults>>

\* The version on the disk is compared under the lock.
Unchanged_BeforeLock(p) == TRUE
Unchanged(p) == global = page[p].seen

SaveGlobal(p) ==
  /\ page[p].at = "global"
  /\ \/ /\ ~Unchanged(p)
        /\ Over(p) /\ mu' = None /\ UNCHANGED global
     \/ /\ Unchanged(p)
        /\ page' = [page EXCEPT ![p].at = "written"]
        /\ UNCHANGED <<mu, global>>
  /\ UNCHANGED <<project, trust, check, forget, history, edits, hookFaults>>

WriteGlobal(p) ==
  /\ page[p].at = "written"
  /\ global' = page[p].new
  /\ Over(p) /\ mu' = None
  /\ UNCHANGED <<project, trust, check, forget, history, edits, hookFaults>>

\* WriteFileIfUnchanged, and then the version it wrote is to be trusted.
SaveProject(p) ==
  LET w == page[p].ws IN
  /\ page[p].at = "project"
  /\ IF project[w] # page[p].seen
     THEN Over(p) /\ mu' = None /\ UNCHANGED <<project, history>>
     ELSE /\ project' = [project EXCEPT ![w] = page[p].new]
          /\ confirmed' = [confirmed EXCEPT ![w] = @ \cup {page[p].new}]
          /\ page' = [page EXCEPT ![p].at = "trust"]
          /\ UNCHANGED <<mu, kept, mixed>>
  /\ UNCHANGED <<global, trust, check, forget, edits, hookFaults>>

\* Trust: only the version that the page showed.
Confirms_Any(p) == TRUE
Confirms(p) == project[page[p].ws] = page[p].seen

Trust(p) ==
  LET w == page[p].ws
      shown == project[w] IN
  /\ page[p].at = "open" /\ w # None /\ Free(p)
  /\ confirmed' = IF page[p].seen = None THEN confirmed
                  ELSE [confirmed EXCEPT ![w] = @ \cup {page[p].seen}]
  /\ IF shown = None \/ shown \in Unreadable \/ ~Confirms(p)
     THEN Over(p) /\ UNCHANGED mu
     ELSE /\ mu' = p
          /\ page' = [page EXCEPT ![p].at = "trust", ![p].new = shown]
  /\ UNCHANGED <<fileVars, check, forget, kept, mixed, edits, hookFaults>>

\* readTrust, and the whole file is written with the one version changed.
ReadTrust(p) ==
  /\ page[p].at = "trust"
  /\ page' = [page EXCEPT ![p].at = "read", ![p].copy = trust]
  /\ UNCHANGED <<fileVars, mu, check, forget, history, edits, hookFaults>>

WriteTrust(p) ==
  LET w == page[p].ws IN
  /\ page[p].at = "read"
  /\ trust' = [page[p].copy EXCEPT ![w] = page[p].new]
  /\ kept' = [kept EXCEPT ![w] = page[p].new]
  /\ mixed' = (mixed \ {w}) \cup (IF forget.at = "read" THEN {w} ELSE {})
  /\ Over(p) /\ mu' = None
  /\ UNCHANGED <<global, project, check, forget, confirmed, edits, hookFaults>>

\* A write fails, perhaps after it took effect, so that the page does not know.
WriteFails(p) ==
  LET w == page[p].ws IN
  /\ hookFaults < MaxFaults
  /\ hookFaults' = hookFaults + 1
  /\ \/ /\ page[p].at = "written"
        /\ global' \in {global, page[p].new}
        /\ UNCHANGED <<project, trust, kept>>
     \/ /\ page[p].at = "project" /\ project[w] = page[p].seen
        /\ project' \in {project, [project EXCEPT ![w] = page[p].new]}
        /\ UNCHANGED <<global, trust, kept>>
     \/ /\ page[p].at = "read"
        /\ trust' \in {trust, [page[p].copy EXCEPT ![w] = page[p].new]}
        /\ kept' = [kept EXCEPT ![w] = Unsure]
        /\ UNCHANGED <<global, project>>
  /\ Over(p) /\ mu' = None
  /\ UNCHANGED <<check, forget, confirmed, mixed, edits>>

-----------------------------------------------------------------------------
(* ForgetProjectTrust, by finishDeletion: no lock of the service is held.  *)

ForgetReads(w) ==
  /\ forget.at = "none" /\ trust[w] # None
  /\ forget' = [forget EXCEPT !.at = "read", !.ws = w, !.copy = trust]
  /\ UNCHANGED <<fileVars, mu, page, check, history, edits, hookFaults>>

Reading == \E p \in Pages : page[p].at = "read"

\* The list that it read, without the project.
Without == [forget.copy EXCEPT ![forget.ws] = None]

ForgetWrites ==
  /\ forget.at = "read"
  /\ trust' = Without
  /\ forget' = [NoForget EXCEPT !.left = forget.left]
  /\ kept' = [kept EXCEPT ![forget.ws] = None]
  /\ mixed' = (mixed \ {forget.ws}) \cup (IF Reading THEN {forget.ws} ELSE {})
  /\ UNCHANGED <<global, project, mu, page, check, confirmed, edits, hookFaults>>

\* It fails, perhaps after it took effect: the deletion is left to the restart.
ForgetFails ==
  /\ forget.at = "read" /\ hookFaults < MaxFaults
  /\ hookFaults' = hookFaults + 1
  /\ trust' \in {trust, Without}
  /\ forget' = [NoForget EXCEPT !.left = forget.left \cup {forget.ws}]
  /\ kept' = [kept EXCEPT ![forget.ws] = Unsure]
  /\ mixed' = IF Reading THEN mixed \cup {forget.ws} ELSE mixed
  /\ UNCHANGED <<global, project, mu, page, check, confirmed, edits>>

-----------------------------------------------------------------------------
(* Check, before a tool runs.                                              *)

\* readProject, outside the lock: the hooks that it decodes are those it runs.
ReadProject(c, w) ==
  /\ check[c].at = "none"
  /\ check' = [check EXCEPT ![c] = [NoCheck EXCEPT !.at = "read", !.ws = w,
                                                  !.content = project[w]]]
  /\ UNCHANGED <<fileVars, mu, page, forget, history, edits, hookFaults>>

\* What runs is what was read before the trust was looked up.
Runs_Latest(c) == project[check[c].ws]
Runs(c) == check[c].content

ChecksTrust(c) ==
  LET w == check[c].ws
      trusted == check[c].content # None /\ check[c].content \notin Unreadable
                   /\ trust[w] = check[c].content IN
  /\ check[c].at = "read" /\ mu = None
  /\ check' = [check EXCEPT ![c].at = "done", ![c].ran = IF trusted THEN Runs(c) ELSE None]
  /\ UNCHANGED <<fileVars, mu, page, forget, history, edits, hookFaults>>

\* The call is over; the next one finds its place.
Done(c) ==
  /\ check[c].at = "done"
  /\ check' = [check EXCEPT ![c] = NoCheck]
  /\ UNCHANGED <<fileVars, mu, page, forget, history, edits, hookFaults>>

-----------------------------------------------------------------------------
\* Anybody edits the file of a project: an editor, a tool, a checkout.
Edit(w, v) ==
  /\ edits < MaxEdits /\ v # project[w]
  /\ edits' = edits + 1
  /\ project' = [project EXCEPT ![w] = v]
  /\ UNCHANGED <<global, trust, mu, page, check, forget, history, hookFaults>>

\* The process restarts: calls are gone, files stay, and the deletions that
\* were not over are finished before anything else.
Restart ==
  LET deleted == forget.left \cup ({forget.ws} \ {None}) IN
  /\ hookFaults < MaxFaults
  /\ hookFaults' = hookFaults + 1
  /\ mu' = None
  /\ page' = [p \in Pages |-> IF page[p].at = "none" THEN page[p]
                              ELSE [NoPage EXCEPT !.at = "over"]]
  /\ check' = [c \in Checks |-> NoCheck]
  /\ forget' = NoForget
  /\ trust' = [w \in Workspaces |-> IF w \in deleted THEN None ELSE trust[w]]
  /\ kept' = [w \in Workspaces |-> IF w \in deleted THEN None ELSE kept[w]]
  /\ mixed' = mixed \ deleted
  /\ UNCHANGED <<global, project, confirmed, edits>>

-----------------------------------------------------------------------------
Next == \/ \E p \in Pages : \/ \E w \in Workspaces \cup {None} : View(p, w)
                            \/ \E v \in Versions : Save(p, v)
                            \/ SaveGlobal(p) \/ WriteGlobal(p) \/ SaveProject(p)
                            \/ Trust(p) \/ ReadTrust(p) \/ WriteTrust(p) \/ WriteFails(p)
        \/ \E c \in Checks : \/ \E w \in Workspaces : ReadProject(c, w)
                             \/ ChecksTrust(c) \/ Done(c)
        \/ \E w \in Workspaces, v \in Contents : Edit(w, v)
        \/ \E w \in Workspaces : ForgetReads(w)
        \/ ForgetWrites \/ ForgetFails \/ Restart

Spec == Init /\ [][Next]_hookVars

-----------------------------------------------------------------------------
(* Properties.                                                             *)

\* The hooks of a project that a tool call runs are of a version that a person
\* saved or confirmed for that project, though the file may change before,
\* while and after the call reads it (hooks/service.go:357-399).
RunsConfirmed == \A c \in Checks :
  check[c].ran # None => check[c].ran \in confirmed[check[c].ws]

\* What a page was told to be confirmed stays so until its project is deleted
\* (hooks/service.go:292-303, 321-341), if no other change of the list was
\* between its reading and its writing meanwhile: pages have a lock for that
\* (275-276, 323-324), a deletion has not and may write the list of before
\* (37, 56), so what is lost is lost to deletions only.
ConfirmedStaysApart ==
  mu = None => \A w \in Workspaces \ mixed : kept[w] # Unsure => trust[w] = kept[w]

\* A page replaces only the global settings that it showed
\* (hooks/service.go:275-283).
NothingOverwritten == \A p \in Pages : page[p].at = "written" => global = page[p].seen
=============================================================================

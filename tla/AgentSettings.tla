---------------------------- MODULE AgentSettings ----------------------------
(***************************************************************************)
(* Agents and the sessions that refer to them (agents/service.go,          *)
(* agents/store.go, session/settings/store.go), with the calls of          *)
(* conversations and subagents that write a session's settings.  An agent  *)
(* is one file and the settings of a session are another; the lock         *)
(* `references' keeps a deletion apart from those who read agents, and     *)
(* most writers of settings take it.                                       *)
(*                                                                         *)
(* There is one call of each kind at a time.  A session's settings are the *)
(* agent they name; the default agent cannot be deleted.                   *)
(***************************************************************************)
EXTENDS Naturals

CONSTANTS Agents, Default,   \* every agent there can be; Default is one of them
          Sessions,          \* every session there can be
          MaxSaves,          \* bound: agents written
          MaxNew,            \* bound: sessions that begin after the first
          None

VARIABLES
  agents,     \* the agents that have a file
  chosen,     \* [Sessions -> the agent in its settings, or None]
  source,     \* [Sessions -> who wrote its settings: "checked", "copied" or "spawned"]
  list, save, delete, choose, fork, spawn,   \* the calls
  saves, begun

calls == <<list, save, delete, choose, fork, spawn>>
agentVars == <<agents, chosen, source, calls, saves, begun>>

Idle == [at |-> "idle", agent |-> None, session |-> None, left |-> {}]
Call(at, a, s, left) == [at |-> at, agent |-> a, session |-> s, left |-> left]
Known(s) == chosen[s] # None
Fresh(s) == ~Known(s) /\ begun < MaxNew /\ s \notin {fork.session, spawn.session}

TypeOK ==
  /\ Default \in agents /\ agents \subseteq Agents
  /\ chosen \in [Sessions -> Agents \cup {None}]
  /\ source \in [Sessions -> {"checked", "copied", "spawned"}]
  /\ list.at \in {"idle", "read", "failed"}
  /\ save.at \in {"idle", "known"}
  /\ delete.at \in {"idle", "scan"}
  /\ \A c \in {choose, fork} : c.at \in {"idle", "found"}
  /\ spawn.at \in {"idle", "listed"}
  /\ saves \in 0..MaxSaves /\ begun \in 0..MaxNew

\* ensureDefault; the first session has the settings that Create gave it.
Init ==
  /\ agents = {Default}
  /\ \E s \in Sessions : chosen = [t \in Sessions |-> IF t = s THEN Default ELSE None]
  /\ source = [s \in Sessions |-> "checked"]
  /\ list = Idle /\ save = Idle /\ delete = Idle
  /\ choose = Idle /\ fork = Idle /\ spawn = Idle
  /\ saves = 0 /\ begun = 0

-----------------------------------------------------------------------------
(* references.                                                             *)

\* A reader may enter; a writer may.
Shared == delete.at = "idle"

Alone_Never == TRUE
Alone == list.at # "read" /\ choose.at = "idle"

-----------------------------------------------------------------------------
(* The agents.                                                             *)

\* List, and the list of a Spawn: the names of the files are read, then the
\* files one after the other, all under the lock.
List ==
  /\ list.at = "idle" /\ Shared
  /\ list' = Call("read", None, None, agents)
  /\ UNCHANGED <<agents, chosen, source, save, delete, choose, fork, spawn, saves, begun>>

ReadAgent(a) ==
  /\ list.at = "read" /\ a \in list.left
  /\ list' = IF a \notin agents THEN Call("failed", a, None, {})
             ELSE IF list.left = {a} THEN Idle
             ELSE [list EXCEPT !.left = @ \ {a}]
  /\ UNCHANGED <<agents, chosen, source, save, delete, choose, fork, spawn, saves, begun>>

\* handleAgentSave: a new agent, or one that Get has found.
SaveNew(a) ==
  /\ save.at = "idle" /\ Shared /\ saves < MaxSaves /\ a \notin agents
  /\ agents' = agents \cup {a} /\ saves' = saves + 1
  /\ UNCHANGED <<chosen, source, calls, begun>>

Get(a) ==
  /\ save.at = "idle" /\ Shared /\ saves < MaxSaves /\ a \in agents
  /\ save' = Call("known", a, None, {})
  /\ UNCHANGED <<agents, chosen, source, list, delete, choose, fork, spawn, saves, begun>>

\* The lock was free between the two: an agent deleted meanwhile is back.
Save ==
  /\ save.at = "known" /\ Shared
  /\ agents' = agents \cup {save.agent} /\ saves' = saves + 1
  /\ save' = Idle
  /\ UNCHANGED <<chosen, source, list, delete, choose, fork, spawn, begun>>

\* Delete: the directories of the sessions are listed, ...
Delete(a) ==
  /\ delete.at = "idle" /\ Alone
  /\ a \in agents \ {Default}
  /\ delete' = Call("scan", a, None, {s \in Sessions : Known(s)})
  /\ UNCHANGED <<agents, chosen, source, list, save, choose, fork, spawn, saves, begun>>

\* ... each one's settings are read, which may be gone by now, ...
ReadSettings(s) ==
  /\ delete.at = "scan" /\ s \in delete.left
  /\ delete' = IF chosen[s] = delete.agent THEN Idle
               ELSE [delete EXCEPT !.left = @ \ {s}]
  /\ UNCHANGED <<agents, chosen, source, list, save, choose, fork, spawn, saves, begun>>

\* ... and if no session has chosen the agent its file is removed.
Remove ==
  /\ delete.at = "scan" /\ delete.left = {}
  /\ agents' = agents \ {delete.agent}
  /\ delete' = Idle
  /\ UNCHANGED <<chosen, source, list, save, choose, fork, spawn, saves, begun>>

-----------------------------------------------------------------------------
(* The sessions.  The operation lock keeps a choice, a fork and a deletion *)
(* of the same session apart.                                              *)

Busy(s) == choose.session = s \/ (fork.at = "found" /\ fork.left = {s})

\* Create.
Create(s) ==
  /\ Fresh(s)
  /\ chosen' = [chosen EXCEPT ![s] = Default]
  /\ source' = [source EXCEPT ![s] = "checked"]
  /\ begun' = begun + 1
  /\ UNCHANGED <<agents, calls, saves>>

\* SaveSessionSettings, of UpdateSettings and of a first message: the agent is
\* read and the settings are written under one reader's lock.
Choose(s, a) ==
  /\ choose.at = "idle" /\ Shared
  /\ Known(s) /\ source[s] # "spawned" /\ ~Busy(s) /\ a \in agents
  /\ choose' = Call("found", a, s, {})
  /\ UNCHANGED <<agents, chosen, source, list, save, delete, fork, spawn, saves, begun>>

PutChoice ==
  /\ choose.at = "found"
  /\ chosen' = [chosen EXCEPT ![choose.session] = choose.agent]
  /\ source' = [source EXCEPT ![choose.session] = "checked"]
  /\ choose' = Idle
  /\ UNCHANGED <<agents, list, save, delete, fork, spawn, saves, begun>>

\* forkLocked: the settings of a session are copied to a new one.
Fork(s, t) ==
  /\ fork.at = "idle" /\ Known(s) /\ source[s] # "spawned" /\ ~Busy(s) /\ Fresh(t)
  /\ fork' = Call("found", chosen[s], t, {s})
  /\ begun' = begun + 1
  /\ UNCHANGED <<agents, chosen, source, list, save, delete, choose, spawn, saves>>

PutCopy ==
  /\ fork.at = "found"
  /\ chosen' = [chosen EXCEPT ![fork.session] = fork.agent]
  /\ source' = [source EXCEPT ![fork.session] = "copied"]
  /\ fork' = Idle
  /\ UNCHANGED <<agents, list, save, delete, choose, spawn, saves, begun>>

\* Spawn: the agent is one of List's, and the settings are written afterwards,
\* with neither lock.
Spawn(s, a) ==
  /\ spawn.at = "idle" /\ Shared /\ a \in agents /\ Fresh(s)
  /\ \E parent \in Sessions : Known(parent)
  /\ spawn' = Call("listed", a, s, {})
  /\ begun' = begun + 1
  /\ UNCHANGED <<agents, chosen, source, list, save, delete, choose, fork, saves>>

PutChild ==
  /\ spawn.at = "listed"
  /\ chosen' = [chosen EXCEPT ![spawn.session] = spawn.agent]
  /\ source' = [source EXCEPT ![spawn.session] = "spawned"]
  /\ spawn' = Idle
  /\ UNCHANGED <<agents, list, save, delete, choose, fork, saves, begun>>

\* The session is deleted.
DeleteSession(s) ==
  /\ Known(s) /\ ~Busy(s)
  /\ chosen' = [chosen EXCEPT ![s] = None]
  /\ source' = [source EXCEPT ![s] = "checked"]
  /\ UNCHANGED <<agents, calls, saves, begun>>

-----------------------------------------------------------------------------
Next == \/ List \/ Save \/ Remove \/ PutChoice \/ PutCopy \/ PutChild
        \/ \E a \in Agents : ReadAgent(a) \/ SaveNew(a) \/ Get(a) \/ Delete(a)
        \/ \E s \in Sessions : \/ ReadSettings(s) \/ Create(s) \/ DeleteSession(s)
                               \/ \E a \in Agents : Choose(s, a) \/ Spawn(s, a)
                               \/ \E t \in Sessions : Fork(s, t)

Spec == Init /\ [][Next]_agentVars

-----------------------------------------------------------------------------
(* Properties.                                                             *)

Refers(s) == Known(s) => chosen[s] \in agents

\* A session whose agent was chosen for it, by a user or by Create, refers to
\* an agent that exists (agents/service.go:34, 110-127, 130-139).
ChoiceExists == \A s \in Sessions : source[s] = "checked" => Refers(s)

\* Whoever lists the agents finds the file of every name
\* (agents/service.go:34, 62-80).
ListIsWhole == list.at # "failed"

\* No session refers to an agent that is gone (agents/service.go:34).
NothingDangles == \A s \in Sessions : Refers(s)
=============================================================================

----------------------------- MODULE Processes -----------------------------
(***************************************************************************)
(* The processes of machine/local (process.go, local.go): those that       *)
(* agents run with exec_command and drive with write_stdin, and the        *)
(* terminals of clients, with the sessions of appserver/command_exec.go.   *)
(*                                                                         *)
(* Output goes from the process through a pipe to readOutput, and from     *)
(* there to a buffer that calls take from, or to a channel that the        *)
(* session of a terminal drains.                                           *)
(***************************************************************************)
EXTENDS FiniteSets, Naturals

CONSTANTS Agents,      \* processes that agents start
          Terminals,   \* processes of client terminals
          Ttys,        \* those with a terminal, the client's and some of the agents'
          Interacts,   \* calls of AgentInteract
          Limit,       \* maxTrackedProcesses
          Capacity,    \* of outputEvents
          MaxOutput,   \* bound: chunks a process writes
          None

VARIABLES
  proc,      \* [All -> the process of the operating system]
  made,      \* [All -> chunks it wrote]
  pipe,      \* [All -> chunks in its pipe or terminal]
  reading,   \* [All -> does readOutput run]
  held,      \* [All -> chunks in the buffer, or in outputEvents]
  got,       \* [All -> chunks that a call took or a client got]
  exited,    \* [All -> localProcess.exited, and done closed]
  sent,      \* [All -> terminationSent]
  told,      \* [All -> was somebody told that it exited]
  table,     \* Local.processes and Local.terminals
  exec,      \* [Agents -> AgentExec]
  call,      \* [Interacts -> the state of AgentInteract]
  target,    \* [Interacts -> the process it found]
  busy,      \* [Agents -> who holds interactionMu]
  session,   \* [Terminals -> commandSession]
  writing,   \* [Terminals -> is its loop in a write]
  gone,      \* is the client gone
  closing    \* Local.Close

procVars == <<proc, made, pipe, reading, held, got, exited, sent>>
callVars == <<exec, call, target, busy>>
termVars == <<session, writing, gone>>
processVars == <<procVars, told, table, callVars, termVars, closing>>

All == Agents \cup Terminals

TypeOK ==
  /\ proc \in [All -> {"none", "running", "ended"}]
  /\ \A p \in All : pipe[p] + held[p] + got[p] <= made[p] /\ made[p] <= MaxOutput
  /\ \A p \in Terminals : held[p] <= Capacity
  /\ reading \in [All -> BOOLEAN] /\ exited \in [All -> BOOLEAN]
  /\ sent \in [All -> BOOLEAN] /\ told \in [All -> BOOLEAN]
  /\ table \subseteq All
  /\ exec \in [Agents -> {"none", "waiting", "taken", "stopping", "done"}]
  /\ call \in [Interacts -> {"none", "locking", "writing", "waiting", "taken", "done"}]
  /\ target \in [Interacts -> Agents \cup {None}]
  /\ busy \in [Agents -> Interacts \cup {None}]
  /\ session \in [Terminals -> {"none", "running", "over"}]
  /\ writing \in [Terminals -> BOOLEAN] /\ gone \in BOOLEAN
  /\ closing \in {"open", "closing", "clean", "errors"}

Init ==
  /\ proc = [p \in All |-> "none"]
  /\ made = [p \in All |-> 0] /\ pipe = [p \in All |-> 0]
  /\ reading = [p \in All |-> FALSE]
  /\ held = [p \in All |-> 0] /\ got = [p \in All |-> 0]
  /\ exited = [p \in All |-> FALSE] /\ sent = [p \in All |-> FALSE]
  /\ told = [p \in All |-> FALSE]
  /\ table = {}
  /\ exec = [p \in Agents |-> "none"]
  /\ call = [i \in Interacts |-> "none"]
  /\ target = [i \in Interacts |-> None]
  /\ busy = [p \in Agents |-> None]
  /\ session = [p \in Terminals |-> "none"]
  /\ writing = [p \in Terminals |-> FALSE]
  /\ gone = FALSE
  /\ closing = "open"

-----------------------------------------------------------------------------
(* A process, its reader and its waiter.                                   *)

Lives(p) == proc[p] = "running"

Write(p) ==
  /\ Lives(p) /\ made[p] < MaxOutput
  /\ made' = [made EXCEPT ![p] = @ + 1]
  /\ pipe' = [pipe EXCEPT ![p] = @ + 1]
  /\ UNCHANGED <<proc, reading, held, got, exited, sent, told, table, callVars,
                 termVars, closing>>

\* It exits; waitForExit kills what is left of its group.
Exit(p) ==
  /\ Lives(p)
  /\ proc' = [proc EXCEPT ![p] = "ended"]
  /\ UNCHANGED <<made, pipe, reading, held, got, exited, sent, told, table,
                 callVars, termVars, closing>>

\* The whole group is killed.
Killed(p) ==
  /\ Lives(p) /\ sent[p]
  /\ proc' = [proc EXCEPT ![p] = "ended"]
  /\ UNCHANGED <<made, pipe, reading, held, got, exited, sent, told, table,
                 callVars, termVars, closing>>

\* readOutput: a terminal's reader waits while the channel is full.
Read(p) ==
  /\ reading[p] /\ pipe[p] > 0 /\ (p \in Terminals => held[p] < Capacity)
  /\ pipe' = [pipe EXCEPT ![p] = @ - 1]
  /\ held' = [held EXCEPT ![p] = @ + 1]
  /\ UNCHANGED <<proc, made, reading, got, exited, sent, told, table, callVars,
                 termVars, closing>>

\* waitForExit closes a terminal without waiting for its reader: what is
\* unread there is lost.
ReadEnd(p) ==
  /\ reading[p] /\ proc[p] = "ended"
  /\ pipe[p] = 0 \/ p \in Ttys
  /\ pipe' = [pipe EXCEPT ![p] = 0]
  /\ reading' = [reading EXCEPT ![p] = FALSE]
  /\ UNCHANGED <<proc, made, held, got, exited, sent, told, table, callVars,
                 termVars, closing>>

\* waitForExit waits for the reader, so what was written counts.
MayFinish_Early(p) == TRUE
MayFinish(p) == ~reading[p]

Finish(p) ==
  /\ proc[p] = "ended" /\ ~exited[p] /\ MayFinish(p)
  /\ exited' = [exited EXCEPT ![p] = TRUE]
  \* The goroutine of StartTerminal.
  /\ table' = IF p \in Terminals THEN table \ {p} ELSE table
  /\ UNCHANGED <<proc, made, pipe, reading, held, got, sent, told, callVars,
                 termVars, closing>>

Started(p) == /\ proc' = [proc EXCEPT ![p] = "running"]
              /\ reading' = [reading EXCEPT ![p] = TRUE]

\* terminate: an exited process is left alone.
Terminated(ps) == sent' = [p \in All |-> sent[p] \/ (p \in ps /\ ~exited[p])]

\* A call takes the buffer, and what it says about the exit is of that moment.
Take(p) == /\ got' = [got EXCEPT ![p] = @ + held[p]]
           /\ held' = [held EXCEPT ![p] = 0]
           /\ told' = [told EXCEPT ![p] = @ \/ exited[p]]

-----------------------------------------------------------------------------
(* AgentExec and AgentInteract.                                            *)

Tracked == table \cap Agents
Prunable == {p \in Tracked : exited[p]}

\* Starting and entering it in the table is one step under Local.mu.
MayStart_Closed == TRUE
MayStart == closing = "open"

Exec(p) ==
  /\ exec[p] = "none" /\ MayStart
  /\ \/ Cardinality(Tracked) < Limit /\ table' = table \cup {p}
     \/ /\ Cardinality(Tracked) >= Limit
        /\ \E q \in Prunable : table' = (table \ {q}) \cup {p}
  /\ exec' = [exec EXCEPT ![p] = "waiting"]
  /\ Started(p)
  /\ UNCHANGED <<made, pipe, held, got, exited, sent, told, call, target, busy,
                 termVars, closing>>

\* wait: until the exit or the time it was given.
ExecTake(p) ==
  /\ exec[p] = "waiting"
  /\ exec' = [exec EXCEPT ![p] = IF exited[p] THEN "taken" ELSE "done"]
  /\ Take(p)
  /\ UNCHANGED <<proc, made, pipe, reading, exited, sent, table, call, target, busy,
                 termVars, closing>>

ExecRemove(p) ==
  /\ exec[p] = "taken"
  /\ exec' = [exec EXCEPT ![p] = "done"]
  /\ table' = table \ {p}
  /\ UNCHANGED <<procVars, told, call, target, busy, termVars, closing>>

\* The run is stopped: the command it waits for is, too.  Output that the
\* call had taken by then is dropped with it.
ExecCancel(p) ==
  /\ exec[p] = "waiting"
  /\ exec' = [exec EXCEPT ![p] = "stopping"]
  /\ \/ UNCHANGED <<got, held>>
     \/ got' = [got EXCEPT ![p] = @ + held[p]] /\ held' = [held EXCEPT ![p] = 0]
  /\ Terminated({p})
  /\ UNCHANGED <<proc, made, pipe, reading, exited, told, table, call, target, busy,
                 termVars, closing>>

\* Five seconds for it to end; a process that does not is kept in the table.
Forgets_Always(p) == TRUE
Forgets(p) == exited[p]

ExecStopped(p) ==
  /\ exec[p] = "stopping"
  /\ exec' = [exec EXCEPT ![p] = "done"]
  /\ table' = IF Forgets(p) THEN table \ {p} ELSE table
  /\ UNCHANGED <<procVars, told, call, target, busy, termVars, closing>>

Interact(i, p) ==
  /\ call[i] = "none" /\ closing = "open"
  /\ p \in table /\ exec[p] = "done"
  /\ call' = [call EXCEPT ![i] = "locking"]
  /\ target' = [target EXCEPT ![i] = p]
  /\ UNCHANGED <<procVars, told, table, exec, busy, termVars, closing>>

\* interactionMu; then characters are written, or not.
Lock(i) ==
  /\ call[i] = "locking" /\ busy[target[i]] = None
  /\ busy' = [busy EXCEPT ![target[i]] = i]
  /\ \E to \in {"waiting"} \cup (IF exited[target[i]] THEN {} ELSE {"writing"}) :
       call' = [call EXCEPT ![i] = to]
  /\ UNCHANGED <<procVars, told, table, exec, target, termVars, closing>>

\* A write ends when the process reads, or has ended.
Wrote(i) ==
  /\ call[i] = "writing"
  /\ \/ Lives(target[i]) /\ call' = [call EXCEPT ![i] = "waiting"] /\ UNCHANGED busy
     \/ /\ ~Lives(target[i])
        /\ call' = [call EXCEPT ![i] = "done"]
        /\ busy' = [busy EXCEPT ![target[i]] = None]
  /\ UNCHANGED <<procVars, told, table, exec, target, termVars, closing>>

InteractTake(i) ==
  /\ call[i] = "waiting"
  /\ Take(target[i])
  /\ call' = [call EXCEPT ![i] = IF exited[target[i]] THEN "taken" ELSE "done"]
  /\ busy' = IF exited[target[i]] THEN busy ELSE [busy EXCEPT ![target[i]] = None]
  /\ UNCHANGED <<proc, made, pipe, reading, exited, sent, table, exec, target,
                 termVars, closing>>

InteractRemove(i) ==
  /\ call[i] = "taken"
  /\ call' = [call EXCEPT ![i] = "done"]
  /\ table' = table \ {target[i]}
  /\ busy' = [busy EXCEPT ![target[i]] = None]
  /\ UNCHANGED <<procVars, told, exec, target, termVars, closing>>

\* The run is stopped while it waits; the process goes on.
InteractCancel(i) ==
  /\ call[i] = "waiting" /\ ~exited[target[i]]
  /\ call' = [call EXCEPT ![i] = "done"]
  /\ busy' = [busy EXCEPT ![target[i]] = None]
  /\ UNCHANGED <<procVars, told, table, exec, target, termVars, closing>>

-----------------------------------------------------------------------------
(* Terminals, and the loop of their session.                               *)

StartTerminal(p) ==
  /\ session[p] = "none" /\ MayStart
  /\ session' = [session EXCEPT ![p] = "running"]
  /\ table' = table \cup {p}
  /\ Started(p)
  /\ UNCHANGED <<made, pipe, held, got, exited, sent, told, callVars, writing,
                 gone, closing>>

\* The channel is drained to its end, whether or not the client takes it.
Drains_WhileHeard == ~gone
Drains == TRUE

Drain(p) ==
  /\ p \in Terminals /\ held[p] > 0 /\ Drains
  /\ held' = [held EXCEPT ![p] = @ - 1]
  /\ IF gone THEN Terminated({p}) /\ UNCHANGED got
     ELSE got' = [got EXCEPT ![p] = @ + 1] /\ UNCHANGED sent
  /\ UNCHANGED <<proc, made, pipe, reading, exited, told, table, callVars, termVars,
                 closing>>

\* The loop applies a control: a write may last until the process reads.
Control(p) ==
  /\ session[p] = "running" /\ ~writing[p] /\ ~gone /\ ~exited[p]
  /\ \/ writing' = [writing EXCEPT ![p] = TRUE] /\ UNCHANGED sent
     \/ Terminated({p}) /\ UNCHANGED writing
  /\ UNCHANGED <<proc, made, pipe, reading, held, got, exited, told, table, callVars,
                 session, gone, closing>>

ControlEnds(p) ==
  /\ writing[p]
  /\ writing' = [writing EXCEPT ![p] = FALSE]
  /\ UNCHANGED <<procVars, told, table, callVars, session, gone, closing>>

\* The client leaves: the loop terminates the process, if it is not writing,
\* and so does the handler, which waits for nothing but the client.
GoneEnds(p) ==
  /\ session[p] = "running" /\ gone /\ ~sent[p] /\ ~exited[p]
  /\ Terminated({p})
  /\ UNCHANGED <<proc, made, pipe, reading, held, got, exited, told, table, callVars,
                 termVars, closing>>

SessionEnds(p) ==
  /\ session[p] = "running" /\ exited[p] /\ held[p] = 0 /\ ~writing[p]
  /\ session' = [session EXCEPT ![p] = "over"]
  /\ told' = [told EXCEPT ![p] = ~gone]
  /\ UNCHANGED <<procVars, table, callVars, writing, gone, closing>>

ClientGone ==
  /\ ~gone
  /\ gone' = TRUE
  /\ UNCHANGED <<procVars, told, table, callVars, session, writing, closing>>

-----------------------------------------------------------------------------
(* Local.Close.                                                            *)

Close ==
  /\ closing = "open"
  /\ closing' = "closing"
  /\ Terminated(table)
  /\ UNCHANGED <<proc, made, pipe, reading, held, got, exited, told, table, callVars,
                 termVars>>

CloseReturns ==
  /\ closing = "closing"
  /\ closing' = IF \A p \in table : exited[p] THEN "clean" ELSE "errors"
  /\ UNCHANGED <<procVars, told, table, callVars, termVars>>

-----------------------------------------------------------------------------
Runs(p) == Read(p) \/ ReadEnd(p) \/ Finish(p)
Serves(p) == Drain(p) \/ GoneEnds(p) \/ SessionEnds(p)

Next == \/ \E p \in All : \/ Write(p) \/ Exit(p) \/ Killed(p)
                          \/ Read(p) \/ ReadEnd(p) \/ Finish(p)
        \/ \E p \in Agents : \/ Exec(p) \/ ExecTake(p) \/ ExecRemove(p)
                             \/ ExecCancel(p) \/ ExecStopped(p)
                             \/ \E i \in Interacts : Interact(i, p)
        \/ \E i \in Interacts : \/ Lock(i) \/ Wrote(i) \/ InteractTake(i)
                                \/ InteractRemove(i) \/ InteractCancel(i)
        \/ \E p \in Terminals : \/ StartTerminal(p) \/ Drain(p) \/ Control(p)
                                \/ ControlEnds(p) \/ GoneEnds(p) \/ SessionEnds(p)
        \/ ClientGone \/ Close \/ CloseReturns

\* Goroutines go on, a killed group ends, and a write to a process that ended
\* returns.  A process that is not killed may run and refuse input for ever.
Fairness ==
  /\ \A p \in All : WF_processVars(Runs(p)) /\ WF_processVars(Killed(p))
  /\ \A p \in Terminals : /\ WF_processVars(Drain(p)) /\ WF_processVars(GoneEnds(p))
                          /\ WF_processVars(SessionEnds(p))
                          /\ WF_processVars(ControlEnds(p) /\ ~Lives(p))
Spec == Init /\ [][Next]_processVars /\ Fairness

-----------------------------------------------------------------------------
(* Properties.                                                             *)

\* Who is told that a process exited has all its output: nothing is left in
\* the pipe or the buffer, and without a terminal nothing was lost on the way
\* to the calls that took it (process.go:345-394, command_exec.go:251-264).
ExitIsWhole == \A p \in All : told[p] =>
  /\ pipe[p] = 0 /\ held[p] = 0
  /\ p \notin Ttys => got[p] = made[p]

\* When Close returns without an error, no process is left running, whatever
\* calls were starting, stopping or forgetting one (local.go:57-98).
CleanCloseLeavesNothing == closing = "clean" => \A p \in All : ~Lives(p)

\* The terminal of a client that is gone ends, though its output is not read
\* and its loop may be in a write (command_exec.go:133-139, 208-266).
Left(p) == session[p] = "running" /\ gone
Over(p) == session[p] = "over"
TerminalsEnd == \A p \in Terminals : Left(p) ~> Over(p)
=============================================================================

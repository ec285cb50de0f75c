---------------------------- MODULE Connections ----------------------------
(***************************************************************************)
(* A client of the application server: appserver/internal/clientconn with  *)
(* its requests, subscriptions and notifications, and the Scheduler of     *)
(* appserver/internal/rpc that queues the writes of one session, whoever   *)
(* sent them.                                                              *)
(*                                                                         *)
(* Requests arrive one at a time and are then handled by goroutines of     *)
(* their own.  Events are published by whatever the handler listens to.    *)
(* A sessionQueue, and a goroutine of Scheduler.run, bears the name of the *)
(* call whose Schedule made it.                                            *)
(***************************************************************************)
EXTENDS FiniteSets, Naturals, Sequences

CONSTANTS Subs,          \* requests of the client that subscribe
          Calls,         \* writes of one session
          Own,           \* those the client sent; the others come from elsewhere
          QueueLimit,    \* notificationQueueLimit
          PendingLimit,  \* subscriptionPendingLimit
          MaxEvents      \* bound: events of one subscription

VARIABLES
  link,       \* is the transport up
  ctxOpen,    \* is Connection.ctx not cancelled
  gate,       \* connectionGate: are requests let in
  phase,      \* Connection.Run: "running", "draining", "closed"
  sender,     \* is sendNotifications running
  queue,      \* Connection.notifications: the subscription each is for
  at,         \* [Subs -> where its request is]
  active, closed, pending,  \* [Subs -> of its Subscription]
  hooked,     \* [Subs -> is its cleanup installed]
  listening,  \* the subscriptions that hear events
  unhooking,  \* the subscriptions whose Close runs the cleanup
  published, received,  \* [Subs -> events heard, notifications delivered]
  answered,   \* the subscriptions whose response the client has
  scheduled,  \* [Calls -> its scheduledCall: state, is a result in done]
  waiter,     \* [Calls -> the function Schedule returned]
  scheduler,  \* the sessionQueue that queues names, if any, and the calls of each
  runner      \* [Calls -> a goroutine of run: where, with which queue and item]

subVars == <<at, active, closed, pending, hooked, listening, unhooking,
             published, received, answered>>
schedVars == <<scheduled, waiter, scheduler, runner>>
connVars == <<link, ctxOpen, gate, phase, sender, queue, subVars, schedVars>>

TypeOK ==
  /\ link \in BOOLEAN /\ ctxOpen \in BOOLEAN /\ gate \in BOOLEAN
  /\ phase \in {"running", "draining", "closed"} /\ sender \in BOOLEAN
  /\ queue \in Seq(Subs) /\ Len(queue) <= QueueLimit
  /\ at \in [Subs -> {"new", "created", "listening", "hooked", "replied",
                      "failed", "done"}]
  /\ \A s \in Subs : pending[s] \in 0..PendingLimit /\ received[s] <= published[s]
  /\ scheduled \in [Calls -> [state : {"new", "waiting", "started", "abandoned"}, done : BOOLEAN]]
  /\ waiter \in [Calls -> {"none", "waiting", "returned"}]
  /\ scheduler \in [named : SUBSET Calls, calls : [Calls -> Seq(Calls)]]
  /\ runner \in [Calls -> [at : {"none", "taking", "taken", "claiming", "running", "answering",
                                 "popping", "over", "panicked"},
                           queue : Calls, item : Calls]]

Init ==
  /\ link = TRUE /\ ctxOpen = TRUE /\ gate = TRUE
  /\ phase = "running" /\ sender = TRUE /\ queue = <<>>
  /\ at = [s \in Subs |-> "new"]
  /\ active = [s \in Subs |-> FALSE]
  /\ closed = [s \in Subs |-> FALSE]
  /\ pending = [s \in Subs |-> 0]
  /\ hooked = [s \in Subs |-> FALSE]
  /\ listening = {} /\ unhooking = {}
  /\ published = [s \in Subs |-> 0]
  /\ received = [s \in Subs |-> 0]
  /\ answered = {}
  /\ scheduled = [c \in Calls |-> [state |-> "new", done |-> FALSE]]
  /\ waiter = [c \in Calls |-> "none"]
  /\ scheduler = [named |-> {}, calls |-> [q \in Calls |-> <<>>]]
  /\ runner = [k \in Calls |-> [at |-> "none", queue |-> k, item |-> k]]

Goes(s, to) == at' = [at EXCEPT ![s] = to]
Waiting(c) == waiter[c] = "waiting"

\* A queue that is full ends the connection; nothing is dropped silently.
Enqueue_Drop(s, n) ==
  /\ queue' = IF Len(queue) + n <= QueueLimit
              THEN queue \o [i \in 1..n |-> s] ELSE queue
  /\ UNCHANGED ctxOpen
Enqueue(s, n) ==
  \/ /\ Len(queue) + n <= QueueLimit
     /\ queue' = queue \o [i \in 1..n |-> s]
     /\ UNCHANGED ctxOpen
  \/ /\ ~ctxOpen \/ Len(queue) + n > QueueLimit
     /\ ctxOpen' = FALSE
     /\ UNCHANGED queue

-----------------------------------------------------------------------------
(* A request that subscribes.                                              *)

\* Subscribe: refused when the connection is over.
Create(s) ==
  /\ at[s] = "new" /\ gate /\ link
  /\ Goes(s, IF ctxOpen THEN "created" ELSE "failed")
  /\ UNCHANGED <<link, ctxOpen, gate, phase, sender, queue, active, closed,
                 pending, hooked, listening, unhooking, published, received,
                 answered, schedVars>>

Listen(s) ==
  /\ at[s] = "created"
  /\ Goes(s, "listening")
  /\ listening' = listening \cup {s}
  /\ UNCHANGED <<link, ctxOpen, gate, phase, sender, queue, active, closed,
                 pending, hooked, unhooking, published, received, answered,
                 schedVars>>

\* SetCleanup: a subscription closed meanwhile is unhooked at once.
SetCleanup(s) ==
  IF closed[s] THEN listening' = listening \ {s} /\ UNCHANGED hooked
  ELSE hooked' = [hooked EXCEPT ![s] = TRUE] /\ UNCHANGED listening

Hook(s) ==
  /\ at[s] = "listening"
  /\ Goes(s, "hooked")
  /\ SetCleanup(s)
  /\ UNCHANGED <<link, ctxOpen, gate, phase, sender, queue, active, closed,
                 pending, unhooking, published, received, answered, schedVars>>

\* handleRequest: the response is written, or cannot be, or says that the
\* handler failed after it had subscribed.
Reply(s) ==
  /\ at[s] = "hooked"
  /\ \/ /\ link
        /\ answered' = answered \cup {s}
        /\ Goes(s, "replied")
        /\ UNCHANGED ctxOpen
     \/ /\ ~link
        /\ Goes(s, "failed")
        /\ ctxOpen' = FALSE
        /\ UNCHANGED answered
     \/ Goes(s, "failed") /\ UNCHANGED <<ctxOpen, answered>>
  /\ UNCHANGED <<link, gate, phase, sender, queue, active, closed, pending,
                 hooked, listening, unhooking, published, received, schedVars>>

MayNotify_Early(s) == at[s] /= "new"
MayNotify(s) == active[s]

\* What was held until the response goes out first.
Activate(s) ==
  /\ at[s] = "replied"
  /\ Goes(s, "done")
  /\ IF closed[s] THEN UNCHANGED <<active, pending, ctxOpen, queue>>
     ELSE /\ active' = [active EXCEPT ![s] = TRUE]
          /\ Enqueue(s, pending[s])
          /\ pending' = [pending EXCEPT ![s] = 0]
  /\ UNCHANGED <<link, gate, phase, sender, closed, hooked, listening,
                 unhooking, published, received, answered, schedVars>>

\* Subscription.close: closed first, then the cleanup it had.
Closing(s) ==
  /\ closed' = [closed EXCEPT ![s] = TRUE]
  /\ pending' = [pending EXCEPT ![s] = 0]
  /\ unhooking' = IF ~closed[s] /\ hooked[s] THEN unhooking \cup {s} ELSE unhooking

CloseFailed(s) ==
  /\ at[s] = "failed"
  /\ Goes(s, "done")
  /\ Closing(s)
  /\ UNCHANGED <<link, ctxOpen, gate, phase, sender, queue, active, hooked,
                 listening, published, received, answered, schedVars>>

\* server/unsubscribe, by a client that knows the subscription.
Unsubscribe(s) ==
  /\ gate /\ s \in answered /\ ~closed[s]
  /\ Closing(s)
  /\ UNCHANGED <<link, ctxOpen, gate, phase, sender, queue, at, active, hooked,
                 listening, published, received, answered, schedVars>>

Unhook(s) ==
  /\ s \in unhooking
  /\ unhooking' = unhooking \ {s}
  /\ listening' = listening \ {s}
  /\ UNCHANGED <<link, ctxOpen, gate, phase, sender, queue, at, active, closed,
                 pending, hooked, published, received, answered, schedVars>>

\* Subscription.Notify, under the subscription's lock.
Notify(s) ==
  /\ s \in listening /\ published[s] < MaxEvents
  /\ published' = [published EXCEPT ![s] = @ + 1]
  /\ IF closed[s] THEN UNCHANGED <<queue, pending, ctxOpen>>
     ELSE IF MayNotify(s) THEN Enqueue(s, 1) /\ UNCHANGED pending
     ELSE IF pending[s] = PendingLimit THEN ctxOpen' = FALSE /\ UNCHANGED <<queue, pending>>
     ELSE pending' = [pending EXCEPT ![s] = @ + 1] /\ UNCHANGED <<queue, ctxOpen>>
  /\ UNCHANGED <<link, gate, phase, sender, at, active, closed, hooked,
                 listening, unhooking, received, answered, schedVars>>

-----------------------------------------------------------------------------
(* The sender, and the end of the connection.                              *)

Send ==
  /\ sender /\ queue /= <<>>
  /\ queue' = Tail(queue)
  /\ IF link THEN /\ received' = [received EXCEPT ![Head(queue)] = @ + 1]
                  /\ UNCHANGED <<ctxOpen, sender>>
     ELSE ctxOpen' = FALSE /\ sender' = FALSE /\ UNCHANGED received
  /\ UNCHANGED <<link, gate, phase, at, active, closed, pending, hooked,
                 listening, unhooking, published, answered, schedVars>>

SenderEnds ==
  /\ sender /\ ~ctxOpen
  /\ sender' = FALSE
  /\ UNCHANGED <<link, ctxOpen, gate, phase, queue, subVars, schedVars>>

\* The client goes, or the transport is closed with the connection.
LinkDown ==
  /\ link
  /\ link' = FALSE
  /\ UNCHANGED <<ctxOpen, gate, phase, sender, queue, subVars, schedVars>>

Drain ==
  /\ ~link /\ phase = "running"
  /\ phase' = "draining"
  /\ gate' = FALSE
  /\ ctxOpen' = FALSE
  /\ UNCHANGED <<link, sender, queue, subVars, schedVars>>

Handling == {s \in Subs : at[s] \notin {"new", "done"}}
             \cup {c \in Own : Waiting(c)}
             \cup (IF phase = "closed" THEN {} ELSE unhooking)
MayClose_Early == TRUE
MayClose == Handling = {}

CloseAll ==
  /\ phase = "draining" /\ MayClose /\ ~sender
  /\ phase' = "closed"
  /\ closed' = [s \in Subs |-> TRUE]
  /\ pending' = [s \in Subs |-> 0]
  /\ unhooking' = unhooking \cup {s \in Subs : ~closed[s] /\ hooked[s]}
  /\ UNCHANGED <<link, ctxOpen, gate, sender, queue, at, active, hooked,
                 listening, published, received, answered, schedVars>>

-----------------------------------------------------------------------------
(* The writes of a session.                                                *)

CtxDone(c) == c \in Own /\ ~ctxOpen

\* Schedule: in the order of arrival, before the request gets its goroutine.
\* A queue that had no call gets a goroutine, its last one may still be there.
Schedule(c) ==
  /\ scheduled[c].state = "new" /\ (c \in Own => gate /\ link)
  /\ scheduled' = [scheduled EXCEPT ![c].state = "waiting"]
  /\ waiter' = [waiter EXCEPT ![c] = "waiting"]
  /\ \E q \in IF scheduler.named = {} THEN {c} ELSE scheduler.named :
       /\ scheduler' = [named |-> {q}, calls |-> [scheduler.calls EXCEPT ![q] = Append(@, c)]]
       /\ runner' = IF scheduler.calls[q] = <<>>
                    THEN [runner EXCEPT ![c] = [at |-> "taking", queue |-> q, item |-> c]]
                    ELSE runner
  /\ UNCHANGED <<link, ctxOpen, gate, phase, sender, queue, subVars>>

\* The waiting function gives up while the call has not begun.
MayAbandon_Always(c) == scheduled[c].state \in {"waiting", "started"}
MayAbandon(c) == scheduled[c].state = "waiting"

Abandon(c) ==
  /\ Waiting(c) /\ CtxDone(c) /\ MayAbandon(c)
  /\ scheduled' = [scheduled EXCEPT ![c].state = "abandoned"]
  /\ waiter' = [waiter EXCEPT ![c] = "returned"]
  /\ UNCHANGED <<link, ctxOpen, gate, phase, sender, queue, subVars, scheduler, runner>>

Return(c) ==
  /\ Waiting(c) /\ scheduled[c].done
  /\ scheduled' = [scheduled EXCEPT ![c].done = FALSE]
  /\ waiter' = [waiter EXCEPT ![c] = "returned"]
  /\ UNCHANGED <<link, ctxOpen, gate, phase, sender, queue, subVars, scheduler, runner>>

\* Scheduler.run, one step for what it does under a lock or in one operation.
Runs(k, place) == runner[k].at = place
Moves(k, place) == runner' = [runner EXCEPT ![k].at = place]
CallsOf(k) == scheduler.calls[runner[k].queue]
ItemOf(k) == scheduled[runner[k].item]

\* The first of the queue; without one, no queue is named any more.
Take(k) ==
  /\ Runs(k, "taking")
  /\ IF CallsOf(k) = <<>> THEN Moves(k, "over") /\ scheduler' = [scheduler EXCEPT !.named = {}]
     ELSE /\ runner' = [runner EXCEPT ![k].at = "taken", ![k].item = Head(CallsOf(k))]
          /\ UNCHANGED scheduler
  /\ UNCHANGED <<link, ctxOpen, gate, phase, sender, queue, subVars, scheduled, waiter>>

\* item.ctx.Err: who is gone gets that for an answer.
CheckCtx(k) ==
  /\ Runs(k, "taken")
  /\ Moves(k, IF CtxDone(runner[k].item) THEN "answering" ELSE "claiming")
  /\ UNCHANGED <<link, ctxOpen, gate, phase, sender, queue, subVars, scheduled, waiter, scheduler>>

\* CompareAndSwap: who loses it has an answer too, without an error.
Claim(k) ==
  /\ Runs(k, "claiming")
  /\ IF ItemOf(k).state = "waiting"
     THEN Moves(k, "running") /\ scheduled' = [scheduled EXCEPT ![runner[k].item].state = "started"]
     ELSE Moves(k, "answering") /\ UNCHANGED scheduled
  /\ UNCHANGED <<link, ctxOpen, gate, phase, sender, queue, subVars, waiter, scheduler>>

BodyEnds(k) ==
  /\ Runs(k, "running")
  /\ Moves(k, "answering")
  /\ UNCHANGED <<link, ctxOpen, gate, phase, sender, queue, subVars, scheduled, waiter, scheduler>>

\* done holds one result, whoever is there to receive it.
Room_Unbuffered(c) == ~scheduled[c].done /\ Waiting(c)
Room(c) == ~scheduled[c].done

Answer(k) ==
  /\ Runs(k, "answering") /\ Room(runner[k].item)
  /\ Moves(k, "popping")
  /\ scheduled' = [scheduled EXCEPT ![runner[k].item].done = TRUE]
  /\ UNCHANGED <<link, ctxOpen, gate, phase, sender, queue, subVars, waiter, scheduler>>

\* calls[0] = nil panics in a queue that another goroutine has emptied.
Pop(k) ==
  /\ Runs(k, "popping")
  /\ IF CallsOf(k) = <<>> THEN Moves(k, "panicked") /\ UNCHANGED scheduler
     ELSE /\ Moves(k, "taking")
          /\ scheduler' = [scheduler EXCEPT !.calls[runner[k].queue] = Tail(@)]
  /\ UNCHANGED <<link, ctxOpen, gate, phase, sender, queue, subVars, scheduled, waiter>>

\* The process ends with a goroutine that panics.
Up == \A k \in Calls : ~Runs(k, "panicked")

SubStep(s) == /\ Up
              /\ \/ Listen(s) \/ Hook(s) \/ Reply(s) \/ Activate(s)
                 \/ CloseFailed(s) \/ Unhook(s)
Waits(c) == Up /\ (Abandon(c) \/ Return(c))
Work(k) == /\ Up
           /\ \/ Take(k) \/ CheckCtx(k) \/ Claim(k) \/ BodyEnds(k) \/ Answer(k) \/ Pop(k)
End == Up /\ (SenderEnds \/ Drain \/ CloseAll \/ (~ctxOpen /\ LinkDown))

Next == \/ \E s \in Subs : \/ SubStep(s)
                           \/ Up /\ (Create(s) \/ Unsubscribe(s) \/ Notify(s))
        \/ \E c \in Calls : (Up /\ Schedule(c)) \/ Waits(c) \/ Work(c)
        \/ Up /\ (Send \/ SenderEnds \/ LinkDown \/ Drain \/ CloseAll)

\* Handlers and the goroutines of the scheduler go on, and a connection whose
\* context is cancelled loses its transport.
Fairness == /\ \A s \in Subs : WF_connVars(SubStep(s))
            /\ \A c \in Calls : WF_connVars(Waits(c)) /\ WF_connVars(Work(c))
            /\ WF_connVars(End)

Spec == Init /\ [][Next]_connVars /\ Fairness

-----------------------------------------------------------------------------
(* Properties.                                                             *)

InQueue(s) == Cardinality({i \in DOMAIN queue : queue[i] = s})

\* As long as the client is connected, an event its subscription heard is
\* delivered, queued or held until the response: none is lost without the
\* client being disconnected (notifications.go:106-139, connection.go:199-210).
NothingLost == \A s \in Subs :
  ctxOpen /\ ~closed[s] => published[s] = received[s] + InQueue(s) + pending[s]

\* No notification passes the response that names its subscription
\* (connection.go:130).
AfterResponse == \A s \in Subs : received[s] > 0 => s \in answered

\* A connection that is over hears nothing more, however its requests and
\* its end interleaved (connection.go:69-79, notifications.go:93-103).
ClosedHearsNothing ==
  phase = "closed" /\ unhooking = {} =>
    /\ listening = {}
    /\ \A c \in Own : ~Waiting(c)

\* A write that was given up does not run, and none runs in two goroutines,
\* however many of them took it (scheduler.go:64, 84).
RunsOnce == \A k \in Calls : Runs(k, "running") =>
  /\ ItemOf(k).state = "started"
  /\ \A j \in Calls : Runs(j, "running") /\ runner[j].item = runner[k].item => j = k

\* The writes of a session never come to a standstill: a queue with calls has a
\* goroutine that can go on, though others of it wait for ever to leave a
\* second answer (scheduler.go:52-55, 74-92).
GoesOn(k) == \/ Runs(k, "taking") \/ Runs(k, "popping")
             \/ /\ runner[k].item = Head(CallsOf(k))
                /\ \/ Runs(k, "taken") \/ Runs(k, "claiming") \/ Runs(k, "running")
                   \/ Runs(k, "answering") /\ Room(runner[k].item)
NothingStalls == \A q \in Calls : Up /\ scheduler.calls[q] /= <<>> =>
  \E k \in Calls : runner[k].queue = q /\ GoesOn(k)

\* The Scheduler runs the writes of a session one after the other, and who
\* sent one is answered when it is over (scheduler.go:15, 66).
OneByOne == \A k \in Calls : Runs(k, "running") =>
  /\ waiter[runner[k].item] = "waiting"
  /\ \A j \in Calls : Runs(j, "running") => j = k

\* A client that is gone is let go of, whatever its requests are doing, unless
\* the process ends (connection.go:69-79).
Gone == ~ctxOpen
Ended == phase = "closed" \/ ~Up
ConnectionEnds == Gone ~> Ended
=============================================================================

------------------------------ MODULE Updates ------------------------------
(***************************************************************************)
(* The numbered updates of one session: internal/runner/emit.go, run.go,   *)
(* diff_store.go, snapshot.go, internal/events/registry.go, and the        *)
(* subscription of internal/appserver/harness_run.go.                      *)
(*                                                                         *)
(* Every change of a session gets the next number under the lock of the    *)
(* live run, or of the runner when the session is idle, and is handed to   *)
(* the listeners later, with no lock held.  A subscriber listens first,    *)
(* then takes a snapshot with the number it includes, and from then on     *)
(* passes on consecutive numbers only.                                     *)
(***************************************************************************)
EXTENDS Naturals, Sequences, SequencesExt, FiniteSets

CONSTANTS
  Runs,         (* the runs of the session, one after the other            *)
  Reverts,      (* calls of RevertRunDiffFile for a finished run           *)
  MaxUpdates,   (* bound: how many updates are numbered in a behaviour     *)
  BufferLimit,  (* runEventBufferLimit                                     *)
  DiskFaults,   (* whether the usage record may fail to be written         *)
  NoRun         (* no run                                                  *)

Publishers == Runs \cup Reverts

VARIABLES
  live,    (* Runner.live of the session                                   *)
  clock,   (* Runner.clocks of the session                                 *)
  seq,     (* liveRun.updateSeq                                            *)
  phase,   (* how far a run has come                                       *)
  saved,   (* the number release read from the run it frees                *)
  stage,   (* how far a revert has come                                    *)
  outbox,  (* numbered by a goroutine, not yet handed to the listeners     *)
  copied,  (* the list of listeners a Publish under way has copied         *)
  issued,  (* history: all updates in the order they were numbered         *)
  sub,     (* the subscription                                             *)
  view,    (* its snapshot: the number included, how many were issued      *)
  through, (* runListener.through                                          *)
  buffer,  (* runListener.pending: who made the update with this number    *)
  sent     (* the updates passed on to the connection                      *)

runnerVars   == <<live, clock, seq, phase, saved>>
publishVars  == <<outbox, copied>>
listenerVars == <<through, buffer, sent>>
vars == <<runnerVars, stage, publishVars, issued, sub, view, listenerVars>>

Update(n, p) == [seq |-> n, by |-> p]
Listening == sub \in {"listening", "viewed", "ready"}

Init ==
  /\ live = NoRun
  /\ clock = 0
  /\ seq = [r \in Runs |-> 0]
  /\ phase = [r \in Runs |-> "new"]
  /\ saved = [r \in Runs |-> 0]
  /\ stage = [v \in Reverts |-> "idle"]
  /\ outbox = [p \in Publishers |-> <<>>]
  /\ copied = [p \in Publishers |-> "no"]
  /\ issued = <<>>
  /\ sub = "none"
  /\ view = [seq |-> 0, at |-> 0]
  /\ through = 0
  /\ buffer = <<>>
  /\ sent = <<>>

-----------------------------------------------------------------------------
(* Runs *)

(* The number a new run goes on from. *)
FirstSeq_Zero == 0
FirstSeq == clock
Begin(r) ==
  /\ phase[r] = "new"
  /\ live = NoRun
  /\ live' = r
  /\ seq' = [seq EXCEPT ![r] = FirstSeq]
  /\ phase' = [phase EXCEPT ![r] = "working"]
  /\ UNCHANGED <<clock, saved, stage, publishVars, issued, sub, view, listenerVars>>

Number(r, n) ==
  /\ Len(issued) < MaxUpdates
  /\ seq' = [seq EXCEPT ![r] = n]
  /\ issued' = Append(issued, Update(n, r))

(* liveEvent and its like.  The goroutine of a run numbers one update and  *)
(* publishes it, or a batch (checkpoint, persistOpenDrafts) that it        *)
(* publishes afterwards in order.  RunEnded is the last.                   *)
Stamp(r) ==
  /\ phase[r] = "working"
  /\ copied[r] = "no"
  /\ Number(r, seq[r] + 1)
  /\ outbox' = [outbox EXCEPT ![r] = Append(@, seq[r] + 1)]
  /\ \E last \in {"working", "ending"} : phase' = [phase EXCEPT ![r] = last]
  /\ UNCHANGED <<live, clock, saved, stage, copied, sub, view, listenerVars>>

(* publishUsage numbers the event before it writes the record; when that   *)
(* fails, it returns without publishing.                                   *)
StampLost(r) ==
  /\ DiskFaults
  /\ phase[r] = "working"
  /\ copied[r] = "no" /\ outbox[r] = <<>>
  /\ Number(r, seq[r] + 1)
  /\ UNCHANGED <<live, clock, phase, saved, stage, publishVars, sub, view, listenerVars>>

(* release reads the number under the lock of the run ...                  *)
ReleaseRead(r) ==
  /\ phase[r] \in {"working", "ending"}
  /\ outbox[r] = <<>> /\ copied[r] = "no"
  /\ saved' = [saved EXCEPT ![r] = seq[r]]
  /\ phase' = [phase EXCEPT ![r] = "freeing"]
  /\ UNCHANGED <<live, clock, seq, stage, publishVars, issued, sub, view, listenerVars>>

(* ... and leaves it to the session under the lock of the runner.          *)
KeptClock_Old(r) == clock
KeptClock(r) == saved[r]
ReleaseWrite(r) ==
  /\ phase[r] = "freeing"
  /\ live' = NoRun
  /\ clock' = KeptClock(r)
  /\ phase' = [phase EXCEPT ![r] = "free"]
  /\ UNCHANGED <<seq, saved, stage, publishVars, issued, sub, view, listenerVars>>

-----------------------------------------------------------------------------
(* RevertRunDiffFile: the session is looked at first, the file and the     *)
(* records are changed under recordsMu, and the update is numbered last.   *)

RevertCheck(v) ==
  /\ stage[v] = "idle"
  /\ stage' = [stage EXCEPT ![v] = IF live = NoRun THEN "checked" ELSE "refused"]
  /\ UNCHANGED <<runnerVars, publishVars, issued, sub, view, listenerVars>>

(* Only the record of the run whose file is reverted must have ended. *)
RevertStore(v) ==
  /\ stage[v] = "checked"
  /\ \/ /\ \E r \in Runs : phase[r] = "free"
        /\ stage' = [stage EXCEPT ![v] = "stored"]
     \/ stage' = [stage EXCEPT ![v] = "refused"]
  /\ UNCHANGED <<runnerVars, publishVars, issued, sub, view, listenerVars>>

(* nextSessionEvent *)
RevertStamp(v) ==
  /\ stage[v] = "stored"
  /\ Len(issued) < MaxUpdates
  /\ LET n == IF live = NoRun THEN clock + 1 ELSE seq[live] + 1 IN
     /\ IF live = NoRun
        THEN clock' = n /\ UNCHANGED seq
        ELSE seq' = [seq EXCEPT ![live] = n] /\ UNCHANGED clock
     /\ issued' = Append(issued, Update(n, v))
     /\ outbox' = [outbox EXCEPT ![v] = <<n>>]
  /\ stage' = [stage EXCEPT ![v] = "done"]
  /\ UNCHANGED <<live, phase, saved, copied, sub, view, listenerVars>>

-----------------------------------------------------------------------------
(* The subscription *)

(* The number up to which buf holds everything that follows n. *)
Reach(buf, n) ==
  CHOOSE m \in n..(n + Cardinality(DOMAIN buf)) :
    (n + 1)..m \subseteq DOMAIN buf /\ m + 1 \notin DOMAIN buf

(* flush: pass on what follows through, keep the rest. *)
Flush_All(buf, n) ==
  LET order == SetToSortSeq(DOMAIN buf, LAMBDA j, k : j < k) IN
  /\ through' = IF order = <<>> THEN n ELSE Last(order)
  /\ buffer' = <<>>
  /\ sent' = sent \o [k \in DOMAIN order |-> Update(order[k], buf[order[k]])]
Flush(buf, n) ==
  /\ through' = Reach(buf, n)
  /\ buffer' = [k \in {k \in DOMAIN buf : k > Reach(buf, n)} |-> buf[k]]
  /\ sent' = sent \o [k \in 1..(Reach(buf, n) - n) |-> Update(n + k, buf[n + k])]

(* receive: a number that has been passed is dropped; too many waiting     *)
(* numbers end the connection.                                             *)
Receive_WhenReady(n, p) ==
  IF sub # "ready" \/ n <= through
  THEN UNCHANGED <<sub, listenerVars>>
  ELSE /\ Flush([k \in DOMAIN buffer \cup {n} |-> IF k = n THEN p ELSE buffer[k]], through)
       /\ UNCHANGED sub
Receive(n, p) ==
  IF sub = "gone" \/ n <= through
  THEN UNCHANGED <<sub, listenerVars>>
  ELSE LET buf == [k \in DOMAIN buffer \cup {n} |-> IF k = n THEN p ELSE buffer[k]] IN
       /\ IF sub = "ready"
          THEN Flush(buf, through)
          ELSE buffer' = buf /\ UNCHANGED <<through, sent>>
       /\ sub' = IF Cardinality(DOMAIN buffer') > BufferLimit THEN "gone" ELSE sub

(* Publish copies the list of listeners under its lock ... *)
PublishCopy(p) ==
  /\ outbox[p] # <<>>
  /\ copied[p] = "no"
  /\ copied' = [copied EXCEPT ![p] = IF Listening THEN "with" ELSE "without"]
  /\ UNCHANGED <<runnerVars, stage, outbox, issued, sub, view, listenerVars>>

(* ... and calls them without it. *)
PublishCall(p) ==
  /\ copied[p] # "no"
  /\ copied' = [copied EXCEPT ![p] = "no"]
  /\ outbox' = [outbox EXCEPT ![p] = Tail(@)]
  /\ IF copied[p] = "with"
     THEN Receive(Head(outbox[p]), p)
     ELSE UNCHANGED <<sub, listenerVars>>
  /\ UNCHANGED <<runnerVars, stage, issued, view>>

(* handleSubscribe: listen, take the snapshot, start. *)
Listen ==
  /\ sub = "none"
  /\ sub' = "listening"
  /\ UNCHANGED <<runnerVars, stage, publishVars, issued, view, listenerVars>>

(* SessionView holds recordsMu and the locks of runner and run together. *)
Boundary_Clock == clock
Boundary_Before == IF live = NoRun THEN clock - 1 ELSE seq[live] - 1
Boundary == IF live = NoRun THEN clock ELSE seq[live]
View ==
  /\ sub = "listening"
  /\ sub' = "viewed"
  /\ view' = [seq |-> Boundary, at |-> Len(issued)]
  /\ UNCHANGED <<runnerVars, stage, publishVars, issued, listenerVars>>

StartListener ==
  /\ sub = "viewed"
  /\ sub' = "ready"
  /\ Flush([k \in {k \in DOMAIN buffer : k > view.seq} |-> buffer[k]], view.seq)
  /\ UNCHANGED <<runnerVars, stage, publishVars, issued, view>>

(* The client unsubscribes or its connection ends. *)
Leave ==
  /\ Listening
  /\ sub' = "gone"
  /\ UNCHANGED <<runnerVars, stage, publishVars, issued, view, listenerVars>>

-----------------------------------------------------------------------------
PublisherStep(p) == PublishCopy(p) \/ PublishCall(p)

Next ==
  \/ \E r \in Runs : Begin(r) \/ Stamp(r) \/ StampLost(r) \/ ReleaseRead(r) \/ ReleaseWrite(r)
  \/ \E v \in Reverts : RevertCheck(v) \/ RevertStore(v) \/ RevertStamp(v)
  \/ \E p \in Publishers : PublisherStep(p)
  \/ Listen \/ View \/ StartListener \/ Leave

(* Goroutines that publish and the subscribing request keep running. *)
Fairness ==
  /\ \A p \in Publishers : WF_vars(PublisherStep(p))
  /\ WF_vars(View) /\ WF_vars(StartListener)

Spec == Init /\ [][Next]_vars /\ Fairness

-----------------------------------------------------------------------------
(* Properties *)

TypeOK ==
  /\ live \in Runs \cup {NoRun}
  /\ clock \in Nat
  /\ seq \in [Runs -> Nat] /\ saved \in [Runs -> Nat]
  /\ phase \in [Runs -> {"new", "working", "ending", "freeing", "free"}]
  /\ stage \in [Reverts -> {"idle", "checked", "refused", "stored", "done"}]
  /\ outbox \in [Publishers -> Seq(Nat)]
  /\ copied \in [Publishers -> {"no", "with", "without"}]
  /\ issued \in Seq([seq : Nat, by : Publishers])
  /\ sub \in {"none", "listening", "viewed", "ready", "gone"}
  /\ view \in [seq : Nat, at : Nat]
  /\ through \in Nat
  /\ DOMAIN buffer \subseteq Nat /\ \A k \in DOMAIN buffer : buffer[k] \in Publishers
  /\ sent \in Seq([seq : Nat, by : Publishers])

(* Runner.clocks keeps the number of a session after its run has ended     *)
(* (run.go): an idle session goes on from the last number ever issued, so  *)
(* that no number is issued twice.                                         *)
ClockKept ==
  live = NoRun => clock = IF issued = <<>> THEN 0 ELSE issued[Len(issued)].seq

(* A subscriber sees the updates its snapshot does not include, all of     *)
(* them, each once, in the order in which they happened.                   *)
UpdatesInOrder ==
  sub = "ready" => IsPrefix(sent, SubSeq(issued, view.at + 1, Len(issued)))

(* A subscriber that is still connected when all updates have been handed  *)
(* out has seen them all: nothing waits for a number that never comes.     *)
QuietIsCaughtUp ==
  (sub = "ready" /\ \A p \in Publishers : outbox[p] = <<>>) =>
    view.at + Len(sent) = Len(issued)

(* Whoever subscribes gets a snapshot and every later update, or loses the *)
(* connection and knows that it has to subscribe again.                    *)
Numbered(n) == Listening /\ Len(issued) >= n
Served(n) == sub = "gone" \/ (sub = "ready" /\ view.at + Len(sent) >= n)
CaughtUp == \A n \in 1..MaxUpdates : Numbered(n) ~> Served(n)
=============================================================================

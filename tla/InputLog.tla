------------------------------ MODULE InputLog ------------------------------
(***************************************************************************)
(* What the runner promises to those who speak to a session.  An input is  *)
(* free, held, logged or refused.  What is held forms one queue; it is     *)
(* settled as a whole: a head of it is logged in order, the rest is let    *)
(* go.  The opening entry of a turn never overtakes a held input.  A Steer *)
(* that was let go is refused for ever, a collaboration message may be     *)
(* offered again.                                                          *)
(***************************************************************************)
EXTENDS Naturals, Sequences, SequencesExt

CONSTANTS Sessions, Inputs, Steers, Openings

VARIABLES
  log,    (* the entries of a session, in order  *)
  queue,  (* the inputs a session holds          *)
  fate    (* what has become of an input         *)

logVars == <<log, queue, fate>>

Init ==
  /\ log = [s \in Sessions |-> <<>>]
  /\ queue = [s \in Sessions |-> <<>>]
  /\ fate = [i \in Inputs |-> "free"]

Open(s, x) ==
  /\ queue[s] = <<>>
  /\ log' = [log EXCEPT ![s] = Append(@, x)]
  /\ UNCHANGED <<queue, fate>>

Offer(s, i) ==
  /\ fate[i] = "free"
  /\ queue' = [queue EXCEPT ![s] = Append(@, i)]
  /\ fate' = [fate EXCEPT ![i] = "held"]
  /\ UNCHANGED log

Settle(s, n) ==
  /\ log' = [log EXCEPT ![s] = @ \o SubSeq(queue[s], 1, n)]
  /\ fate' = [i \in Inputs |->
                IF i \notin ToSet(queue[s]) THEN fate[i]
                ELSE IF i \in ToSet(SubSeq(queue[s], 1, n)) THEN "logged"
                ELSE IF i \in Steers THEN "refused" ELSE "free"]
  /\ queue' = [queue EXCEPT ![s] = <<>>]

Next == \E s \in Sessions :
          \/ \E x \in Openings : Open(s, x)
          \/ \E i \in Inputs : Offer(s, i)
          \/ \E n \in 0..Len(queue[s]) : Settle(s, n)

Spec == Init /\ [][Next]_logVars
=============================================================================

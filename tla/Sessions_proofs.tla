-------------------------- MODULE Sessions_proofs ---------------------------
(***************************************************************************)
(* Theorems about a session and what surrounds it: the numbers of its      *)
(* updates, the delivery of results to it, and the settings it is run      *)
(* with.  The components do not share state; each has a section, with its  *)
(* inductive invariant.                                                    *)
(***************************************************************************)
EXTENDS FiniteSets, Naturals, Sequences, SequencesExt, FiniteSetTheorems, SequenceTheorems,
  NaturalsInduction, WellFoundedInduction, TLAPS

CONSTANTS
  Runs, Reverts, MaxUpdates, BufferLimit, DiskFaults, NoRun, Tasks, MaxTurns,
  MaxRuns, MaxFaults, None, Workspaces, Pages, Checks, Versions, Unreadable,
  MaxEdits, Agents, Default, Sessions, MaxSaves, MaxNew, Providers, Models,
  Protocols, Of, CatalogProtocol, Catalog, Formats, Editors, ModelRuns

VARIABLES
  live, clock, seq, phase, saved, stage, outbox, copied, issued, sub, view,
  through, buffer, sent, turn, running, tracked, loop, loopWoken, scan, retry,
  confirmed, wait, waitWoken, runPhase, runNo, stopped, familyStopped, asked, due,
  inbox, ledger, faults, global, project, trust, mu, page, check, forget, kept,
  mixed, edits, hookFaults, agents, chosen, source, list, save, delete, choose, fork, spawn,
  saves, begun, config, models, current, editMu, form, pinned, stale, byHand,
  settingSaves, handEdits, modelFaults

-----------------------------------------------------------------------------
(* Updates                                                                  *)

U == INSTANCE Updates

(* An instance has its own name for the number of elements. *)
LEMMA UpdateCounts == \A S : U!Cardinality(S) = Cardinality(S)
BY DEF U!Cardinality, Cardinality

-----------------------------------------------------------------------------
(* The inductive invariant *)

(* Runs, reverts and "no run" are different things. *)
Distinct == NoRun \notin Runs /\ Runs \cap Reverts = {}

(* Nothing is numbered while release has read the number of a run and not  *)
(* yet written it.                                                         *)
Calm == \A r \in Runs : phase[r] = "freeing" => issued' = issued

UpdateTypes == U!TypeOK /\ IsFiniteSet(DOMAIN buffer)

(* One run at a time is at work. *)
Occupied == \A r \in Runs : phase[r] \in {"working", "ending", "freeing"} <=> live = r

(* The kth update has the number k, and whoever numbers the next one knows. *)
Counted ==
  /\ \A k \in 1..Len(issued) : issued[k].seq = k
  /\ live = NoRun => clock = Len(issued)
  /\ \A r \in Runs : live = r => seq[r] = Len(issued)
  /\ \A r \in Runs : phase[r] = "freeing" => saved[r] = Len(issued)

(* A publisher holds its own updates. *)
Queued ==
  /\ \A p \in U!Publishers : \A i \in 1..Len(outbox[p]) :
       outbox[p][i] \in 1..Len(issued) /\ issued[outbox[p][i]].by = p
  /\ \A p \in U!Publishers : copied[p] # "no" => outbox[p] # <<>>
  /\ \A v \in Reverts : stage[v] # "done" => outbox[v] = <<>> /\ copied[v] = "no"

(* What waits at the subscriber was issued by whom it says. *)
Held == \A k \in DOMAIN buffer : k \in 1..Len(issued) /\ buffer[k] = issued[k].by

(* What was passed on follows the snapshot, and what waits does not follow *)
(* that at once.                                                           *)
Passed ==
  /\ sub \in {"viewed", "ready"} => view.seq = view.at /\ view.at <= Len(issued)
  /\ sub \in {"none", "listening", "viewed"} => through = 0 /\ sent = <<>>
  /\ sub = "ready" =>
       /\ through = view.at + Len(sent) /\ through <= Len(issued)
       /\ \A i \in 1..Len(sent) : sent[i] = issued[view.at + i]
       /\ \A k \in DOMAIN buffer : k > through + 1

UpdateIInv == UpdateTypes /\ Occupied /\ Counted /\ Queued /\ Held /\ Passed

(* Where no write fails, what the subscriber lacks is on its way. *)
Coming(n) == n \in DOMAIN buffer \/ \E p \in U!Publishers : n \in ToSet(outbox[p])
UpdateOwed ==
  /\ sub = "viewed" => \A n \in (view.at + 1)..Len(issued) : Coming(n)
  /\ sub = "ready" => \A n \in (through + 1)..Len(issued) : Coming(n)
  /\ sub \in {"viewed", "ready"} =>
       \A p \in U!Publishers : copied[p] = "without" => Head(outbox[p]) <= view.at

-----------------------------------------------------------------------------
(* The subscriber *)

(* Some number after n is not in a finite set, so there is a first one. *)
LEMMA HasFirstGap ==
  ASSUME NEW D, IsFiniteSet(D), NEW n \in Nat
  PROVE  \E m \in n..(n + Cardinality(D)) : (n + 1)..m \subseteq D /\ m + 1 \notin D
  <1>1. PICK c \in Nat : c = Cardinality(D)
    BY FS_CardinalityType
  <1>2. \E j \in 0..c : n + 1 + j \notin D
    <2> SUFFICES ASSUME \A j \in 0..c : n + 1 + j \in D
                 PROVE  FALSE
      OBVIOUS
    <2>1. \A k \in (n + 1)..(n + 1 + c) : k \in D
      <3> TAKE k \in (n + 1)..(n + 1 + c)
      <3>1. k - (n + 1) \in 0..c /\ n + 1 + (k - (n + 1)) = k
        OBVIOUS
      <3>2. QED
        BY <3>1
    <2>2. Cardinality((n + 1)..(n + 1 + c)) = c + 1
      <3>1. n + 1 \in Int /\ n + 1 + c \in Int
        OBVIOUS
      <3>2. QED
        BY <3>1, FS_Interval
    <2>3. Cardinality((n + 1)..(n + 1 + c)) <= c
      BY <1>1, <2>1, FS_Subset
    <2>4. QED
      BY <2>2, <2>3
  <1> DEFINE T == {j \in Nat : n + 1 + j \notin D}
             R == OpToRel(<, Nat)
  <1>3. IsWellFoundedOn(R, Nat)
    BY NatLessThanWellFounded
  <1>4. T \subseteq Nat /\ T # {}
    <2>1. PICK j \in 0..c : n + 1 + j \notin D
      BY <1>2
    <2>2. j \in T
      BY <2>1
    <2>3. QED
      BY <2>2
  <1>5. \E x \in T : \A y \in T : <<y, x>> \notin R
    BY ONLY <1>3, <1>4, WFMin
  <1>6. PICK j \in Nat : n + 1 + j \notin D /\ \A y \in Nat : n + 1 + y \notin D => <<y, j>> \notin R
    BY <1>5
  <1>7. \A x, y \in Nat : <<y, x>> \in R <=> y < x
    BY DEF OpToRel
  <1>8. \A y \in Nat : y < j => n + 1 + y \in D
    BY <1>6, <1>7
  <1>9. j <= c
    BY <1>2, <1>8
  <1>10. \A k \in (n + 1)..(n + j) : k \in D
    <2> TAKE k \in (n + 1)..(n + j)
    <2>1. k - (n + 1) \in Nat /\ k - (n + 1) < j /\ n + 1 + (k - (n + 1)) = k
      OBVIOUS
    <2>2. QED
      BY <1>8, <2>1
  <1>11. n + j \in n..(n + c) /\ (n + j) + 1 = n + 1 + j
    BY <1>9
  <1>12. QED
    BY <1>1, <1>6, <1>10, <1>11

(* How far flush gets. *)
LEMMA ReachIs ==
  ASSUME NEW buf, IsFiniteSet(DOMAIN buf), NEW n \in Nat
  PROVE  /\ U!Reach(buf, n) \in Nat /\ n <= U!Reach(buf, n)
         /\ \A k \in (n + 1)..U!Reach(buf, n) : k \in DOMAIN buf
         /\ U!Reach(buf, n) + 1 \notin DOMAIN buf
  <1>1. \E m \in n..(n + Cardinality(DOMAIN buf)) :
          (n + 1)..m \subseteq DOMAIN buf /\ m + 1 \notin DOMAIN buf
    BY HasFirstGap
  <1>2. PICK m : m = U!Reach(buf, n)
    OBVIOUS
  <1>3. /\ m \in n..(n + Cardinality(DOMAIN buf))
        /\ (n + 1)..m \subseteq DOMAIN buf /\ m + 1 \notin DOMAIN buf
    BY <1>1, <1>2, UpdateCounts DEF U!Reach
  <1>4. Cardinality(DOMAIN buf) \in Nat
    BY FS_CardinalityType
  <1>5. m \in Nat /\ n <= m
    BY ONLY <1>3, <1>4, n \in Nat
  <1>6. QED
    BY <1>2, <1>3, <1>5

(* What a subscriber with a snapshot has, after flush, when what waits was *)
(* issued and what was passed on follows the snapshot.                     *)
LEMMA FlushPasses ==
  ASSUME U!TypeOK, Counted, NEW buf, IsFiniteSet(DOMAIN buf), NEW n \in Nat, U!Flush(buf, n),
         n = view.at + Len(sent), n <= Len(issued),
         \A i \in 1..Len(sent) : sent[i] = issued[view.at + i],
         \A k \in DOMAIN buf : k \in 1..Len(issued) /\ buf[k] = issued[k].by
  PROVE  /\ through' \in Nat /\ n <= through' /\ through' <= Len(issued)
         /\ through' = view.at + Len(sent')
         /\ \A i \in 1..Len(sent') : sent'[i] = issued[view.at + i]
         /\ sent' \in Seq([seq : Nat, by : U!Publishers])
         /\ \A k \in DOMAIN buffer' : k \in DOMAIN buf /\ k > through' + 1 /\ buffer'[k] = buf[k]
         /\ \A k \in DOMAIN buf : k \in DOMAIN buffer' \/ k <= through'
  <1> DEFINE Entries == [seq : Nat, by : U!Publishers]
  <1>1. PICK m \in Nat :
           /\ m = U!Reach(buf, n) /\ n <= m
           /\ \A k \in (n + 1)..m : k \in DOMAIN buf
           /\ m + 1 \notin DOMAIN buf
    BY ReachIs
  <1> DEFINE t == [k \in 1..(U!Reach(buf, n) - n) |-> U!Update(n + k, buf[n + k])]
  <1>0. /\ through' = m
        /\ buffer' = [k \in {k \in DOMAIN buf : k > m} |-> buf[k]]
        /\ sent' = sent \o t
    BY <1>1 DEF U!Flush
  <1>2. t = [k \in 1..(m - n) |-> U!Update(n + k, buf[n + k])]
    BY <1>1
  <1> HIDE DEF t
  <1>3. PICK len \in Nat : len = Len(issued)
    BY DEF U!TypeOK
  <1>4. /\ issued \in Seq(Entries) /\ sent \in Seq(Entries) /\ DOMAIN issued = 1..len
        /\ \A k \in 1..len : issued[k].seq = k /\ issued[k] \in Entries
    <2>1. issued \in Seq(Entries) /\ sent \in Seq(Entries)
      BY DEF U!TypeOK
    <2> HIDE DEF Entries
    <2>2. DOMAIN issued = 1..len /\ \A k \in 1..len : issued[k] \in Entries
      BY <1>3, <2>1
    <2>3. QED
      BY <1>3, <2>1, <2>2 DEF Counted
  <1>5. \A k \in 1..len : U!Update(k, issued[k].by) = issued[k]
    BY <1>4 DEF U!Update
  <1>6. m - n \in Nat
    BY <1>1
  <1>7. \A k \in 1..(m - n) : t[k] = issued[n + k] /\ n + k \in 1..len
    <2> TAKE k \in 1..(m - n)
    <2>1. n + k \in (n + 1)..m
      BY <1>1, <1>6
    <2>2. n + k \in DOMAIN buf
      BY <1>1, <2>1
    <2>3. n + k \in 1..len /\ buf[n + k] = issued[n + k].by
      BY <1>3, <2>2
    <2>4. t[k] = U!Update(n + k, buf[n + k])
      BY <1>2
    <2>5. QED
      BY <1>5, <2>3, <2>4
  <1>8. t \in Seq(Entries) /\ Len(t) = m - n
    <2>1. \A k \in 1..(m - n) : t[k] \in Entries
      BY <1>4, <1>7
    <2>2. t \in [1..(m - n) -> Entries]
      BY <1>2, <2>1
    <2>3. PICK d \in Nat : d = m - n
      BY <1>6
    <2>4. t \in [1..d -> Entries]
      BY <2>2, <2>3
    <2> HIDE DEF Entries
    <2>5. t \in Seq(Entries) /\ Len(t) = d
      BY <2>4
    <2>6. QED
      BY <2>3, <2>5
  <1>9. /\ sent' = sent \o t /\ sent' \in Seq(Entries) /\ Len(sent') = Len(sent) + Len(t)
        /\ \A i \in 1..(Len(sent) + Len(t)) :
             sent'[i] = IF i <= Len(sent) THEN sent[i] ELSE t[i - Len(sent)]
    <2> HIDE DEF Entries
    <2>1. sent \in Seq(Entries) /\ t \in Seq(Entries)
      BY <1>4, <1>8
    <2>2. /\ sent \o t \in Seq(Entries) /\ Len(sent \o t) = Len(sent) + Len(t)
          /\ \A i \in 1..(Len(sent) + Len(t)) :
               (sent \o t)[i] = IF i <= Len(sent) THEN sent[i] ELSE t[i - Len(sent)]
      BY ONLY <2>1, ConcatProperties
    <2>3. sent' = sent \o t
      BY <1>0
    <2>4. QED
      BY ONLY <2>2, <2>3
  <1>10. PICK q \in Nat : q = Len(sent)
    BY <1>4
  <1>11. PICK a \in Nat : a = view.at
    BY DEF U!TypeOK
  <1>12. n = a + q /\ Len(sent') = q + (m - n)
    BY <1>8, <1>9, <1>10, <1>11
  <1>13. \A i \in 1..Len(sent') : sent'[i] = issued[view.at + i]
    <2> TAKE i \in 1..Len(sent')
    <2>1. CASE i <= q
      BY <1>8, <1>9, <1>10, <2>1
    <2>2. CASE ~(i <= q)
      <3>1. i - q \in 1..(m - n) /\ n + (i - q) = a + i
        <4>1. PICK d \in Nat : d = m - n
          BY <1>6
        <4>2. i \in 1..(q + d) /\ n = a + q /\ a \in Nat /\ q \in Nat
          BY <1>12, <4>1
        <4>3. i - q \in 1..d /\ n + (i - q) = a + i
          BY ONLY <4>1, <4>2, <2>2
        <4>. QED BY <4>1, <4>3
      <3>2. sent'[i] = t[i - q]
        BY <1>8, <1>9, <1>10, <2>2
      <3>3. QED
        BY <1>7, <1>11, <3>1, <3>2
    <2>3. QED
      BY <2>1, <2>2
  <1>14. m <= len
    <2>1. CASE m = n
      BY <1>3, <2>1
    <2>2. CASE m # n
      <3>1. m \in (n + 1)..m
        BY <1>1, <2>2
      <3>2. QED
        BY <1>1, <1>3, <3>1
    <2>3. QED
      BY <2>1, <2>2
  <1>15. \A k \in DOMAIN buf : k \in Nat
    BY <1>3
  <1>16. \A k \in DOMAIN buffer' : k \in DOMAIN buf /\ k > m + 1 /\ buffer'[k] = buf[k]
    BY <1>0, <1>1, <1>15
  <1>17. \A k \in DOMAIN buf : k \in DOMAIN buffer' \/ k <= m
    BY <1>0, <1>1, <1>15
  <1>18. m = view.at + Len(sent')
    <2>1. n = a + q /\ view.at = a
      BY <1>11, <1>12
    <2>2. Len(sent') = q + (m - n)
      BY <1>12
    <2>3. m = a + (q + (m - n))
      BY <2>1
    <2>4. QED
      BY ONLY <2>1, <2>2, <2>3
  <1>19. QED
    BY <1>0, <1>1, <1>3, <1>9, <1>13, <1>14, <1>16, <1>17, <1>18

(* What a subscriber has after it was given an update that was issued.     *)
LEMMA ReceiveIs ==
  ASSUME UpdateIInv, NEW n \in 1..Len(issued), NEW p, p = issued[n].by, U!Receive(n, p),
         UNCHANGED <<issued, view>>
  PROVE  /\ Held' /\ Passed' /\ IsFiniteSet(DOMAIN buffer')
         /\ \A k \in DOMAIN buffer' : buffer'[k] \in U!Publishers
         /\ through' \in Nat /\ sent' \in Seq([seq : Nat, by : U!Publishers])
         /\ sub' \in {sub, "gone"}
         /\ sub' # "gone" => /\ n \in DOMAIN buffer' \/ n <= through'
                             /\ \A k \in DOMAIN buffer : k \in DOMAIN buffer' \/ k <= through'
                             /\ through <= through'
  <1> USE DEF UpdateIInv, UpdateTypes
  <1>1. PICK len \in Nat : len = Len(issued)
    BY DEF U!TypeOK
  <1>2. \A k \in 1..len : issued[k].by \in U!Publishers
    <2> DEFINE Entries == [seq : Nat, by : U!Publishers]
    <2>1. issued \in Seq(Entries)
      BY DEF U!TypeOK
    <2>2. \A u \in Entries : u.by \in U!Publishers
      OBVIOUS
    <2> HIDE DEF Entries
    <2>3. \A k \in 1..len : issued[k] \in Entries
      BY <1>1, <2>1
    <2>4. QED
      BY <2>2, <2>3
  <1>3. through \in Nat
    BY DEF U!TypeOK
  <1>4. CASE sub = "gone" \/ n <= through
    <2>1. UNCHANGED <<sub, through, buffer, sent, issued, view>>
      BY <1>4 DEF U!Receive, U!listenerVars
    <2>2. Held' /\ Passed'
      BY <2>1 DEF Held, Passed
    <2>3. sent \in Seq([seq : Nat, by : U!Publishers]) /\ \A k \in DOMAIN buffer : buffer[k] \in U!Publishers
      BY DEF U!TypeOK
    <2>4. through <= through
      BY <1>3
    <2>5. QED
      BY <1>3, <1>4, <2>1, <2>2, <2>3, <2>4
  <1>5. CASE sub # "gone" /\ ~(n <= through)
    <2> DEFINE buf == [k \in DOMAIN buffer \cup {n} |-> IF k = n THEN p ELSE buffer[k]]
    <2>1. /\ IF sub = "ready" THEN U!Flush(buf, through)
             ELSE buffer' = buf /\ UNCHANGED <<through, sent>>
          /\ sub' \in {sub, "gone"}
      BY <1>5 DEF U!Receive
    <2>2. /\ DOMAIN buf = DOMAIN buffer \cup {n} /\ IsFiniteSet(DOMAIN buf)
          /\ \A k \in DOMAIN buf : k \in 1..len /\ buf[k] = issued[k].by
      <3>1. DOMAIN buf = DOMAIN buffer \cup {n}
        OBVIOUS
      <3>2. IsFiniteSet(DOMAIN buf)
        BY <3>1, FS_AddElement
      <3>3. QED
        BY <1>1, <3>1, <3>2 DEF Held
    <2> HIDE DEF buf
    <2>3. CASE sub = "ready"
      <3>1. /\ through = view.at + Len(sent) /\ through <= Len(issued)
            /\ \A i \in 1..Len(sent) : sent[i] = issued[view.at + i]
        BY <2>3 DEF Passed
      <3>2. U!Flush(buf, through) /\ U!TypeOK /\ Counted
        BY <2>1, <2>3
      <3>3. /\ through' \in Nat /\ through <= through' /\ through' <= Len(issued)
            /\ through' = view.at + Len(sent')
            /\ \A i \in 1..Len(sent') : sent'[i] = issued[view.at + i]
            /\ sent' \in Seq([seq : Nat, by : U!Publishers])
            /\ \A k \in DOMAIN buffer' : k \in DOMAIN buf /\ k > through' + 1 /\ buffer'[k] = buf[k]
            /\ \A k \in DOMAIN buf : k \in DOMAIN buffer' \/ k <= through'
        BY ONLY <1>1, <1>3, <2>2, <3>1, <3>2, FlushPasses
      <3>4. IsFiniteSet(DOMAIN buffer')
        BY <2>2, <3>3, FS_Subset
      <3>5. Held'
        BY <1>1, <2>2, <3>3 DEF Held
      <3>6. Passed'
        BY <2>1, <2>3, <3>3 DEF Passed
      <3>7. QED
        BY <1>1, <1>2, <2>1, <2>2, <3>3, <3>4, <3>5, <3>6
    <2>4. CASE sub # "ready"
      <3>1. buffer' = buf /\ UNCHANGED <<through, sent, issued, view>> /\ sub' \in {sub, "gone"}
        BY <2>1, <2>4
      <3>2. Held'
        BY <1>1, <2>2, <3>1 DEF Held
      <3>3. Passed'
        BY <2>4, <3>1 DEF Passed
      <3>4. sent \in Seq([seq : Nat, by : U!Publishers]) /\ through <= through
        BY <1>3 DEF U!TypeOK
      <3>5. \A k \in DOMAIN buffer' : buffer'[k] \in U!Publishers
        BY <1>2, <2>2, <3>1
      <3>6. n \in DOMAIN buffer' /\ \A k \in DOMAIN buffer : k \in DOMAIN buffer'
        BY <2>2, <3>1
      <3>7. QED
        BY <1>3, <2>2, <3>1, <3>2, <3>3, <3>4, <3>5, <3>6
    <2>5. QED
      BY <2>3, <2>4
  <1>6. QED
    BY <1>4, <1>5

-----------------------------------------------------------------------------
(* Numbering an update *)

(* The next update is issued under the next number, and what the           *)
(* subscriber knows stays right.                                           *)
LEMMA IssuedGrows ==
  ASSUME UpdateIInv, NEW p \in U!Publishers, NEW n, n = Len(issued) + 1,
         issued' = Append(issued, U!Update(n, p)), UNCHANGED <<sub, view, U!listenerVars>>
  PROVE  /\ issued' \in Seq([seq : Nat, by : U!Publishers]) /\ Len(issued') = n
         /\ \A k \in 1..Len(issued) : issued'[k] = issued[k]
         /\ issued'[n].by = p
         /\ \A k \in 1..Len(issued') : issued'[k].seq = k
         /\ Held' /\ Passed'
  <1> DEFINE Entries == [seq : Nat, by : U!Publishers]
  <1>1. PICK len \in Nat : len = Len(issued)
    BY DEF UpdateIInv, UpdateTypes, U!TypeOK
  <1>2. issued \in Seq(Entries)
    BY DEF UpdateIInv, UpdateTypes, U!TypeOK
  <1>3. U!Update(n, p) \in Entries /\ U!Update(n, p).seq = n /\ U!Update(n, p).by = p /\ n = len + 1
    BY <1>1 DEF U!Update
  <1> DEFINE u == U!Update(n, p)
  <1>4. u \in Entries /\ u.seq = n /\ u.by = p /\ issued' = Append(issued, u)
    BY <1>3
  <1> HIDE DEF Entries, u
  <1>5. /\ issued' \in Seq(Entries) /\ Len(issued') = n /\ issued'[n] = u
        /\ \A k \in 1..len : issued'[k] = issued[k]
    BY <1>1, <1>2, <1>3, <1>4
  <1>6. \A k \in 1..Len(issued') : issued'[k].seq = k
    <2> TAKE k \in 1..Len(issued')
    <2>1. CASE k = n
      BY <1>4, <1>5, <2>1
    <2>2. CASE k # n
      <3>1. k \in 1..len
        BY <1>1, <1>3, <1>5, <2>2
      <3>2. QED
        BY <1>1, <1>5, <3>1 DEF UpdateIInv, Counted
    <2>3. QED
      BY <2>1, <2>2
  <1>7. Held'
    <2>1. buffer' = buffer
      BY DEF U!listenerVars
    <2>2. \A k \in 1..len : k \in 1..Len(issued') /\ issued'[k] = issued[k]
      BY <1>1, <1>3, <1>5
    <2>3. QED
      BY <1>1, <2>1, <2>2 DEF UpdateIInv, Held
  <1>8. Passed'
    <2>1. UNCHANGED <<sub, view, through, buffer, sent>>
      BY DEF U!listenerVars
    <2>2. Passed
      BY DEF UpdateIInv
    <2>3. CASE sub # "ready"
      <3>1. sub \in {"viewed", "ready"} => view.at <= len + 1
        <4>1. view.at \in Nat
          BY DEF UpdateIInv, UpdateTypes, U!TypeOK
        <4>2. QED
          BY <1>1, <2>2, <4>1 DEF Passed
      <3>2. QED
        BY <1>3, <1>5, <2>1, <2>2, <2>3, <3>1 DEF Passed
    <2>4. CASE sub = "ready"
      <3>1. PICK a \in Nat : a = view.at
        BY DEF UpdateIInv, UpdateTypes, U!TypeOK
      <3>2. PICK q \in Nat : q = Len(sent)
        BY DEF UpdateIInv, UpdateTypes, U!TypeOK
      <3>3. through = a + q /\ through <= len
        BY <1>1, <2>2, <2>4, <3>1, <3>2 DEF Passed
      <3>4. \A i \in 1..q : sent[i] = issued'[a + i]
        <4> TAKE i \in 1..q
        <4>1. a + i \in 1..len
          BY <3>3
        <4>2. sent[i] = issued[a + i]
          BY <2>2, <2>4, <3>1, <3>2 DEF Passed
        <4>3. QED
          BY <1>5, <4>1, <4>2
      <3>5. a <= len + 1 /\ through <= len + 1
        BY <3>3
      <3>6. view.seq = a /\ \A k \in DOMAIN buffer : k > through + 1
        BY <2>2, <2>4, <3>1 DEF Passed
      <3>7. QED
        BY <1>3, <1>5, <2>1, <2>4, <3>1, <3>2, <3>3, <3>4, <3>5, <3>6 DEF Passed
    <2>5. QED
      BY <2>3, <2>4
  <1>9. issued' \in Seq([seq : Nat, by : U!Publishers])
    BY <1>5 DEF Entries
  <1>10. issued'[n].by = p
    BY <1>4, <1>5
  <1>11. QED
    BY <1>1, <1>5, <1>6, <1>7, <1>8, <1>9, <1>10

(* What a publisher numbers, it holds.                                     *)
LEMMA OutboxGrows ==
  ASSUME UpdateIInv, NEW p \in U!Publishers, NEW n, n = Len(issued) + 1, Len(issued') = n,
         \A k \in 1..Len(issued) : issued'[k] = issued[k], issued'[n].by = p,
         outbox' = [outbox EXCEPT ![p] = Append(@, n)]
  PROVE  /\ outbox' \in [U!Publishers -> Seq(Nat)]
         /\ \A q \in U!Publishers : \A i \in 1..Len(outbox'[q]) :
              outbox'[q][i] \in 1..Len(issued') /\ issued'[outbox'[q][i]].by = q
         /\ outbox'[p] # <<>> /\ \A q \in U!Publishers : q # p => outbox'[q] = outbox[q]
         /\ n \in ToSet(outbox'[p]) /\ ToSet(outbox[p]) \subseteq ToSet(outbox'[p])
         /\ outbox[p] # <<>> => Head(outbox'[p]) = Head(outbox[p])
  <1>1. PICK len \in Nat : len = Len(issued)
    BY DEF UpdateIInv, UpdateTypes, U!TypeOK
  <1>2. outbox \in [U!Publishers -> Seq(Nat)]
    BY DEF UpdateIInv, UpdateTypes, U!TypeOK
  <1>3. n \in Nat
    BY <1>1
  <1> DEFINE s == outbox[p]
  <1>4. s \in Seq(Nat) /\ outbox'[p] = Append(s, n)
    BY <1>2
  <1>5. outbox' \in [U!Publishers -> Seq(Nat)] /\ \A q \in U!Publishers : q # p => outbox'[q] = outbox[q]
    BY <1>2, <1>3
  <1> HIDE DEF s
  <1>6. PICK d \in Nat : d = Len(s)
    BY <1>4
  <1>7. /\ Len(outbox'[p]) = d + 1 /\ outbox'[p][d + 1] = n
        /\ \A i \in 1..d : outbox'[p][i] = s[i]
    BY ONLY <1>3, <1>4, <1>6, AppendProperties
  <1>8. \A q \in U!Publishers : \A i \in 1..Len(outbox[q]) :
          /\ outbox[q][i] \in 1..len /\ outbox[q][i] \in 1..Len(issued')
          /\ issued'[outbox[q][i]].by = q
    <2>1. 1..len \subseteq 1..Len(issued')
      BY <1>1
    <2>2. QED
      BY <1>1, <2>1 DEF UpdateIInv, Queued
  <1>9. \A q \in U!Publishers : \A i \in 1..Len(outbox'[q]) :
          outbox'[q][i] \in 1..Len(issued') /\ issued'[outbox'[q][i]].by = q
    <2> TAKE q \in U!Publishers
    <2> TAKE i \in 1..Len(outbox'[q])
    <2>1. CASE q # p
      BY <1>5, <1>8, <2>1
    <2>2. CASE q = p /\ i = d + 1
      BY <1>1, <1>7, <2>2
    <2>3. CASE q = p /\ i # d + 1
      <3>1. i \in 1..d
        BY <1>7, <2>3
      <3>2. outbox'[q][i] = outbox[q][i] /\ i \in 1..Len(outbox[q])
        BY <1>6, <1>7, <2>3, <3>1 DEF s
      <3>3. QED
        BY <1>8, <3>2
    <2>4. QED
      BY <2>1, <2>2, <2>3
  <1>10. outbox'[p] # <<>>
    BY ONLY <1>3, <1>4, AppendProperties
  <1>11. n \in ToSet(outbox'[p]) /\ \A k \in ToSet(s) : k \in ToSet(outbox'[p])
    <2>1. DOMAIN s = 1..d /\ DOMAIN outbox'[p] = 1..(d + 1)
      BY <1>3, <1>4, <1>6, <1>7
    <2>2. d + 1 \in 1..(d + 1) /\ \A i \in 1..d : i \in 1..(d + 1)
      OBVIOUS
    <2>3. n \in ToSet(outbox'[p])
      <3>1. PICK e : e = d + 1
        OBVIOUS
      <3>2. e \in DOMAIN outbox'[p] /\ outbox'[p][e] = n
        BY <1>7, <2>1, <2>2, <3>1
      <3>3. QED
        BY ONLY <3>2 DEF ToSet
    <2>4. \A k \in ToSet(s) : k \in ToSet(outbox'[p])
      <3> SUFFICES ASSUME NEW i \in 1..d
                   PROVE  s[i] \in ToSet(outbox'[p])
        BY <2>1 DEF ToSet
      <3>1. outbox'[p][i] = s[i] /\ i \in DOMAIN outbox'[p]
        BY <1>7, <2>1, <2>2
      <3>2. QED
        BY ONLY <3>1 DEF ToSet
    <2>5. QED
      BY <2>3, <2>4
  <1>12. s # <<>> => Head(outbox'[p]) = Head(s)
    BY <1>3, <1>4
  <1>13. QED
    BY <1>5, <1>9, <1>10, <1>11, <1>12 DEF s

-----------------------------------------------------------------------------
(* Runs *)

(* What no step of a run changes of the subscriber.                        *)
LEMMA NothingNew ==
  ASSUME UpdateIInv, UNCHANGED <<issued, sub, view, U!listenerVars>>
  PROVE  Held' /\ Passed' /\ IsFiniteSet(DOMAIN buffer')
  BY DEF UpdateIInv, UpdateTypes, Held, Passed, U!listenerVars

LEMMA BeginKeeps ==
  ASSUME Distinct, UpdateIInv, NEW r \in Runs, U!Begin(r)
  PROVE  UpdateIInv'
  <1>1. Held' /\ Passed' /\ IsFiniteSet(DOMAIN buffer')
    BY NothingNew DEF U!Begin
  <1>2. U!TypeOK'
    BY DEF UpdateIInv, UpdateTypes, U!TypeOK, U!Begin, U!FirstSeq, U!publishVars,
       U!listenerVars
  <1>3. phase \in [Runs -> {"new", "working", "ending", "freeing", "free"}] /\ seq \in [Runs -> Nat]
    BY DEF UpdateIInv, UpdateTypes, U!TypeOK
  <1>4. /\ live = NoRun /\ live' = r /\ phase' = [phase EXCEPT ![r] = "working"]
        /\ seq' = [seq EXCEPT ![r] = clock] /\ UNCHANGED <<issued, saved>>
    BY DEF U!Begin, U!FirstSeq
  <1>5. \A q \in Runs : phase[q] \notin {"working", "ending", "freeing"}
    BY <1>4 DEF UpdateIInv, Occupied, Distinct
  <1>6. Occupied'
    BY <1>3, <1>4, <1>5 DEF Occupied
  <1>7. Counted'
    BY <1>3, <1>4, <1>5 DEF UpdateIInv, Counted, Distinct
  <1>8. Queued'
    BY DEF UpdateIInv, Queued, U!Begin, U!publishVars
  <1>9. QED
    BY <1>1, <1>2, <1>6, <1>7, <1>8 DEF UpdateIInv, UpdateTypes

LEMMA StampKeeps ==
  ASSUME Distinct, UpdateIInv, NEW r \in Runs, U!Stamp(r)
  PROVE  UpdateIInv'
  <1>1. /\ phase[r] = "working" /\ copied[r] = "no" /\ seq' = [seq EXCEPT ![r] = seq[r] + 1]
        /\ issued' = Append(issued, U!Update(seq[r] + 1, r))
        /\ outbox' = [outbox EXCEPT ![r] = Append(@, seq[r] + 1)]
        /\ UNCHANGED <<live, clock, saved, stage, copied, sub, view, U!listenerVars>>
    BY DEF U!Stamp, U!Number
  <1>2. PICK last \in {"working", "ending"} : phase' = [phase EXCEPT ![r] = last]
    BY DEF U!Stamp
  <1>3. phase \in [Runs -> {"new", "working", "ending", "freeing", "free"}] /\ seq \in [Runs -> Nat]
    BY DEF UpdateIInv, UpdateTypes, U!TypeOK
  <1>4. live = r
    BY <1>1 DEF UpdateIInv, Occupied
  <1>5. seq[r] = Len(issued) /\ r \in U!Publishers
    BY <1>4 DEF UpdateIInv, Counted, U!Publishers
  <1>6. PICK n : n = Len(issued) + 1
    OBVIOUS
  <1>7. issued' = Append(issued, U!Update(n, r)) /\ outbox' = [outbox EXCEPT ![r] = Append(@, n)]
    BY <1>1, <1>5, <1>6
  <1>8. /\ issued' \in Seq([seq : Nat, by : U!Publishers]) /\ Len(issued') = n
        /\ \A k \in 1..Len(issued) : issued'[k] = issued[k]
        /\ issued'[n].by = r
        /\ \A k \in 1..Len(issued') : issued'[k].seq = k
        /\ Held' /\ Passed'
    BY <1>1, <1>5, <1>6, <1>7, IssuedGrows
  <1>9. /\ outbox' \in [U!Publishers -> Seq(Nat)]
        /\ \A q \in U!Publishers : \A i \in 1..Len(outbox'[q]) :
             outbox'[q][i] \in 1..Len(issued') /\ issued'[outbox'[q][i]].by = q
        /\ outbox'[r] # <<>> /\ \A q \in U!Publishers : q # r => outbox'[q] = outbox[q]
    BY ONLY UpdateIInv, <1>5, <1>6, <1>7, <1>8, OutboxGrows
  <1>10. UpdateTypes'
    <2>1. Len(issued) \in Nat
      BY DEF UpdateIInv, UpdateTypes, U!TypeOK
    <2>2. seq' \in [Runs -> Nat] /\ phase' \in [Runs -> {"new", "working", "ending", "freeing", "free"}]
      BY <1>1, <1>2, <1>3, <1>5, <2>1
    <2>3. UNCHANGED <<live, clock, saved, stage, copied, sub, view, through, buffer, sent>>
      BY <1>1 DEF U!listenerVars
    <2>4. QED
      BY <1>8, <1>9, <2>2, <2>3 DEF UpdateIInv, UpdateTypes, U!TypeOK
  <1>11. Occupied'
    BY <1>1, <1>2, <1>3, <1>4 DEF UpdateIInv, Occupied
  <1>12. Counted'
    <2>1. \A q \in Runs : phase'[q] # "freeing"
      BY <1>2, <1>3, <1>4 DEF UpdateIInv, Occupied
    <2>2. live' = r /\ seq'[r] = n /\ r # NoRun
      BY <1>1, <1>3, <1>4, <1>5, <1>6 DEF Distinct
    <2>3. QED
      BY <1>8, <2>1, <2>2 DEF Counted
  <1>13. Queued'
    <2>1. r \notin Reverts /\ \A v \in Reverts : v \in U!Publishers
      BY DEF Distinct, U!Publishers
    <2>2. \A v \in Reverts : stage'[v] # "done" => outbox'[v] = <<>> /\ copied'[v] = "no"
      BY <1>1, <1>9, <2>1 DEF UpdateIInv, Queued
    <2>3. \A q \in U!Publishers : copied'[q] # "no" => outbox'[q] # <<>>
      BY <1>1, <1>9 DEF UpdateIInv, Queued
    <2>4. QED
      BY <1>9, <2>2, <2>3 DEF Queued
  <1>14. QED
    BY <1>8, <1>10, <1>11, <1>12, <1>13 DEF UpdateIInv

LEMMA StampLostKeeps ==
  ASSUME Distinct, UpdateIInv, NEW r \in Runs, U!StampLost(r)
  PROVE  UpdateIInv'
  <1>1. /\ phase[r] = "working" /\ seq' = [seq EXCEPT ![r] = seq[r] + 1]
        /\ issued' = Append(issued, U!Update(seq[r] + 1, r))
        /\ UNCHANGED <<live, clock, phase, saved, stage, outbox, copied, sub, view, U!listenerVars>>
    BY DEF U!StampLost, U!Number, U!publishVars
  <1>2. seq \in [Runs -> Nat]
    BY DEF UpdateIInv, UpdateTypes, U!TypeOK
  <1>3. live = r
    BY <1>1 DEF UpdateIInv, Occupied
  <1>4. seq[r] = Len(issued) /\ r \in U!Publishers
    BY <1>3 DEF UpdateIInv, Counted, U!Publishers
  <1>5. PICK n : n = Len(issued) + 1
    OBVIOUS
  <1>6. issued' = Append(issued, U!Update(n, r))
    BY <1>1, <1>4, <1>5
  <1>7. /\ issued' \in Seq([seq : Nat, by : U!Publishers]) /\ Len(issued') = n
        /\ \A k \in 1..Len(issued) : issued'[k] = issued[k]
        /\ \A k \in 1..Len(issued') : issued'[k].seq = k
        /\ Held' /\ Passed'
    BY <1>1, <1>4, <1>5, <1>6, IssuedGrows
  <1>8. UpdateTypes'
    <2>1. Len(issued) \in Nat
      BY DEF UpdateIInv, UpdateTypes, U!TypeOK
    <2>2. seq' \in [Runs -> Nat]
      BY <1>1, <1>2, <1>4, <2>1
    <2>3. UNCHANGED <<live, clock, phase, saved, stage, outbox, copied, sub, view, through, buffer, sent>>
      BY <1>1 DEF U!listenerVars
    <2>4. QED
      BY <1>7, <2>2, <2>3 DEF UpdateIInv, UpdateTypes, U!TypeOK
  <1>9. Occupied'
    BY <1>1 DEF UpdateIInv, Occupied
  <1>10. Counted'
    <2>1. \A q \in Runs : phase'[q] # "freeing"
      BY <1>1, <1>3 DEF UpdateIInv, Occupied
    <2>2. live' = r /\ seq'[r] = n /\ r # NoRun
      BY <1>1, <1>2, <1>3, <1>4, <1>5 DEF Distinct
    <2>3. QED
      BY <1>7, <2>1, <2>2 DEF Counted
  <1>11. Queued'
    <2>1. PICK len \in Nat : len = Len(issued)
      BY DEF UpdateIInv, UpdateTypes, U!TypeOK
    <2>2. \A k \in 1..len : k \in 1..Len(issued') /\ issued'[k] = issued[k]
      BY <1>5, <1>7, <2>1
    <2>3. \A q \in U!Publishers : \A i \in 1..Len(outbox'[q]) :
             outbox'[q][i] \in 1..Len(issued') /\ issued'[outbox'[q][i]].by = q
      BY <1>1, <2>1, <2>2 DEF UpdateIInv, Queued
    <2>4. QED
      BY <1>1, <2>3 DEF UpdateIInv, Queued
  <1>12. QED
    BY <1>7, <1>8, <1>9, <1>10, <1>11 DEF UpdateIInv

LEMMA ReleaseReadKeeps ==
  ASSUME Distinct, UpdateIInv, NEW r \in Runs, U!ReleaseRead(r)
  PROVE  UpdateIInv'
  <1>1. /\ phase[r] \in {"working", "ending"} /\ saved' = [saved EXCEPT ![r] = seq[r]]
        /\ phase' = [phase EXCEPT ![r] = "freeing"]
        /\ UNCHANGED <<live, clock, seq, stage, outbox, copied, issued, sub, view, U!listenerVars>>
    BY DEF U!ReleaseRead, U!publishVars
  <1>2. Held' /\ Passed' /\ IsFiniteSet(DOMAIN buffer')
    BY <1>1, NothingNew
  <1>3. U!TypeOK'
    BY <1>1 DEF UpdateIInv, UpdateTypes, U!TypeOK, U!listenerVars
  <1>4. /\ phase \in [Runs -> {"new", "working", "ending", "freeing", "free"}]
        /\ saved \in [Runs -> Nat]
    BY DEF UpdateIInv, UpdateTypes, U!TypeOK
  <1>5. live = r /\ seq[r] = Len(issued)
    BY <1>1 DEF UpdateIInv, Occupied, Counted
  <1>6. Occupied'
    BY <1>1, <1>4, <1>5 DEF UpdateIInv, Occupied
  <1>7. Counted'
    <2>1. \A q \in Runs : phase'[q] = "freeing" => q = r
      BY <1>1, <1>4, <1>5 DEF UpdateIInv, Occupied
    <2>2. saved'[r] = Len(issued)
      BY <1>1, <1>4, <1>5
    <2>3. QED
      BY <1>1, <2>1, <2>2 DEF UpdateIInv, Counted
  <1>8. Queued'
    BY <1>1 DEF UpdateIInv, Queued
  <1>9. QED
    BY <1>2, <1>3, <1>6, <1>7, <1>8 DEF UpdateIInv, UpdateTypes

LEMMA ReleaseWriteKeeps ==
  ASSUME Distinct, UpdateIInv, NEW r \in Runs, U!ReleaseWrite(r)
  PROVE  UpdateIInv'
  <1>1. /\ phase[r] = "freeing" /\ live' = NoRun /\ clock' = saved[r]
        /\ phase' = [phase EXCEPT ![r] = "free"]
        /\ UNCHANGED <<seq, saved, stage, outbox, copied, issued, sub, view, U!listenerVars>>
    BY DEF U!ReleaseWrite, U!KeptClock, U!publishVars
  <1>2. Held' /\ Passed' /\ IsFiniteSet(DOMAIN buffer')
    BY <1>1, NothingNew
  <1>3. U!TypeOK'
    BY <1>1 DEF UpdateIInv, UpdateTypes, U!TypeOK, U!listenerVars
  <1>4. phase \in [Runs -> {"new", "working", "ending", "freeing", "free"}]
    BY DEF UpdateIInv, UpdateTypes, U!TypeOK
  <1>5. live = r /\ saved[r] = Len(issued)
    BY <1>1 DEF UpdateIInv, Occupied, Counted
  <1>6. \A q \in Runs : phase'[q] \notin {"working", "ending", "freeing"} /\ q # NoRun
    BY <1>1, <1>4, <1>5 DEF UpdateIInv, Occupied, Distinct
  <1>7. Occupied'
    BY <1>1, <1>6 DEF Occupied
  <1>8. Counted'
    BY <1>1, <1>5, <1>6 DEF UpdateIInv, Counted
  <1>9. Queued'
    BY <1>1 DEF UpdateIInv, Queued
  <1>10. QED
    BY <1>2, <1>3, <1>7, <1>8, <1>9 DEF UpdateIInv, UpdateTypes

-----------------------------------------------------------------------------
(* Reverts *)

(* A revert that only looks or stores touches no number.                   *)
LEMMA RevertLooks ==
  ASSUME UpdateIInv, NEW v \in Reverts, U!RevertCheck(v) \/ U!RevertStore(v)
  PROVE  UpdateIInv'
  <1>1. PICK w \in {"checked", "refused", "stored"} :
          stage[v] \in {"idle", "checked"} /\ stage' = [stage EXCEPT ![v] = w]
    <2>1. CASE U!RevertCheck(v)
      BY <2>1 DEF U!RevertCheck
    <2>2. CASE U!RevertStore(v)
      BY <2>2 DEF U!RevertStore
    <2>3. QED
      BY <2>1, <2>2
  <1>2. /\ UNCHANGED <<live, clock, seq, phase, saved, outbox, copied, issued>>
        /\ UNCHANGED <<sub, view, U!listenerVars>>
    BY DEF U!RevertCheck, U!RevertStore, U!runnerVars, U!publishVars
  <1>3. Held' /\ Passed' /\ IsFiniteSet(DOMAIN buffer')
    BY <1>2, NothingNew
  <1>4. stage \in [Reverts -> {"idle", "checked", "refused", "stored", "done"}]
    BY DEF UpdateIInv, UpdateTypes, U!TypeOK
  <1>5. stage' \in [Reverts -> {"idle", "checked", "refused", "stored", "done"}]
    BY <1>1, <1>4
  <1>6. U!TypeOK'
    BY <1>2, <1>5 DEF UpdateIInv, UpdateTypes, U!TypeOK, U!listenerVars
  <1>7. Occupied' /\ Counted'
    BY <1>2 DEF UpdateIInv, Occupied, Counted
  <1>8. \A u \in Reverts : stage'[u] # "done" => stage[u] # "done"
    BY <1>1, <1>4
  <1>9. Queued'
    BY <1>2, <1>8 DEF UpdateIInv, Queued
  <1>10. QED
    BY <1>3, <1>6, <1>7, <1>9 DEF UpdateIInv, UpdateTypes

LEMMA RevertStampKeeps ==
  ASSUME Distinct, UpdateIInv, Calm, NEW v \in Reverts, U!RevertStamp(v)
  PROVE  UpdateIInv'
  <1>1. PICK n :
          /\ n = IF live = NoRun THEN clock + 1 ELSE seq[live] + 1
          /\ IF live = NoRun THEN clock' = n /\ UNCHANGED seq
             ELSE seq' = [seq EXCEPT ![live] = n] /\ UNCHANGED clock
          /\ issued' = Append(issued, U!Update(n, v))
          /\ outbox' = [outbox EXCEPT ![v] = <<n>>]
          /\ stage[v] = "stored" /\ stage' = [stage EXCEPT ![v] = "done"]
          /\ UNCHANGED <<live, phase, saved, copied, sub, view, U!listenerVars>>
    BY DEF U!RevertStamp
  <1>2. /\ live \in Runs \cup {NoRun} /\ seq \in [Runs -> Nat]
        /\ stage \in [Reverts -> {"idle", "checked", "refused", "stored", "done"}]
        /\ outbox \in [U!Publishers -> Seq(Nat)]
    BY DEF UpdateIInv, UpdateTypes, U!TypeOK
  <1>3. PICK len \in Nat : len = Len(issued)
    BY DEF UpdateIInv, UpdateTypes, U!TypeOK
  <1>4. n = Len(issued) + 1 /\ n \in Nat /\ v \in U!Publishers
    <2>1. live = NoRun => clock = len
      BY <1>3 DEF UpdateIInv, Counted
    <2>2. live # NoRun => seq[live] = len
      BY <1>2, <1>3 DEF UpdateIInv, Counted
    <2>3. QED
      BY <1>1, <1>3, <2>1, <2>2 DEF U!Publishers
  <1>5. /\ issued' \in Seq([seq : Nat, by : U!Publishers]) /\ Len(issued') = n
        /\ \A k \in 1..Len(issued) : issued'[k] = issued[k]
        /\ issued'[n].by = v
        /\ \A k \in 1..Len(issued') : issued'[k].seq = k
        /\ Held' /\ Passed'
    BY <1>1, <1>4, IssuedGrows
  <1>6. outbox' = [outbox EXCEPT ![v] = Append(@, n)]
    <2>1. outbox[v] = <<>>
      BY <1>1 DEF UpdateIInv, Queued
    <2>2. Append(<<>>, n) = <<n>>
      OBVIOUS
    <2>3. QED
      BY <1>1, <2>1, <2>2
  <1>7. /\ outbox' \in [U!Publishers -> Seq(Nat)]
        /\ \A q \in U!Publishers : \A i \in 1..Len(outbox'[q]) :
             outbox'[q][i] \in 1..Len(issued') /\ issued'[outbox'[q][i]].by = q
        /\ outbox'[v] # <<>> /\ \A q \in U!Publishers : q # v => outbox'[q] = outbox[q]
    BY ONLY UpdateIInv, <1>4, <1>5, <1>6, OutboxGrows
  <1>8. \A r \in Runs : phase[r] # "freeing"
    <2>1. issued' # issued
      BY <1>3, <1>4, <1>5
    <2>2. QED
      BY <2>1 DEF Calm
  <1>9. UpdateTypes'
    <2>1. /\ seq' \in [Runs -> Nat]
          /\ stage' \in [Reverts -> {"idle", "checked", "refused", "stored", "done"}]
      BY <1>1, <1>2, <1>4
    <2>2. clock' \in Nat
      BY <1>1, <1>4 DEF UpdateIInv, UpdateTypes, U!TypeOK
    <2>3. UNCHANGED <<live, phase, saved, copied, sub, view, through, buffer, sent>>
      BY <1>1 DEF U!listenerVars
    <2>4. QED
      BY <1>5, <1>7, <2>1, <2>2, <2>3 DEF UpdateIInv, UpdateTypes, U!TypeOK
  <1>10. Occupied'
    BY <1>1 DEF UpdateIInv, Occupied
  <1>11. Counted'
    <2>1. live' = NoRun => clock' = n
      BY <1>1
    <2>2. \A r \in Runs : live' = r => seq'[r] = n
      BY <1>1, <1>2 DEF Distinct
    <2>3. \A r \in Runs : phase'[r] # "freeing"
      BY <1>1, <1>8
    <2>4. QED
      BY <1>5, <2>1, <2>2, <2>3 DEF Counted
  <1>12. Queued'
    <2>1. \A u \in Reverts : stage'[u] # "done" => outbox'[u] = <<>> /\ copied'[u] = "no"
      <3> SUFFICES ASSUME NEW u \in Reverts, stage'[u] # "done"
                   PROVE  outbox'[u] = <<>> /\ copied'[u] = "no"
        OBVIOUS
      <3>1. u # v /\ stage[u] # "done"
        BY <1>1, <1>2
      <3>2. QED
        BY <1>1, <1>7, <3>1 DEF UpdateIInv, Queued, U!Publishers
    <2>2. \A q \in U!Publishers : copied'[q] # "no" => outbox'[q] # <<>>
      BY <1>1, <1>7 DEF UpdateIInv, Queued
    <2>3. QED
      BY <1>7, <2>1, <2>2 DEF Queued
  <1>13. QED
    BY <1>5, <1>9, <1>10, <1>11, <1>12 DEF UpdateIInv

-----------------------------------------------------------------------------
(* Publishing, and the subscription *)

LEMMA PublishCopyKeeps ==
  ASSUME UpdateIInv, NEW p \in U!Publishers, U!PublishCopy(p)
  PROVE  UpdateIInv'
  <1>1. PICK c \in {"with", "without"} :
          /\ outbox[p] # <<>> /\ copied' = [copied EXCEPT ![p] = c]
          /\ UNCHANGED <<live, clock, seq, phase, saved, stage, outbox, issued>>
          /\ UNCHANGED <<sub, view, U!listenerVars>>
    BY DEF U!PublishCopy, U!runnerVars
  <1>2. Held' /\ Passed' /\ IsFiniteSet(DOMAIN buffer')
    BY <1>1, NothingNew
  <1>3. copied \in [U!Publishers -> {"no", "with", "without"}]
    BY DEF UpdateIInv, UpdateTypes, U!TypeOK
  <1>4. copied' \in [U!Publishers -> {"no", "with", "without"}]
    BY <1>1, <1>3
  <1>5. U!TypeOK'
    BY <1>1, <1>4 DEF UpdateIInv, UpdateTypes, U!TypeOK, U!listenerVars
  <1>6. Occupied' /\ Counted'
    BY <1>1 DEF UpdateIInv, Occupied, Counted
  <1>7. Queued'
    BY <1>1, <1>3 DEF UpdateIInv, Queued
  <1>8. QED
    BY <1>2, <1>5, <1>6, <1>7 DEF UpdateIInv, UpdateTypes

(* The number that is handed over was issued by whom it says.              *)
LEMMA HeadIsIssued ==
  ASSUME UpdateIInv, NEW p \in U!Publishers, U!PublishCall(p)
  PROVE  /\ Head(outbox[p]) \in 1..Len(issued) /\ p = issued[Head(outbox[p])].by
         /\ outbox' \in [U!Publishers -> Seq(Nat)]
         /\ Len(outbox[p]) \in Nat /\ Len(outbox'[p]) = Len(outbox[p]) - 1
         /\ Head(outbox[p]) = outbox[p][1]
         /\ \A i \in 1..Len(outbox'[p]) : outbox'[p][i] = outbox[p][i + 1]
         /\ \A q \in U!Publishers : q # p => outbox'[q] = outbox[q]
         /\ copied' = [copied EXCEPT ![p] = "no"]
  <1>1. /\ copied[p] # "no" /\ copied' = [copied EXCEPT ![p] = "no"]
        /\ outbox' = [outbox EXCEPT ![p] = Tail(@)]
    BY DEF U!PublishCall
  <1>2. outbox[p] # <<>> /\ outbox \in [U!Publishers -> Seq(Nat)]
    BY <1>1 DEF UpdateIInv, UpdateTypes, U!TypeOK, Queued
  <1> DEFINE s == outbox[p]
  <1>3. s \in Seq(Nat) /\ s # <<>> /\ outbox'[p] = Tail(s)
    BY <1>1, <1>2
  <1>4. /\ Head(s) = s[1] /\ Len(s) \in Nat /\ 1 \in 1..Len(s)
        /\ Tail(s) \in Seq(Nat) /\ Len(Tail(s)) = Len(s) - 1
        /\ \A i \in 1..Len(Tail(s)) : Tail(s)[i] = s[i + 1]
    <2> HIDE DEF s
    <2>1. QED
      BY <1>3
  <1>5. s[1] \in 1..Len(issued) /\ issued[s[1]].by = p
    BY <1>4 DEF UpdateIInv, Queued
  <1>6. outbox' \in [U!Publishers -> Seq(Nat)] /\ \A q \in U!Publishers : q # p => outbox'[q] = outbox[q]
    BY <1>1, <1>2, <1>4
  <1>7. QED
    BY <1>1, <1>3, <1>4, <1>5, <1>6

LEMMA PublishCallKeeps ==
  ASSUME UpdateIInv, NEW p \in U!Publishers, U!PublishCall(p)
  PROVE  UpdateIInv'
  <1>1. UNCHANGED <<live, clock, seq, phase, saved, stage, issued, view>>
    BY DEF U!PublishCall, U!runnerVars
  <1>2. /\ Head(outbox[p]) \in 1..Len(issued) /\ p = issued[Head(outbox[p])].by
        /\ outbox' \in [U!Publishers -> Seq(Nat)]
        /\ Len(outbox[p]) \in Nat /\ Len(outbox'[p]) = Len(outbox[p]) - 1
        /\ \A i \in 1..Len(outbox'[p]) : outbox'[p][i] = outbox[p][i + 1]
        /\ \A q \in U!Publishers : q # p => outbox'[q] = outbox[q]
        /\ copied' = [copied EXCEPT ![p] = "no"]
    BY HeadIsIssued
  <1>3. /\ Held' /\ Passed' /\ IsFiniteSet(DOMAIN buffer')
        /\ \A k \in DOMAIN buffer' : buffer'[k] \in U!Publishers
        /\ through' \in Nat /\ sent' \in Seq([seq : Nat, by : U!Publishers])
        /\ sub' \in {"none", "listening", "viewed", "ready", "gone"}
    <2>1. sub \in {"none", "listening", "viewed", "ready", "gone"}
      BY DEF UpdateIInv, UpdateTypes, U!TypeOK
    <2>2. CASE copied[p] = "with"
      <3>1. U!Receive(Head(outbox[p]), p)
        BY <2>2 DEF U!PublishCall
      <3>2. /\ Held' /\ Passed' /\ IsFiniteSet(DOMAIN buffer')
            /\ \A k \in DOMAIN buffer' : buffer'[k] \in U!Publishers
            /\ through' \in Nat /\ sent' \in Seq([seq : Nat, by : U!Publishers])
            /\ sub' \in {sub, "gone"}
        BY <1>1, <1>2, <3>1, ReceiveIs
      <3>3. QED
        BY <2>1, <3>2
    <2>3. CASE copied[p] # "with"
      <3>1. UNCHANGED <<sub, U!listenerVars>>
        BY <2>3 DEF U!PublishCall
      <3>2. Held' /\ Passed' /\ IsFiniteSet(DOMAIN buffer')
        BY <1>1, <3>1, NothingNew
      <3>3. UNCHANGED <<sub, through, buffer, sent>>
        BY <3>1 DEF U!listenerVars
      <3>4. QED
        BY <2>1, <3>2, <3>3 DEF UpdateIInv, UpdateTypes, U!TypeOK
    <2>4. QED
      BY <2>2, <2>3
  <1>4. copied \in [U!Publishers -> {"no", "with", "without"}]
    BY DEF UpdateIInv, UpdateTypes, U!TypeOK
  <1>5. U!TypeOK'
    <2>1. copied' \in [U!Publishers -> {"no", "with", "without"}]
      BY <1>2, <1>4
    <2>2. DOMAIN buffer' \subseteq Nat
      BY <1>3 DEF Held
    <2>3. QED
      BY <1>1, <1>2, <1>3, <2>1, <2>2 DEF UpdateIInv, UpdateTypes, U!TypeOK
  <1>6. Occupied' /\ Counted'
    BY <1>1 DEF UpdateIInv, Occupied, Counted
  <1>7. Queued'
    <2>1. \A q \in U!Publishers : \A i \in 1..Len(outbox'[q]) :
            outbox'[q][i] \in 1..Len(issued') /\ issued'[outbox'[q][i]].by = q
      <3> TAKE q \in U!Publishers
      <3> TAKE i \in 1..Len(outbox'[q])
      <3>1. CASE q # p
        BY <1>1, <1>2, <3>1 DEF UpdateIInv, Queued
      <3>2. CASE q = p
        <4>1. i + 1 \in 1..Len(outbox[p]) /\ outbox'[p][i] = outbox[p][i + 1]
          BY <1>2, <3>2
        <4>2. QED
          BY <1>1, <3>2, <4>1 DEF UpdateIInv, Queued
      <3>3. QED
        BY <3>1, <3>2
    <2>2. \A q \in U!Publishers : copied'[q] # "no" => outbox'[q] # <<>>
      BY <1>2, <1>4 DEF UpdateIInv, Queued
    <2>3. \A v \in Reverts : stage'[v] # "done" => outbox'[v] = <<>> /\ copied'[v] = "no"
      <3> SUFFICES ASSUME NEW v \in Reverts, stage[v] # "done"
                   PROVE  outbox'[v] = <<>> /\ copied'[v] = "no"
        BY <1>1
      <3>1. v # p /\ v \in U!Publishers
        BY DEF UpdateIInv, Queued, U!PublishCall, U!Publishers
      <3>2. QED
        BY <1>2, <1>4, <3>1 DEF UpdateIInv, Queued
    <2>4. QED
      BY <2>1, <2>2, <2>3 DEF Queued
  <1>8. QED
    BY <1>3, <1>5, <1>6, <1>7 DEF UpdateIInv, UpdateTypes

LEMMA ListenKeeps ==
  ASSUME UpdateIInv, U!Listen
  PROVE  UpdateIInv'
  <1>1. /\ sub = "none" /\ sub' = "listening"
        /\ UNCHANGED <<live, clock, seq, phase, saved, stage, outbox, copied, issued>>
        /\ UNCHANGED <<view, through, buffer, sent>>
    BY DEF U!Listen, U!runnerVars, U!publishVars, U!listenerVars
  <1>2. UpdateTypes'
    BY <1>1 DEF UpdateIInv, UpdateTypes, U!TypeOK
  <1>3. Occupied' /\ Counted' /\ Queued'
    BY <1>1 DEF UpdateIInv, Occupied, Counted, Queued
  <1>4. Held' /\ Passed'
    BY <1>1 DEF UpdateIInv, Held, Passed
  <1>5. QED
    BY <1>2, <1>3, <1>4 DEF UpdateIInv

LEMMA ViewKeeps ==
  ASSUME UpdateIInv, U!View
  PROVE  UpdateIInv'
  <1>1. /\ sub = "listening" /\ sub' = "viewed" /\ view' = [seq |-> U!Boundary, at |-> Len(issued)]
        /\ UNCHANGED <<live, clock, seq, phase, saved, stage, outbox, copied, issued>>
        /\ UNCHANGED <<through, buffer, sent>>
    BY DEF U!View, U!runnerVars, U!publishVars, U!listenerVars
  <1>2. U!Boundary = Len(issued)
    BY DEF UpdateIInv, UpdateTypes, U!TypeOK, Counted, U!Boundary
  <1>3. Len(issued) \in Nat
    BY DEF UpdateIInv, UpdateTypes, U!TypeOK
  <1>4. view' \in [seq : Nat, at : Nat] /\ view'.seq = view'.at /\ view'.at = Len(issued)
    BY <1>1, <1>2, <1>3
  <1>5. UpdateTypes'
    BY <1>1, <1>4 DEF UpdateIInv, UpdateTypes, U!TypeOK
  <1>6. Occupied' /\ Counted' /\ Queued'
    BY <1>1 DEF UpdateIInv, Occupied, Counted, Queued
  <1>7. Held' /\ Passed'
    BY <1>1, <1>3, <1>4 DEF UpdateIInv, Held, Passed
  <1>8. QED
    BY <1>5, <1>6, <1>7 DEF UpdateIInv

LEMMA StartListenerKeeps ==
  ASSUME UpdateIInv, U!StartListener
  PROVE  /\ UpdateIInv' /\ through' >= view.at
         /\ \A k \in DOMAIN buffer : k <= through' \/ k \in DOMAIN buffer'
  <1>1. /\ sub = "viewed" /\ sub' = "ready"
        /\ UNCHANGED <<live, clock, seq, phase, saved, stage, outbox, copied, issued, view>>
    BY DEF U!StartListener, U!runnerVars, U!publishVars
  <1> DEFINE buf == [k \in {k \in DOMAIN buffer : k > view.seq} |-> buffer[k]]
  <1>2. U!Flush(buf, view.seq)
    BY DEF U!StartListener
  <1>3. /\ DOMAIN buf \subseteq DOMAIN buffer /\ \A k \in DOMAIN buf : buf[k] = buffer[k]
        /\ \A k \in DOMAIN buffer : k > view.seq => k \in DOMAIN buf
    OBVIOUS
  <1> HIDE DEF buf
  <1>4. PICK n \in Nat : n = view.seq /\ n = view.at /\ n <= Len(issued) /\ sent = <<>> /\ through = 0
    <2>1. view.seq \in Nat
      BY DEF UpdateIInv, UpdateTypes, U!TypeOK
    <2>2. QED
      BY <1>1, <2>1 DEF UpdateIInv, Passed
  <1>5. IsFiniteSet(DOMAIN buf)
    BY <1>3, FS_Subset DEF UpdateIInv, UpdateTypes
  <1>6. \A k \in DOMAIN buf : k \in 1..Len(issued) /\ buf[k] = issued[k].by
    BY <1>3 DEF UpdateIInv, Held
  <1>7. n = view.at + Len(sent) /\ \A i \in 1..Len(sent) : sent[i] = issued[view.at + i]
    BY <1>4
  <1>8. /\ through' \in Nat /\ n <= through' /\ through' <= Len(issued)
        /\ through' = view.at + Len(sent')
        /\ \A i \in 1..Len(sent') : sent'[i] = issued[view.at + i]
        /\ sent' \in Seq([seq : Nat, by : U!Publishers])
        /\ \A k \in DOMAIN buffer' : k \in DOMAIN buf /\ k > through' + 1 /\ buffer'[k] = buf[k]
        /\ \A k \in DOMAIN buf : k \in DOMAIN buffer' \/ k <= through'
    <2>1. U!TypeOK /\ Counted
      BY DEF UpdateIInv, UpdateTypes
    <2>2. U!Flush(buf, n) /\ n <= Len(issued) /\ n \in Nat
      BY <1>2, <1>4
    <2>3. QED
      BY ONLY <1>5, <1>6, <1>7, <2>1, <2>2, FlushPasses
  <1>9. UpdateTypes'
    <2>1. DOMAIN buffer' \subseteq DOMAIN buf
      BY <1>8
    <2>2. IsFiniteSet(DOMAIN buffer')
      BY <1>5, <2>1, FS_Subset
    <2>3. DOMAIN buffer' \subseteq Nat /\ \A k \in DOMAIN buffer' : buffer'[k] \in U!Publishers
      BY <1>3, <1>8, <2>1 DEF UpdateIInv, UpdateTypes, U!TypeOK
    <2>4. QED
      BY <1>1, <1>8, <2>2, <2>3 DEF UpdateIInv, UpdateTypes, U!TypeOK
  <1>10. Occupied' /\ Counted' /\ Queued'
    BY <1>1 DEF UpdateIInv, Occupied, Counted, Queued
  <1>11. Held'
    BY <1>1, <1>6, <1>8 DEF Held
  <1>12. Passed'
    BY <1>1, <1>4, <1>8 DEF Passed
  <1>13. \A k \in DOMAIN buffer : k <= through' \/ k \in DOMAIN buffer'
    <2> SUFFICES ASSUME NEW k \in DOMAIN buffer, k \notin DOMAIN buffer'
                 PROVE  k <= through'
      OBVIOUS
    <2>1. k \in Nat
      BY DEF UpdateIInv, UpdateTypes, U!TypeOK
    <2>2. CASE k > n
      BY <1>3, <1>4, <1>8, <2>2
    <2>3. CASE ~(k > n)
      BY <1>8, <2>1, <2>3
    <2>4. QED
      BY <2>2, <2>3
  <1>14. QED
    BY <1>4, <1>8, <1>9, <1>10, <1>11, <1>12, <1>13 DEF UpdateIInv

LEMMA LeaveKeeps ==
  ASSUME UpdateIInv, U!Leave
  PROVE  UpdateIInv'
  <1>1. /\ sub' = "gone"
        /\ UNCHANGED <<live, clock, seq, phase, saved, stage, outbox, copied, issued>>
        /\ UNCHANGED <<view, through, buffer, sent>>
    BY DEF U!Leave, U!runnerVars, U!publishVars, U!listenerVars
  <1>2. UpdateTypes'
    BY <1>1 DEF UpdateIInv, UpdateTypes, U!TypeOK
  <1>3. Occupied' /\ Counted' /\ Queued'
    BY <1>1 DEF UpdateIInv, Occupied, Counted, Queued
  <1>4. Held' /\ Passed'
    BY <1>1 DEF UpdateIInv, Held, Passed
  <1>5. QED
    BY <1>2, <1>3, <1>4 DEF UpdateIInv

-----------------------------------------------------------------------------
(* All steps *)

LEMMA UpdateInitIInv == ASSUME Distinct, U!Init PROVE UpdateIInv
  <1>1. UpdateTypes
    <2>1. DOMAIN buffer = {}
      BY DEF U!Init
    <2>2. IsFiniteSet(DOMAIN buffer) /\ DOMAIN buffer \subseteq Nat
      BY <2>1, FS_EmptySet
    <2>3. QED
      BY <2>1, <2>2 DEF U!Init, UpdateTypes, U!TypeOK
  <1>2. Occupied /\ Counted /\ Queued
    BY DEF U!Init, Occupied, Counted, Queued, Distinct, U!Publishers
  <1>3. Held /\ Passed
    BY DEF U!Init, Held, Passed
  <1>4. QED
    BY <1>1, <1>2, <1>3 DEF UpdateIInv

LEMMA UpdateStepIInv ==
  ASSUME Distinct, UpdateIInv, [U!Next]_(U!vars), Calm
  PROVE  UpdateIInv'
  <1>1. ASSUME NEW r \in Runs, U!Begin(r) \/ U!Stamp(r) \/ U!StampLost(r) \/ U!ReleaseRead(r) \/ U!ReleaseWrite(r)
        PROVE  UpdateIInv'
    BY <1>1, BeginKeeps, StampKeeps, StampLostKeeps, ReleaseReadKeeps, ReleaseWriteKeeps
  <1>2. ASSUME NEW v \in Reverts, U!RevertCheck(v) \/ U!RevertStore(v) \/ U!RevertStamp(v)
        PROVE  UpdateIInv'
    BY <1>2, RevertLooks, RevertStampKeeps
  <1>3. ASSUME NEW p \in U!Publishers, U!PublisherStep(p)
        PROVE  UpdateIInv'
    BY <1>3, PublishCopyKeeps, PublishCallKeeps DEF U!PublisherStep
  <1>4. ASSUME U!Listen \/ U!View \/ U!StartListener \/ U!Leave
        PROVE  UpdateIInv'
    BY <1>4, ListenKeeps, ViewKeeps, StartListenerKeeps, LeaveKeeps
  <1>5. CASE UNCHANGED U!vars
    <2>1. /\ UNCHANGED <<live, clock, seq, phase, saved, stage, outbox, copied, issued>>
          /\ UNCHANGED <<sub, view, through, buffer, sent>>
      BY <1>5 DEF U!vars, U!runnerVars, U!publishVars, U!listenerVars
    <2>2. UpdateTypes'
      BY <2>1 DEF UpdateIInv, UpdateTypes, U!TypeOK
    <2>3. Occupied' /\ Counted' /\ Queued'
      BY <2>1 DEF UpdateIInv, Occupied, Counted, Queued
    <2>4. Held' /\ Passed'
      BY <2>1 DEF UpdateIInv, Held, Passed
    <2>5. QED
      BY <2>2, <2>3, <2>4 DEF UpdateIInv
  <1>6. QED
    BY <1>1, <1>2, <1>3, <1>4, <1>5 DEF U!Next

-----------------------------------------------------------------------------
(* Nothing is lost *)

(* A number that was on its way still is, unless the step hands it over.   *)
LEMMA StillComing ==
  ASSUME NEW n, Coming(n), UNCHANGED <<buffer, outbox>>
  PROVE  Coming(n)'
  BY DEF Coming

(* A run or a revert that numbers an update holds it.                      *)
LEMMA IssuingOwes ==
  ASSUME UpdateIInv, UpdateOwed, NEW p \in U!Publishers, NEW n, n = Len(issued) + 1, Len(issued') = n,
         \A k \in 1..Len(issued) : issued'[k] = issued[k], issued'[n].by = p,
         outbox' = [outbox EXCEPT ![p] = Append(@, n)],
         UNCHANGED <<copied, sub, view, through, buffer>>
  PROVE  UpdateOwed'
  <1>1. PICK len \in Nat : len = Len(issued)
    BY DEF UpdateIInv, UpdateTypes, U!TypeOK
  <1>2. /\ \A q \in U!Publishers : q # p => outbox'[q] = outbox[q]
        /\ n \in ToSet(outbox'[p]) /\ ToSet(outbox[p]) \subseteq ToSet(outbox'[p])
        /\ outbox[p] # <<>> => Head(outbox'[p]) = Head(outbox[p])
    BY ONLY UpdateIInv, p \in U!Publishers, n = Len(issued) + 1, Len(issued') = n,
            \A k \in 1..Len(issued) : issued'[k] = issued[k], issued'[n].by = p,
            outbox' = [outbox EXCEPT ![p] = Append(@, n)], OutboxGrows
  <1>3. \A k : Coming(k) => Coming(k)'
    BY <1>2 DEF Coming
  <1>4. Coming(n)'
    BY <1>2 DEF Coming
  <1>5. view.at \in Nat /\ through \in Nat
    BY DEF UpdateIInv, UpdateTypes, U!TypeOK
  <1>6. sub = "viewed" => \A k \in (view.at + 1)..n : Coming(k)'
    <2> SUFFICES ASSUME sub = "viewed", NEW k \in (view.at + 1)..n
                 PROVE  Coming(k)'
      OBVIOUS
    <2>1. k = n \/ k \in (view.at + 1)..len
      BY <1>1, <1>5
    <2>2. QED
      BY <1>1, <1>3, <1>4, <2>1 DEF UpdateOwed
  <1>7. sub = "ready" => \A k \in (through + 1)..n : Coming(k)'
    <2> SUFFICES ASSUME sub = "ready", NEW k \in (through + 1)..n
                 PROVE  Coming(k)'
      OBVIOUS
    <2>1. k = n \/ k \in (through + 1)..len
      BY <1>1, <1>5
    <2>2. QED
      BY <1>1, <1>3, <1>4, <2>1 DEF UpdateOwed
  <1>8. sub \in {"viewed", "ready"} =>
          \A q \in U!Publishers : copied[q] = "without" => Head(outbox'[q]) <= view.at
    <2> SUFFICES ASSUME sub \in {"viewed", "ready"}, NEW q \in U!Publishers, copied[q] = "without"
                 PROVE  Head(outbox'[q]) <= view.at
      OBVIOUS
    <2>1. Head(outbox[q]) <= view.at
      BY DEF UpdateOwed
    <2>2. outbox[q] # <<>>
      BY DEF UpdateIInv, Queued
    <2>3. QED
      BY <1>2, <2>1, <2>2
  <1>9. QED
    BY <1>6, <1>7, <1>8 DEF UpdateOwed

LEMMA StampOwes ==
  ASSUME UpdateIInv, UpdateOwed, NEW r \in Runs, U!Stamp(r)
  PROVE  UpdateOwed'
  <1>1. /\ phase[r] = "working" /\ issued' = Append(issued, U!Update(seq[r] + 1, r))
        /\ outbox' = [outbox EXCEPT ![r] = Append(@, seq[r] + 1)]
        /\ UNCHANGED <<copied, sub, view, through, buffer, sent>>
    BY DEF U!Stamp, U!Number, U!listenerVars
  <1>2. seq[r] = Len(issued) /\ r \in U!Publishers
    BY <1>1 DEF UpdateIInv, Occupied, Counted, U!Publishers
  <1>3. PICK n : n = Len(issued) + 1
    OBVIOUS
  <1>4. issued' = Append(issued, U!Update(n, r)) /\ outbox' = [outbox EXCEPT ![r] = Append(@, n)]
    BY <1>1, <1>2, <1>3
  <1>5. /\ Len(issued') = n /\ \A k \in 1..Len(issued) : issued'[k] = issued[k]
        /\ issued'[n].by = r
    <2>1. UNCHANGED <<sub, view, U!listenerVars>>
      BY <1>1 DEF U!listenerVars
    <2>2. QED
      BY <1>2, <1>3, <1>4, <2>1, IssuedGrows
  <1>6. UNCHANGED <<copied, sub, view, through, buffer>>
    BY <1>1
  <1>7. QED
    BY ONLY UpdateIInv, UpdateOwed, <1>2, <1>3, <1>4, <1>5, <1>6, IssuingOwes

LEMMA RevertStampOwes ==
  ASSUME Distinct, UpdateIInv, UpdateOwed, NEW v \in Reverts, U!RevertStamp(v)
  PROVE  UpdateOwed'
  <1>1. PICK n :
          /\ n = IF live = NoRun THEN clock + 1 ELSE seq[live] + 1
          /\ issued' = Append(issued, U!Update(n, v)) /\ stage[v] = "stored"
          /\ outbox' = [outbox EXCEPT ![v] = <<n>>]
          /\ UNCHANGED <<copied, sub, view, through, buffer, sent>>
    BY DEF U!RevertStamp, U!listenerVars
  <1>2. live \in Runs \cup {NoRun} /\ v \in U!Publishers
    BY DEF UpdateIInv, UpdateTypes, U!TypeOK, U!Publishers
  <1>3. PICK len \in Nat : len = Len(issued)
    BY DEF UpdateIInv, UpdateTypes, U!TypeOK
  <1>4. n = Len(issued) + 1
    <2>1. live = NoRun => clock = len
      BY <1>3 DEF UpdateIInv, Counted
    <2>2. live # NoRun => seq[live] = len
      BY <1>2, <1>3 DEF UpdateIInv, Counted
    <2>3. QED
      BY <1>1, <1>3, <2>1, <2>2
  <1>5. outbox' = [outbox EXCEPT ![v] = Append(@, n)]
    <2>1. outbox[v] = <<>>
      BY <1>1 DEF UpdateIInv, Queued
    <2>2. Append(<<>>, n) = <<n>>
      OBVIOUS
    <2>3. QED
      BY <1>1, <2>1, <2>2
  <1>6. /\ Len(issued') = n /\ \A k \in 1..Len(issued) : issued'[k] = issued[k]
        /\ issued'[n].by = v
    <2>1. UNCHANGED <<sub, view, U!listenerVars>>
      BY <1>1 DEF U!listenerVars
    <2>2. QED
      BY <1>1, <1>2, <1>4, <2>1, IssuedGrows
  <1>7. UNCHANGED <<copied, sub, view, through, buffer>>
    BY <1>1
  <1>8. QED
    BY ONLY UpdateIInv, UpdateOwed, <1>2, <1>4, <1>5, <1>6, <1>7, IssuingOwes

LEMMA PublishCopyOwes ==
  ASSUME UpdateIInv, UpdateOwed, NEW p \in U!Publishers, U!PublishCopy(p)
  PROVE  UpdateOwed'
  <1>1. /\ copied' = [copied EXCEPT ![p] = IF U!Listening THEN "with" ELSE "without"]
        /\ UNCHANGED <<outbox, issued, sub, view, through, buffer>>
    BY DEF U!PublishCopy, U!listenerVars
  <1>2. copied \in [U!Publishers -> {"no", "with", "without"}]
    BY DEF UpdateIInv, UpdateTypes, U!TypeOK
  <1>3. \A n : Coming(n) => Coming(n)'
    BY <1>1, StillComing
  <1>4. sub \in {"viewed", "ready"} =>
          \A q \in U!Publishers : copied'[q] = "without" => copied[q] = "without"
    BY <1>1, <1>2 DEF U!Listening
  <1>5. QED
    BY <1>1, <1>3, <1>4 DEF UpdateOwed

(* What is handed over waits at the subscriber, is passed on, or was in    *)
(* its snapshot.                                                           *)
LEMMA PublishCallOwes ==
  ASSUME UpdateIInv, UpdateOwed, NEW p \in U!Publishers, U!PublishCall(p)
  PROVE  UpdateOwed'
  <1>1. UNCHANGED <<issued, view>>
    BY DEF U!PublishCall
  <1>2. /\ Head(outbox[p]) \in 1..Len(issued) /\ p = issued[Head(outbox[p])].by
        /\ outbox' \in [U!Publishers -> Seq(Nat)]
        /\ Len(outbox[p]) \in Nat /\ Len(outbox'[p]) = Len(outbox[p]) - 1
        /\ Head(outbox[p]) = outbox[p][1]
        /\ \A i \in 1..Len(outbox'[p]) : outbox'[p][i] = outbox[p][i + 1]
        /\ \A q \in U!Publishers : q # p => outbox'[q] = outbox[q]
        /\ copied' = [copied EXCEPT ![p] = "no"]
    BY HeadIsIssued
  <1>3. /\ copied \in [U!Publishers -> {"no", "with", "without"}]
        /\ outbox \in [U!Publishers -> Seq(Nat)]
        /\ view.at \in Nat /\ through \in Nat /\ Len(issued) \in Nat
    BY DEF UpdateIInv, UpdateTypes, U!TypeOK
  <1>4. PICK m : m = Head(outbox[p])
    OBVIOUS
  <1>5. \A k \in ToSet(outbox[p]) : k = m \/ k \in ToSet(outbox'[p])
    <2>1. DOMAIN outbox[p] = 1..Len(outbox[p]) /\ DOMAIN outbox'[p] = 1..Len(outbox'[p])
      BY <1>2, <1>3
    <2>2. \A i \in 1..Len(outbox[p]) : i = 1 \/ i - 1 \in 1..Len(outbox'[p])
      BY <1>2
    <2>3. \A i \in 1..Len(outbox[p]) : outbox[p][i] = m \/ outbox[p][i] = outbox'[p][i - 1]
      <3> TAKE i \in 1..Len(outbox[p])
      <3>1. CASE i = 1
        BY <1>2, <1>4, <3>1
      <3>2. CASE i # 1
        <4>1. i - 1 \in 1..Len(outbox'[p]) /\ (i - 1) + 1 = i
          BY <1>2, <2>2, <3>2
        <4>2. QED
          BY <1>2, <4>1
      <3>3. QED
        BY <3>1, <3>2
    <2>4. SUFFICES ASSUME NEW i \in 1..Len(outbox[p])
                   PROVE  outbox[p][i] = m \/ outbox[p][i] \in ToSet(outbox'[p])
      BY <2>1 DEF ToSet
    <2>5. outbox[p][i] = m \/ (i - 1 \in 1..Len(outbox'[p]) /\ outbox[p][i] = outbox'[p][i - 1])
      BY <1>2, <1>4, <2>2, <2>3
    <2>6. QED
      BY <2>1, <2>5 DEF ToSet
  <1>6. \A k : Coming(k) => k = m \/ k \in DOMAIN buffer
                            \/ \E q \in U!Publishers : k \in ToSet(outbox'[q])
    BY <1>2, <1>5 DEF Coming
  <1>7. m \in Nat
    BY <1>2, <1>4
  <1>8. sub' \in {"viewed", "ready"} =>
          \A q \in U!Publishers : copied'[q] = "without" => Head(outbox'[q]) <= view'.at
    <2> SUFFICES ASSUME sub' \in {"viewed", "ready"}, NEW q \in U!Publishers, copied'[q] = "without"
                 PROVE  Head(outbox'[q]) <= view.at
      BY <1>1
    <2>1. q # p /\ copied[q] = "without"
      BY <1>2, <1>3
    <2>2. sub \in {"viewed", "ready"}
      BY DEF U!PublishCall, U!Receive
    <2>3. QED
      BY <1>2, <2>1, <2>2 DEF UpdateOwed
  <1>9. CASE copied[p] = "with"
    <2>1. U!Receive(m, p) /\ m \in 1..Len(issued) /\ p = issued[m].by
      BY <1>2, <1>4, <1>9 DEF U!PublishCall
    <2>2. /\ through' \in Nat /\ sub' \in {sub, "gone"}
          /\ sub' # "gone" => /\ m \in DOMAIN buffer' \/ m <= through'
                              /\ \A k \in DOMAIN buffer : k \in DOMAIN buffer' \/ k <= through'
                              /\ through <= through'
      BY <1>1, <2>1, ReceiveIs
    <2>3. ASSUME sub' \in {"viewed", "ready"}
          PROVE  \A k : Coming(k) => k <= through' \/ Coming(k)'
      BY <1>6, <2>2, <2>3 DEF Coming
    <2>4. ASSUME sub' = "viewed", NEW k \in (view'.at + 1)..Len(issued')
          PROVE  Coming(k)'
      <3>1. sub = "viewed" /\ Coming(k)
        BY <1>1, <2>2, <2>4 DEF UpdateOwed
      <3>2. through' = 0
        BY <2>1, <3>1, <2>4 DEF U!Receive, U!listenerVars, UpdateIInv, Passed
      <3>3. k <= through' \/ Coming(k)'
        BY <2>3, <2>4, <3>1
      <3>4. k > 0
        BY <1>1, <1>3
      <3>5. QED
        BY <3>2, <3>3, <3>4
    <2>5. ASSUME sub' = "ready", NEW k \in (through' + 1)..Len(issued')
          PROVE  Coming(k)'
      <3>1. sub = "ready" /\ through <= through'
        BY <2>2, <2>5
      <3>2. k \in (through + 1)..Len(issued) /\ ~(k <= through')
        <4>1. PICK lo \in Nat, hi \in Nat, len \in Nat :
                lo = through /\ hi = through' /\ len = Len(issued) /\ len = Len(issued')
          BY <1>1, <1>3, <2>2
        <4>2. k \in (hi + 1)..len /\ lo <= hi
          BY <2>5, <3>1, <4>1
        <4>3. k \in (lo + 1)..len /\ ~(k <= hi)
          BY <4>2
        <4>4. QED
          BY <4>1, <4>3
      <3>3. k <= through' \/ Coming(k)'
        BY <2>3, <2>5, <3>1, <3>2 DEF UpdateOwed
      <3>4. QED
        BY <3>2, <3>3
    <2>6. QED
      BY <1>8, <2>4, <2>5 DEF UpdateOwed
  <1>10. CASE copied[p] # "with"
    <2>1. UNCHANGED <<sub, through, buffer, sent>>
      BY <1>10 DEF U!PublishCall, U!listenerVars
    <2>2. copied[p] = "without"
      BY <1>3, <1>10 DEF U!PublishCall
    <2>3. sub \in {"viewed", "ready"} => m <= view.at
      BY <1>4, <2>2 DEF UpdateOwed
    <2>4. \A k : Coming(k) => k = m \/ Coming(k)'
      BY <1>6, <2>1 DEF Coming
    <2>5. sub = "ready" => view.at <= through
      <3>1. Len(sent) \in Nat
        BY DEF UpdateIInv, UpdateTypes, U!TypeOK
      <3>2. QED
        BY <1>3, <3>1 DEF UpdateIInv, Passed
    <2>6. ASSUME sub = "viewed", NEW k \in (view.at + 1)..Len(issued)
          PROVE  Coming(k)'
      <3>1. k # m
        BY <1>3, <1>7, <2>3, <2>6
      <3>2. QED
        BY <2>4, <2>6, <3>1 DEF UpdateOwed
    <2>7. ASSUME sub = "ready", NEW k \in (through + 1)..Len(issued)
          PROVE  Coming(k)'
      <3>1. k # m
        BY <1>3, <1>7, <2>3, <2>5, <2>7
      <3>2. QED
        BY <2>4, <2>7, <3>1 DEF UpdateOwed
    <2>8. QED
      BY <1>1, <1>8, <2>1, <2>6, <2>7 DEF UpdateOwed
  <1>11. QED
    BY <1>9, <1>10

LEMMA ViewOwes ==
  ASSUME UpdateIInv, U!View
  PROVE  UpdateOwed'
  <1>1. /\ sub' = "viewed" /\ view' = [seq |-> U!Boundary, at |-> Len(issued)]
        /\ UNCHANGED <<outbox, copied, issued>>
    BY DEF U!View, U!publishVars
  <1>2. PICK len \in Nat : len = Len(issued)
    BY DEF UpdateIInv, UpdateTypes, U!TypeOK
  <1>3. view'.at = len /\ Len(issued') = len
    BY <1>1, <1>2
  <1>4. \A p \in U!Publishers : copied[p] = "without" => Head(outbox[p]) <= len
    <2> SUFFICES ASSUME NEW p \in U!Publishers, copied[p] = "without"
                 PROVE  Head(outbox[p]) <= len
      OBVIOUS
    <2>1. outbox[p] # <<>> /\ outbox[p] \in Seq(Nat)
      BY DEF UpdateIInv, UpdateTypes, U!TypeOK, Queued
    <2>2. Head(outbox[p]) = outbox[p][1] /\ 1 \in 1..Len(outbox[p])
      BY <2>1
    <2>3. outbox[p][1] \in 1..len
      BY <1>2, <2>2 DEF UpdateIInv, Queued
    <2>4. QED
      BY <2>2, <2>3
  <1>5. (len + 1)..len = {}
    BY <1>2
  <1>6. QED
    BY <1>1, <1>3, <1>4, <1>5 DEF UpdateOwed

LEMMA StartListenerOwes ==
  ASSUME UpdateIInv, UpdateOwed, U!StartListener
  PROVE  UpdateOwed'
  <1>1. /\ sub = "viewed" /\ sub' = "ready" /\ UNCHANGED <<outbox, copied, issued, view>>
    BY DEF U!StartListener, U!publishVars
  <1>2. /\ through' >= view.at /\ UpdateIInv'
        /\ \A k \in DOMAIN buffer : k <= through' \/ k \in DOMAIN buffer'
    BY StartListenerKeeps
  <1>3. view.at \in Nat /\ through' \in Nat /\ Len(issued) \in Nat
    <2>1. through' \in Nat
      BY <1>2 DEF UpdateIInv, UpdateTypes, U!TypeOK
    <2>2. QED
      BY <2>1 DEF UpdateIInv, UpdateTypes, U!TypeOK
  <1>4. \A k : Coming(k) => k <= through' \/ Coming(k)'
    BY <1>1, <1>2 DEF Coming
  <1>5. ASSUME NEW k \in (through' + 1)..Len(issued)
        PROVE  Coming(k)'
    <2>1. PICK a \in Nat, hi \in Nat, len \in Nat :
            a = view.at /\ hi = through' /\ len = Len(issued)
      BY <1>3
    <2>2. k \in (hi + 1)..len /\ a <= hi
      BY <1>2, <1>5, <2>1
    <2>3. k \in (a + 1)..len /\ ~(k <= hi)
      BY <2>2
    <2>4. QED
      BY <1>1, <1>4, <2>1, <2>3 DEF UpdateOwed
  <1>6. QED
    BY <1>1, <1>5 DEF UpdateOwed

LEMMA InitOwes == U!Init => UpdateOwed
  BY DEF U!Init, UpdateOwed

LEMMA StepOwes ==
  ASSUME Distinct, ~DiskFaults, UpdateIInv, UpdateOwed, [U!Next]_(U!vars)
  PROVE  UpdateOwed'
  <1>1. ASSUME UNCHANGED <<outbox, copied, issued>>, UNCHANGED <<sub, view, through, buffer>>
        PROVE  UpdateOwed'
    BY <1>1, StillComing DEF UpdateOwed
  <1>2. ASSUME NEW r \in Runs, U!Begin(r) \/ U!ReleaseRead(r) \/ U!ReleaseWrite(r)
        PROVE  UpdateOwed'
    BY <1>1, <1>2 DEF U!Begin, U!ReleaseRead, U!ReleaseWrite, U!publishVars, U!listenerVars
  <1>3. ASSUME NEW r \in Runs, U!Stamp(r) \/ U!StampLost(r)
        PROVE  UpdateOwed'
    BY <1>3, StampOwes DEF U!StampLost
  <1>4. ASSUME NEW v \in Reverts, U!RevertCheck(v) \/ U!RevertStore(v)
        PROVE  UpdateOwed'
    BY <1>1, <1>4 DEF U!RevertCheck, U!RevertStore, U!publishVars, U!listenerVars
  <1>5. ASSUME NEW v \in Reverts, U!RevertStamp(v)
        PROVE  UpdateOwed'
    BY <1>5, RevertStampOwes
  <1>6. ASSUME NEW p \in U!Publishers, U!PublisherStep(p)
        PROVE  UpdateOwed'
    BY <1>6, PublishCopyOwes, PublishCallOwes DEF U!PublisherStep
  <1>7. ASSUME U!Listen \/ U!Leave
        PROVE  UpdateOwed'
    BY <1>7 DEF U!Listen, U!Leave, UpdateOwed
  <1>8. CASE U!View \/ U!StartListener
    BY <1>8, ViewOwes, StartListenerOwes
  <1>9. CASE UNCHANGED U!vars
    BY <1>1, <1>9 DEF U!vars, U!publishVars, U!listenerVars
  <1>10. QED
    BY <1>2, <1>3, <1>4, <1>5, <1>6, <1>7, <1>8, <1>9 DEF U!Next

-----------------------------------------------------------------------------
(* The types alone *)

(* Whatever is numbered when, a goroutine that calls the listeners has     *)
(* something to tell them.                                                 *)
UpdateTyped == UpdateTypes /\ \A p \in U!Publishers : copied[p] # "no" => outbox[p] # <<>>

LEMMA IssuedTyped ==
  ASSUME UpdateTypes, NEW p \in U!Publishers, NEW n \in Nat, issued' = Append(issued, U!Update(n, p))
  PROVE  issued' \in Seq([seq : Nat, by : U!Publishers])
  <1> DEFINE Entries == [seq : Nat, by : U!Publishers]
  <1>1. U!Update(n, p) \in Entries /\ issued \in Seq(Entries)
    BY DEF UpdateTypes, U!TypeOK, U!Update
  <1> HIDE DEF Entries
  <1>2. issued' \in Seq(Entries)
    BY <1>1
  <1>3. QED
    BY <1>2 DEF Entries

LEMMA FlushTyped ==
  ASSUME UpdateTypes, NEW buf, IsFiniteSet(DOMAIN buf), NEW n \in Nat, U!Flush(buf, n),
         DOMAIN buf \subseteq Nat, \A k \in DOMAIN buf : buf[k] \in U!Publishers
  PROVE  /\ through' \in Nat /\ sent' \in Seq([seq : Nat, by : U!Publishers])
         /\ IsFiniteSet(DOMAIN buffer') /\ DOMAIN buffer' \subseteq Nat
         /\ \A k \in DOMAIN buffer' : buffer'[k] \in U!Publishers
  <1> DEFINE Entries == [seq : Nat, by : U!Publishers]
  <1>1. PICK m \in Nat :
           m = U!Reach(buf, n) /\ n <= m /\ \A k \in (n + 1)..m : k \in DOMAIN buf
    BY ReachIs
  <1> DEFINE t == [k \in 1..(U!Reach(buf, n) - n) |-> U!Update(n + k, buf[n + k])]
  <1>2. /\ through' = m
        /\ buffer' = [k \in {k \in DOMAIN buf : k > m} |-> buf[k]]
        /\ sent' = sent \o t
    BY <1>1 DEF U!Flush
  <1>3. t = [k \in 1..(m - n) |-> U!Update(n + k, buf[n + k])]
    BY <1>1
  <1> HIDE DEF t
  <1>4. PICK d \in Nat : d = m - n
    BY <1>1
  <1>5. \A k \in 1..d : t[k] \in Entries
    <2> TAKE k \in 1..d
    <2>1. n + k \in (n + 1)..m /\ n + k \in Nat
      BY <1>1, <1>4
    <2>2. buf[n + k] \in U!Publishers
      BY <1>1, <2>1
    <2>3. QED
      BY <1>3, <1>4, <2>1, <2>2 DEF U!Update
  <1>6. t \in [1..d -> Entries]
    BY <1>3, <1>4, <1>5
  <1>7. sent' \in Seq(Entries)
    <2>1. sent \in Seq(Entries)
      BY DEF UpdateTypes, U!TypeOK
    <2> HIDE DEF Entries
    <2>2. t \in Seq(Entries)
      BY <1>6
    <2>3. QED
      BY <1>2, <2>1, <2>2
  <1>8. DOMAIN buffer' \subseteq DOMAIN buf /\ \A k \in DOMAIN buffer' : buffer'[k] = buf[k]
    BY <1>2
  <1>9. IsFiniteSet(DOMAIN buffer')
    BY <1>8, FS_Subset
  <1>10. QED
    BY <1>2, <1>7, <1>8, <1>9

LEMMA ReceiveTyped ==
  ASSUME UpdateTypes, NEW p \in U!Publishers, NEW n \in Nat, U!Receive(n, p)
  PROVE  /\ through' \in Nat /\ sent' \in Seq([seq : Nat, by : U!Publishers])
         /\ IsFiniteSet(DOMAIN buffer') /\ DOMAIN buffer' \subseteq Nat
         /\ \A k \in DOMAIN buffer' : buffer'[k] \in U!Publishers
         /\ sub' \in {sub, "gone"}
  <1>1. /\ through \in Nat /\ sent \in Seq([seq : Nat, by : U!Publishers])
        /\ IsFiniteSet(DOMAIN buffer) /\ DOMAIN buffer \subseteq Nat
        /\ \A k \in DOMAIN buffer : buffer[k] \in U!Publishers
    BY DEF UpdateTypes, U!TypeOK
  <1>2. CASE sub = "gone" \/ n <= through
    BY <1>1, <1>2 DEF U!Receive, U!listenerVars
  <1>3. CASE ~(sub = "gone" \/ n <= through)
    <2> DEFINE buf == [k \in DOMAIN buffer \cup {n} |-> IF k = n THEN p ELSE buffer[k]]
    <2>1. /\ IF sub = "ready" THEN U!Flush(buf, through)
             ELSE buffer' = buf /\ UNCHANGED <<through, sent>>
          /\ sub' \in {sub, "gone"}
      BY <1>3 DEF U!Receive
    <2>2. /\ DOMAIN buf \subseteq Nat /\ IsFiniteSet(DOMAIN buf)
          /\ \A k \in DOMAIN buf : buf[k] \in U!Publishers
      <3>1. DOMAIN buf = DOMAIN buffer \cup {n}
        OBVIOUS
      <3>2. IsFiniteSet(DOMAIN buf)
        BY <1>1, <3>1, FS_AddElement
      <3>3. QED
        BY <1>1, <3>1, <3>2
    <2> HIDE DEF buf
    <2>3. CASE sub = "ready"
      BY <1>1, <2>1, <2>2, <2>3, FlushTyped
    <2>4. CASE sub # "ready"
      BY <1>1, <2>1, <2>2, <2>4
    <2>5. QED
      BY <2>3, <2>4
  <1>4. QED
    BY <1>2, <1>3

LEMMA RunStepTyped ==
  ASSUME UpdateTyped, NEW r \in Runs,
         U!Begin(r) \/ U!Stamp(r) \/ U!StampLost(r) \/ U!ReleaseRead(r) \/ U!ReleaseWrite(r)
  PROVE  UpdateTyped'
  <1> USE DEF UpdateTyped, UpdateTypes
  <1>1. /\ seq \in [Runs -> Nat] /\ saved \in [Runs -> Nat] /\ clock \in Nat
        /\ phase \in [Runs -> {"new", "working", "ending", "freeing", "free"}]
        /\ outbox \in [U!Publishers -> Seq(Nat)] /\ r \in U!Publishers
    BY DEF U!TypeOK, U!Publishers
  <1>2. ASSUME UNCHANGED <<stage, outbox, copied, issued, sub, view, U!listenerVars>>,
               live' \in Runs \cup {NoRun}, clock' \in Nat,
               seq' \in [Runs -> Nat], saved' \in [Runs -> Nat],
               phase' \in [Runs -> {"new", "working", "ending", "freeing", "free"}]
        PROVE  UpdateTyped'
    BY <1>2 DEF U!TypeOK, U!listenerVars
  <1>3. CASE U!Begin(r)
    BY <1>1, <1>2, <1>3 DEF U!Begin, U!FirstSeq, U!publishVars, U!TypeOK
  <1>4. CASE U!ReleaseRead(r)
    BY <1>1, <1>2, <1>4 DEF U!ReleaseRead, U!publishVars, U!TypeOK
  <1>5. CASE U!ReleaseWrite(r)
    BY <1>1, <1>2, <1>5 DEF U!ReleaseWrite, U!KeptClock, U!publishVars, U!TypeOK
  <1>6. CASE U!Stamp(r)
    <2>1. PICK n \in Nat : n = seq[r] + 1
      BY <1>1
    <2>2. /\ issued' = Append(issued, U!Update(n, r)) /\ seq' = [seq EXCEPT ![r] = n]
          /\ outbox' = [outbox EXCEPT ![r] = Append(@, n)]
          /\ UNCHANGED <<live, clock, saved, stage, copied, sub, view, through, buffer, sent>>
      BY <1>6, <2>1 DEF U!Stamp, U!Number, U!listenerVars
    <2>3. issued' \in Seq([seq : Nat, by : U!Publishers])
      BY <1>1, <2>2, IssuedTyped
    <2>4. phase' \in [Runs -> {"new", "working", "ending", "freeing", "free"}]
      BY <1>1, <1>6 DEF U!Stamp
    <2>5. /\ outbox' \in [U!Publishers -> Seq(Nat)] /\ seq' \in [Runs -> Nat]
          /\ \A p \in U!Publishers : outbox[p] # <<>> => outbox'[p] # <<>>
      BY <1>1, <2>2
    <2>6. QED
      BY <2>2, <2>3, <2>4, <2>5 DEF U!TypeOK
  <1>7. CASE U!StampLost(r)
    <2>1. PICK n \in Nat : n = seq[r] + 1
      BY <1>1
    <2>2. /\ issued' = Append(issued, U!Update(n, r)) /\ seq' = [seq EXCEPT ![r] = n]
          /\ UNCHANGED <<live, clock, phase, saved, stage, outbox, copied>>
          /\ UNCHANGED <<sub, view, through, buffer, sent>>
      BY <1>7, <2>1 DEF U!StampLost, U!Number, U!publishVars, U!listenerVars
    <2>3. issued' \in Seq([seq : Nat, by : U!Publishers])
      BY <1>1, <2>2, IssuedTyped
    <2>4. seq' \in [Runs -> Nat]
      BY <1>1, <2>2
    <2>5. QED
      BY <2>2, <2>3, <2>4 DEF U!TypeOK
  <1>8. QED
    BY <1>3, <1>4, <1>5, <1>6, <1>7

LEMMA RevertStepTyped ==
  ASSUME UpdateTyped, NEW v \in Reverts, U!RevertCheck(v) \/ U!RevertStore(v) \/ U!RevertStamp(v)
  PROVE  UpdateTyped'
  <1> USE DEF UpdateTyped, UpdateTypes
  <1>1. /\ seq \in [Runs -> Nat] /\ clock \in Nat /\ live \in Runs \cup {NoRun}
        /\ stage \in [Reverts -> {"idle", "checked", "refused", "stored", "done"}]
        /\ outbox \in [U!Publishers -> Seq(Nat)] /\ v \in U!Publishers
    BY DEF U!TypeOK, U!Publishers
  <1>2. CASE U!RevertCheck(v) \/ U!RevertStore(v)
    <2>1. stage' \in [Reverts -> {"idle", "checked", "refused", "stored", "done"}]
      BY <1>1, <1>2 DEF U!RevertCheck, U!RevertStore
    <2>2. /\ UNCHANGED <<live, clock, seq, phase, saved, outbox, copied, issued>>
          /\ UNCHANGED <<sub, view, through, buffer, sent>>
      BY <1>2 DEF U!RevertCheck, U!RevertStore, U!runnerVars, U!publishVars, U!listenerVars
    <2>3. QED
      BY <2>1, <2>2 DEF U!TypeOK
  <1>3. CASE U!RevertStamp(v)
    <2>1. PICK n : n = IF live = NoRun THEN clock + 1 ELSE seq[live] + 1
      OBVIOUS
    <2>2. n \in Nat
      BY <1>1, <2>1
    <2>3. /\ IF live = NoRun THEN clock' = n /\ UNCHANGED seq
             ELSE seq' = [seq EXCEPT ![live] = n] /\ UNCHANGED clock
          /\ issued' = Append(issued, U!Update(n, v))
          /\ outbox' = [outbox EXCEPT ![v] = <<n>>]
          /\ stage' = [stage EXCEPT ![v] = "done"]
          /\ UNCHANGED <<live, phase, saved, copied, sub, view, through, buffer, sent>>
      BY <1>3, <2>1 DEF U!RevertStamp, U!listenerVars
    <2>4. issued' \in Seq([seq : Nat, by : U!Publishers])
      BY <1>1, <2>2, <2>3, IssuedTyped
    <2>5. clock' \in Nat /\ seq' \in [Runs -> Nat]
      BY <1>1, <2>2, <2>3
    <2>6. stage' \in [Reverts -> {"idle", "checked", "refused", "stored", "done"}]
      BY <1>1, <2>3
    <2>7. /\ outbox' \in [U!Publishers -> Seq(Nat)]
          /\ \A p \in U!Publishers : outbox[p] # <<>> => outbox'[p] # <<>>
      <3>1. <<n>> \in Seq(Nat) /\ <<n>> # <<>>
        BY <2>2
      <3>2. QED
        BY <1>1, <2>3, <3>1
    <2>8. QED
      BY <2>3, <2>4, <2>5, <2>6, <2>7 DEF U!TypeOK
  <1>4. QED
    BY <1>2, <1>3

LEMMA PublisherStepTyped ==
  ASSUME UpdateTyped, NEW p \in U!Publishers, U!PublisherStep(p)
  PROVE  UpdateTyped'
  <1> USE DEF UpdateTyped, UpdateTypes
  <1>1. /\ copied \in [U!Publishers -> {"no", "with", "without"}]
        /\ outbox \in [U!Publishers -> Seq(Nat)]
        /\ sub \in {"none", "listening", "viewed", "ready", "gone"}
    BY DEF U!TypeOK
  <1>2. CASE U!PublishCopy(p)
    <2>1. /\ copied' \in [U!Publishers -> {"no", "with", "without"}]
          /\ \A q \in U!Publishers : copied'[q] # "no" => outbox[q] # <<>>
      BY <1>1, <1>2 DEF U!PublishCopy
    <2>2. /\ UNCHANGED <<live, clock, seq, phase, saved, stage, outbox, issued>>
          /\ UNCHANGED <<sub, view, through, buffer, sent>>
      BY <1>2 DEF U!PublishCopy, U!runnerVars, U!listenerVars
    <2>3. QED
      BY <2>1, <2>2 DEF U!TypeOK
  <1>3. CASE U!PublishCall(p)
    <2>1. /\ copied[p] # "no" /\ copied' = [copied EXCEPT ![p] = "no"]
          /\ outbox' = [outbox EXCEPT ![p] = Tail(@)]
          /\ UNCHANGED <<live, clock, seq, phase, saved, stage, issued, view>>
      BY <1>3 DEF U!PublishCall, U!runnerVars
    <2> DEFINE s == outbox[p]
    <2>2. s \in Seq(Nat) /\ s # <<>>
      BY <1>1, <2>1
    <2>3. Head(s) \in Nat /\ Tail(s) \in Seq(Nat)
      <3> HIDE DEF s
      <3>1. QED
        BY <2>2
    <2>4. /\ outbox' \in [U!Publishers -> Seq(Nat)]
          /\ copied' \in [U!Publishers -> {"no", "with", "without"}]
          /\ \A q \in U!Publishers : copied'[q] # "no" => outbox'[q] # <<>>
      BY <1>1, <2>1, <2>3
    <2>5. /\ through' \in Nat /\ sent' \in Seq([seq : Nat, by : U!Publishers])
          /\ IsFiniteSet(DOMAIN buffer') /\ DOMAIN buffer' \subseteq Nat
          /\ \A k \in DOMAIN buffer' : buffer'[k] \in U!Publishers
          /\ sub' \in {"none", "listening", "viewed", "ready", "gone"}
      <3>1. CASE copied[p] = "with"
        <4>1. U!Receive(Head(outbox[p]), p)
          BY <1>3, <3>1 DEF U!PublishCall
        <4>2. QED
          BY <1>1, <2>3, <4>1, ReceiveTyped
      <3>2. CASE copied[p] # "with"
        <4>1. UNCHANGED <<sub, through, buffer, sent>>
          BY <1>3, <3>2 DEF U!PublishCall, U!listenerVars
        <4>2. QED
          BY <1>1, <4>1 DEF U!TypeOK
      <3>3. QED
        BY <3>1, <3>2
    <2>6. QED
      BY <2>1, <2>4, <2>5 DEF U!TypeOK
  <1>4. QED
    BY <1>2, <1>3 DEF U!PublisherStep

LEMMA SubscriberStepTyped ==
  ASSUME UpdateTyped, U!Listen \/ U!View \/ U!StartListener \/ U!Leave
  PROVE  UpdateTyped'
  <1> USE DEF UpdateTyped, UpdateTypes
  <1>1. UNCHANGED <<live, clock, seq, phase, saved, stage, outbox, copied, issued>>
    BY DEF U!Listen, U!View, U!StartListener, U!Leave, U!runnerVars, U!publishVars
  <1>2. CASE U!Listen \/ U!Leave
    BY <1>1, <1>2 DEF U!Listen, U!Leave, U!listenerVars, U!TypeOK
  <1>3. CASE U!View
    <2>1. U!Boundary \in Nat /\ Len(issued) \in Nat
      BY DEF U!TypeOK, U!Boundary
    <2>2. view' \in [seq : Nat, at : Nat]
      BY <1>3, <2>1 DEF U!View
    <2>3. QED
      BY <1>1, <1>3, <2>2 DEF U!View, U!listenerVars, U!TypeOK
  <1>4. CASE U!StartListener
    <2> DEFINE buf == [k \in {k \in DOMAIN buffer : k > view.seq} |-> buffer[k]]
    <2>1. U!Flush(buf, view.seq) /\ sub' = "ready" /\ view' = view
      BY <1>4 DEF U!StartListener
    <2>2. DOMAIN buf \subseteq DOMAIN buffer /\ \A k \in DOMAIN buf : buf[k] = buffer[k]
      OBVIOUS
    <2> HIDE DEF buf
    <2>3. /\ IsFiniteSet(DOMAIN buf) /\ DOMAIN buf \subseteq Nat
          /\ \A k \in DOMAIN buf : buf[k] \in U!Publishers
      BY <2>2, FS_Subset DEF U!TypeOK
    <2>4. view.seq \in Nat
      BY DEF U!TypeOK
    <2>5. /\ through' \in Nat /\ sent' \in Seq([seq : Nat, by : U!Publishers])
          /\ IsFiniteSet(DOMAIN buffer') /\ DOMAIN buffer' \subseteq Nat
          /\ \A k \in DOMAIN buffer' : buffer'[k] \in U!Publishers
      BY <2>1, <2>3, <2>4, FlushTyped
    <2>6. QED
      BY <1>1, <2>1, <2>5 DEF U!TypeOK
  <1>5. QED
    BY <1>2, <1>3, <1>4

-----------------------------------------------------------------------------
(* Theorems *)

(* Numbers, outboxes, what waits and what was passed on always have their  *)
(* types; in particular only a publisher with something in hand calls the  *)
(* listeners.  (runner/emit.go, events/registry.go, harness_run.go)        *)
THEOREM TypeOKHolds == U!Spec => []U!TypeOK
  <1>1. U!Init => UpdateTyped
    <2> SUFFICES ASSUME U!Init PROVE UpdateTyped
      OBVIOUS
    <2>1. DOMAIN buffer = {}
      BY DEF U!Init
    <2>2. IsFiniteSet(DOMAIN buffer) /\ DOMAIN buffer \subseteq Nat
      BY <2>1, FS_EmptySet
    <2>3. QED
      BY <2>1, <2>2 DEF U!Init, UpdateTyped, UpdateTypes, U!TypeOK
  <1>2. UpdateTyped /\ [U!Next]_(U!vars) => UpdateTyped'
    <2> SUFFICES ASSUME UpdateTyped, [U!Next]_(U!vars) PROVE UpdateTyped'
      OBVIOUS
    <2>1. CASE UNCHANGED U!vars
      BY <2>1 DEF U!vars, U!runnerVars, U!publishVars, U!listenerVars, UpdateTyped,
         UpdateTypes, U!TypeOK
    <2>2. QED
      BY <2>1, RunStepTyped, RevertStepTyped, PublisherStepTyped, SubscriberStepTyped DEF
         U!Next
  <1>3. UpdateTyped => U!TypeOK
    BY DEF UpdateTyped, UpdateTypes
  <1>4. QED
    BY <1>1, <1>2, <1>3, PTL DEF U!Spec

(* Among the steps of a session only a revert can be numbered while a run  *)
(* is being released.                                                      *)
LEMMA CalmUnlessReverted ==
  ASSUME UpdateIInv, [U!Next]_(U!vars),
         \A v \in Reverts : U!RevertStamp(v) => \A r \in Runs : phase[r] # "freeing"
  PROVE  Calm
  <1> SUFFICES ASSUME NEW r \in Runs, phase[r] = "freeing"
               PROVE  issued' = issued
    BY DEF Calm
  <1>1. live = r
    BY DEF UpdateIInv, Occupied
  <1>2. ASSUME NEW q \in Runs, U!Stamp(q) \/ U!StampLost(q)
        PROVE  FALSE
    <2>1. phase[q] = "working"
      BY <1>2 DEF U!Stamp, U!StampLost
    <2>2. live = q
      BY <2>1 DEF UpdateIInv, Occupied
    <2>3. QED
      BY <1>1, <2>1, <2>2
  <1>3. ASSUME NEW q \in Runs, U!Begin(q) \/ U!ReleaseRead(q) \/ U!ReleaseWrite(q)
        PROVE  issued' = issued
    BY <1>3 DEF U!Begin, U!ReleaseRead, U!ReleaseWrite
  <1>4. ASSUME NEW v \in Reverts, U!RevertCheck(v) \/ U!RevertStore(v) \/ U!RevertStamp(v)
        PROVE  issued' = issued
    BY <1>4 DEF U!RevertCheck, U!RevertStore
  <1>5. ASSUME NEW p \in U!Publishers, U!PublisherStep(p)
        PROVE  issued' = issued
    BY <1>5 DEF U!PublisherStep, U!PublishCopy, U!PublishCall
  <1>6. CASE U!Listen \/ U!View \/ U!StartListener \/ U!Leave
    BY <1>6 DEF U!Listen, U!View, U!StartListener, U!Leave
  <1>7. CASE UNCHANGED U!vars
    BY <1>7 DEF U!vars
  <1>8. QED
    BY <1>2, <1>3, <1>4, <1>5, <1>6, <1>7 DEF U!Next

LEMMA CalmWithoutReverts ==
  ASSUME Reverts = {}, UpdateIInv, [U!Next]_(U!vars)
  PROVE  Calm
  BY CalmUnlessReverted

(* A file is reverted after a run has ended.  When only one run ends, no   *)
(* run is released while a revert is numbered.                             *)
EndsAlone(r) ==
  /\ \A q \in Runs \ {r} : phase[q] \notin {"freeing", "free"}
  /\ \A v \in Reverts : stage[v] = "stored" => phase[r] = "free"

LEMMA EndsAloneStep ==
  ASSUME UpdateIInv, [U!Next]_(U!vars), NEW r \in Runs, EndsAlone(r),
         \A q \in Runs \ {r} : phase'[q] # "freeing"
  PROVE  EndsAlone(r)'
  <1>1. /\ phase \in [Runs -> {"new", "working", "ending", "freeing", "free"}]
        /\ stage \in [Reverts -> {"idle", "checked", "refused", "stored", "done"}]
    BY DEF UpdateIInv, UpdateTypes, U!TypeOK
  <1>2. ASSUME NEW q \in Runs,
               U!Begin(q) \/ U!Stamp(q) \/ U!StampLost(q) \/ U!ReleaseRead(q) \/ U!ReleaseWrite(q)
        PROVE  EndsAlone(r)'
    <2>1. PICK s \in {"working", "ending", "freeing", "free"} :
            /\ phase' = [phase EXCEPT ![q] = s] /\ phase[q] # "free"
            /\ s = "free" => phase[q] = "freeing"
      <3>1. CASE U!Begin(q)
        BY <3>1 DEF U!Begin
      <3>2. CASE U!Stamp(q)
        BY <3>2 DEF U!Stamp
      <3>3. CASE U!StampLost(q)
        <4>1. phase' = [phase EXCEPT ![q] = "working"] /\ phase[q] = "working"
          BY <1>1, <3>3 DEF U!StampLost
        <4>2. QED
          BY <4>1
      <3>4. CASE U!ReleaseRead(q)
        BY <3>4 DEF U!ReleaseRead
      <3>5. CASE U!ReleaseWrite(q)
        BY <3>5 DEF U!ReleaseWrite
      <3>6. QED
        BY <1>2, <3>1, <3>2, <3>3, <3>4, <3>5
    <2>2. stage' = stage
      BY <1>2 DEF U!Begin, U!Stamp, U!StampLost, U!ReleaseRead, U!ReleaseWrite
    <2>3. /\ phase'[q] = "free" => phase[q] = "freeing"
          /\ phase[q] # "free" /\ \A p \in Runs \ {q} : phase'[p] = phase[p]
      BY <1>1, <2>1
    <2>4. \A p \in Runs \ {r} : phase'[p] \notin {"freeing", "free"}
      BY <2>3 DEF EndsAlone
    <2>5. QED
      BY <2>2, <2>3, <2>4 DEF EndsAlone
  <1>3. ASSUME NEW v \in Reverts, U!RevertCheck(v) \/ U!RevertStore(v) \/ U!RevertStamp(v)
        PROVE  EndsAlone(r)'
    <2>1. phase' = phase /\ \A w \in Reverts \ {v} : stage'[w] = stage[w]
      BY <1>1, <1>3 DEF U!RevertCheck, U!RevertStore, U!RevertStamp, U!runnerVars
    <2>2. stage'[v] = "stored" => \E q \in Runs : phase[q] = "free"
      BY <1>1, <1>3 DEF U!RevertCheck, U!RevertStore, U!RevertStamp
    <2>3. QED
      BY <2>1, <2>2 DEF EndsAlone
  <1>4. CASE UNCHANGED <<phase, stage>>
    BY <1>4 DEF EndsAlone
  <1>5. ASSUME NEW p \in U!Publishers, U!PublisherStep(p)
        PROVE  EndsAlone(r)'
    BY <1>4, <1>5 DEF U!PublisherStep, U!PublishCopy, U!PublishCall, U!runnerVars
  <1>6. CASE U!Listen \/ U!View \/ U!StartListener \/ U!Leave
    BY <1>4, <1>6 DEF U!Listen, U!View, U!StartListener, U!Leave, U!runnerVars
  <1>7. CASE UNCHANGED U!vars
    BY <1>4, <1>7 DEF U!vars, U!runnerVars
  <1>8. QED
    BY <1>2, <1>3, <1>5, <1>6, <1>7 DEF U!Next

LEMMA EndsAloneIsCalm ==
  ASSUME UpdateIInv, [U!Next]_(U!vars), NEW r \in Runs, EndsAlone(r)
  PROVE  Calm
  BY CalmUnlessReverted DEF EndsAlone, U!RevertStamp

LEMMA ClockFromIInv == ASSUME UpdateIInv PROVE U!ClockKept
  <1>1. PICK len \in Nat : len = Len(issued)
    BY DEF UpdateIInv, UpdateTypes, U!TypeOK
  <1>2. live = NoRun => clock = len
    BY <1>1 DEF UpdateIInv, Counted
  <1>3. issued # <<>> => len \in 1..len
    <2>1. issued \in Seq([seq : Nat, by : U!Publishers])
      BY DEF UpdateIInv, UpdateTypes, U!TypeOK
    <2> DEFINE Entries == [seq : Nat, by : U!Publishers]
    <2> HIDE DEF Entries
    <2>2. issued \in Seq(Entries)
      BY <2>1 DEF Entries
    <2>3. issued # <<>> => len # 0
      BY <1>1, <2>2
    <2>4. QED
      BY <1>1, <2>3
  <1>4. issued # <<>> => issued[len].seq = len
    BY <1>1, <1>3 DEF UpdateIInv, Counted
  <1>5. issued = <<>> => len = 0
    BY <1>1
  <1>6. QED
    BY <1>1, <1>2, <1>4, <1>5 DEF U!ClockKept

LEMMA OrderFromIInv == ASSUME UpdateIInv PROVE U!UpdatesInOrder
  <1> SUFFICES ASSUME sub = "ready"
               PROVE  U!IsPrefix(sent, SubSeq(issued, view.at + 1, Len(issued)))
    BY DEF U!UpdatesInOrder
  <1> DEFINE Entries == [seq : Nat, by : U!Publishers]
             rest == SubSeq(issued, view.at + 1, Len(issued))
  <1>1. PICK len \in Nat, a \in Nat, q \in Nat :
          len = Len(issued) /\ a = view.at /\ q = Len(sent)
    BY DEF UpdateIInv, UpdateTypes, U!TypeOK
  <1>2. a + q <= len /\ \A i \in 1..q : sent[i] = issued[a + i]
    BY <1>1 DEF UpdateIInv, Passed
  <1>3. issued \in Seq(Entries) /\ sent \in Seq(Entries)
    BY DEF UpdateIInv, UpdateTypes, U!TypeOK
  <1>4. rest = SubSeq(issued, a + 1, len)
    BY <1>1
  <1> HIDE DEF Entries, rest
  <1>5. \A i \in (a + 1)..len : issued[i] \in Entries
    BY <1>1, <1>3
  <1>6. /\ rest \in Seq(Entries) /\ Len(rest) = IF a + 1 <= len THEN len - (a + 1) + 1 ELSE 0
        /\ \A i \in 1..(len - (a + 1) + 1) : rest[i] = issued[a + 1 + i - 1]
    <2>1. a + 1 \in Int /\ len \in Int
      OBVIOUS
    <2>2. QED
      BY <1>4, <1>5, <2>1, SubSeqProperties
  <1>7. Len(rest) = len - a /\ \A i \in 1..q : i \in 1..Len(rest) /\ rest[i] = issued[a + i]
    <2>1. Len(rest) = len - a
      <3>1. a + q <= len
        BY <1>2
      <3>2. (IF a + 1 <= len THEN len - (a + 1) + 1 ELSE 0) = len - a
        BY <3>1
      <3>. QED BY <1>6, <3>2
    <2>2. \A i \in 1..q : i \in 1..(len - (a + 1) + 1) /\ a + 1 + i - 1 = a + i /\ i \in 1..(len - a)
      BY <1>2
    <2>3. QED
      BY <1>6, <2>1, <2>2
  <1>8. \A i \in 1..q : sent[i] \in Entries /\ rest[i] \in Entries
    BY <1>1, <1>3, <1>6, <1>7
  <1>9. /\ SubSeq(sent, 1, q) \in Seq(Entries) /\ SubSeq(rest, 1, q) \in Seq(Entries)
        /\ Len(SubSeq(sent, 1, q)) = q /\ Len(SubSeq(rest, 1, q)) = q
        /\ \A i \in 1..q : SubSeq(sent, 1, q)[i] = sent[i] /\ SubSeq(rest, 1, q)[i] = rest[i]
    <2>1. 1 \in Int /\ q \in Int
      OBVIOUS
    <2>2. /\ SubSeq(sent, 1, q) \in Seq(Entries)
          /\ Len(SubSeq(sent, 1, q)) = IF 1 <= q THEN q - 1 + 1 ELSE 0
          /\ \A i \in 1..(q - 1 + 1) : SubSeq(sent, 1, q)[i] = sent[1 + i - 1]
      BY <1>8, <2>1, SubSeqProperties
    <2>3. /\ SubSeq(rest, 1, q) \in Seq(Entries)
          /\ Len(SubSeq(rest, 1, q)) = IF 1 <= q THEN q - 1 + 1 ELSE 0
          /\ \A i \in 1..(q - 1 + 1) : SubSeq(rest, 1, q)[i] = rest[1 + i - 1]
      BY <1>8, <2>1, SubSeqProperties
    <2>4. q - 1 + 1 = q /\ \A i \in 1..q : 1 + i - 1 = i
      OBVIOUS
    <2>5. QED
      BY <2>2, <2>3, <2>4
  <1>10. SubSeq(sent, 1, q) = SubSeq(rest, 1, q)
    <2>1. \A i \in 1..q : SubSeq(sent, 1, q)[i] = SubSeq(rest, 1, q)[i]
      BY <1>2, <1>7, <1>9
    <2>2. QED
      BY <1>9, <2>1, SeqEqual
  <1>11. Len(sent) <= Len(rest)
    BY <1>1, <1>2, <1>7
  <1>12. QED
    BY <1>1, <1>10, <1>11 DEF U!IsPrefix, rest

LEMMA CaughtUpFromOwed == ASSUME UpdateIInv, UpdateOwed PROVE U!QuietIsCaughtUp
  <1> SUFFICES ASSUME sub = "ready", \A p \in U!Publishers : outbox[p] = <<>>
               PROVE  view.at + Len(sent) = Len(issued)
    BY DEF U!QuietIsCaughtUp
  <1>1. PICK len \in Nat, hi \in Nat : len = Len(issued) /\ hi = through
    BY DEF UpdateIInv, UpdateTypes, U!TypeOK
  <1>2. hi <= len /\ hi = view.at + Len(sent) /\ \A k \in DOMAIN buffer : k > hi + 1
    BY <1>1 DEF UpdateIInv, Passed
  <1>3. ASSUME hi < len
        PROVE  FALSE
    <2>1. hi + 1 \in (hi + 1)..len
      BY <1>3
    <2>2. Coming(hi + 1)
      BY <1>1, <2>1 DEF UpdateOwed
    <2>3. \A p \in U!Publishers : ToSet(outbox[p]) = {}
      BY DEF ToSet
    <2>4. hi + 1 \in DOMAIN buffer
      BY <2>2, <2>3 DEF Coming
    <2>5. QED
      BY <1>2, <2>4
  <1>4. QED
    BY <1>1, <1>2, <1>3

(* The number an idle session goes on from is the last one issued, unless  *)
(* a revert is numbered between the two halves of release: that is the     *)
(* only way to lose it.  (run.go, emit.go nextSessionEvent)                *)
THEOREM ClockKeptWhenCalm ==
  ASSUME Distinct
  PROVE  U!Spec /\ [][Calm]_(U!vars) => []U!ClockKept
  <1>1. U!Init => UpdateIInv
    BY UpdateInitIInv
  <1>2. UpdateIInv /\ [U!Next]_(U!vars) /\ [Calm]_(U!vars) => UpdateIInv'
    <2> SUFFICES ASSUME UpdateIInv, [U!Next]_(U!vars), [Calm]_(U!vars) PROVE UpdateIInv'
      OBVIOUS
    <2>1. Calm
      <3>1. UNCHANGED U!vars => Calm
        BY DEF U!vars, Calm
      <3>2. QED
        BY <3>1
    <2>2. QED
      BY <2>1, UpdateStepIInv
  <1>3. UpdateIInv => U!ClockKept
    BY ClockFromIInv
  <1>4. QED
    BY <1>1, <1>2, <1>3, PTL DEF U!Spec

(* A subscriber passes on the updates its snapshot lacks, all of them      *)
(* once and in the order in which they were numbered, whatever the         *)
(* publishers do with the order of their calls and whichever record cannot *)
(* be written, unless a number was lost as above.  (harness_run.go)        *)
THEOREM UpdatesInOrderWhenCalm ==
  ASSUME Distinct
  PROVE  U!Spec /\ [][Calm]_(U!vars) => []U!UpdatesInOrder
  <1>1. U!Init => UpdateIInv
    BY UpdateInitIInv
  <1>2. UpdateIInv /\ [U!Next]_(U!vars) /\ [Calm]_(U!vars) => UpdateIInv'
    <2> SUFFICES ASSUME UpdateIInv, [U!Next]_(U!vars), [Calm]_(U!vars) PROVE UpdateIInv'
      OBVIOUS
    <2>1. Calm
      <3>1. UNCHANGED U!vars => Calm
        BY DEF U!vars, Calm
      <3>2. QED
        BY <3>1
    <2>2. QED
      BY <2>1, UpdateStepIInv
  <1>3. UpdateIInv => U!UpdatesInOrder
    BY OrderFromIInv
  <1>4. QED
    BY <1>1, <1>2, <1>3, PTL DEF U!Spec

(* In a session in which no file is reverted the order and the number of   *)
(* the idle session hold without any further condition.                    *)
THEOREM NumbersWithoutReverts ==
  ASSUME Distinct, Reverts = {}
  PROVE  U!Spec => [](U!ClockKept /\ U!UpdatesInOrder)
  <1>1. U!Init => UpdateIInv
    BY UpdateInitIInv
  <1>2. UpdateIInv /\ [U!Next]_(U!vars) => UpdateIInv'
    BY CalmWithoutReverts, UpdateStepIInv
  <1>3. UpdateIInv => U!ClockKept /\ U!UpdatesInOrder
    BY ClockFromIInv, OrderFromIInv
  <1>4. QED
    BY <1>1, <1>2, <1>3, PTL DEF U!Spec

(* Where every usage record can be written, a subscriber that is still     *)
(* connected when all updates have been handed out has passed on every one *)
(* of them: none waits for a number that never comes.                      *)
(* (events/registry.go Publish, harness_run.go receive and flush)          *)
THEOREM QuietIsCaughtUpWhenCalm ==
  ASSUME Distinct, ~DiskFaults
  PROVE  U!Spec /\ [][Calm]_(U!vars) => []U!QuietIsCaughtUp
  <1>1. U!Init => UpdateIInv /\ UpdateOwed
    BY UpdateInitIInv, InitOwes
  <1>2. (UpdateIInv /\ UpdateOwed) /\ [U!Next]_(U!vars) /\ [Calm]_(U!vars) => (UpdateIInv /\ UpdateOwed)'
    <2> SUFFICES ASSUME UpdateIInv, UpdateOwed, [U!Next]_(U!vars), [Calm]_(U!vars)
                 PROVE  UpdateIInv' /\ UpdateOwed'
      OBVIOUS
    <2>1. Calm
      <3>1. UNCHANGED U!vars => Calm
        BY DEF U!vars, Calm
      <3>2. QED
        BY <3>1
    <2>2. QED
      BY <2>1, UpdateStepIInv, StepOwes
  <1>3. UpdateIInv /\ UpdateOwed => U!QuietIsCaughtUp
    BY CaughtUpFromOwed
  <1>4. QED
    BY <1>1, <1>2, <1>3, PTL DEF U!Spec

-----------------------------------------------------------------------------
(* Delivery                                                                 *)

Y == INSTANCE Delivery WITH phase <- runPhase

(* Y!Spec without its fairness, which none of the theorems needs. *)
DeliveryBehaviour == Y!Init /\ [][Y!Next]_(Y!deliveryVars)

-----------------------------------------------------------------------------
(* The inductive invariant, in named parts.                                *)

Scans == [by : {"none", "loop", "start", "wait"}, left : SUBSET Tasks,
          task : Tasks \cup {None}, todo : SUBSET Y!Results, at : {"pick", "look", "queue"},
          run : Nat, again : BOOLEAN, failed : BOOLEAN]
WaitStates == [at : {"none", "look", "looked", "sleep", "deliver", "done", "over"},
           task : Tasks \cup {None}, target : Nat, seen : SUBSET Y!Results, woken : BOOLEAN]

ScanTyped == /\ scan \in Scans
             /\ scan.at /= "pick" => scan.task \in Tasks
WaitTyped == /\ wait \in WaitStates
             /\ wait.at \in {"look", "looked", "sleep"} => wait.task \in Tasks

DeliveryTyped ==
  /\ turn \in [Tasks -> Nat] /\ running \in [Tasks -> BOOLEAN]
  /\ ScanTyped /\ retry \subseteq Tasks
  /\ WaitTyped /\ waitWoken \in BOOLEAN
  /\ runPhase \in {"idle", "announced", "open", "closed"} /\ runNo \in Nat
  /\ stopped \in BOOLEAN /\ familyStopped \in BOOLEAN /\ asked \in BOOLEAN
  /\ due \subseteq Y!Results
  /\ ledger \in [Y!Results -> Nat]

(* What is queued is not recorded, what is confirmed is. *)
QueueInv == \A r \in Y!Results :
  /\ r \in inbox => ledger[r] = 0
  /\ r \in confirmed => ledger[r] > 0
  /\ ledger[r] <= 1

(* A run that a stop was meant for owes nothing, and only what has ended   *)
(* is owed.                                                                *)
DueInv == /\ due \subseteq Y!Ended
          /\ stopped \/ ~familyStopped
          /\ familyStopped => due = {}
          /\ asked /\ ~stopped => due = {}

(* The scan of a start runs while the run is announced, for that run, and  *)
(* has nothing at hand between two tasks.                                  *)
DeliveryScanInv == /\ scan.by = "start" => runPhase = "announced"
                   /\ scan.by = "start" /\ scan.at = "queue" => scan.run = runNo
                   /\ scan.at = "pick" => scan.todo = {}
                   /\ scan.by = "none" => scan = Y!NoScan

(* What is owed is recorded, queued, or still ahead of the scan; the run   *)
(* whose scan failed does not ask.                                         *)
Safe(r) == r \in inbox \/ ledger[r] > 0
OwedInv == \A r \in due :
  /\ scan.by = "start" => Safe(r) \/ r[1] \in scan.left \/ r \in scan.todo \/ scan.failed
  /\ runPhase = "open" /\ ~stopped => Safe(r)

(* From its look on, a Wait is told of every turn that ends.               *)
WaitInv == wait.at \in {"looked", "sleep"} /\ ~waitWoken => Y!News(wait.target) \subseteq tracked


-----------------------------------------------------------------------------
(* The states a variable is reset to have its type, and what has ended is  *)
(* a result.                                                               *)
LEMMA DeliveryResets ==
  /\ \A place \in {"none", "deliver", "done", "over"} :
       LET w == [Y!Idle EXCEPT !.at = place] IN w \in WaitStates /\ w.at = place
  /\ Y!Idle \in WaitStates /\ Y!Idle.at = "none"
  /\ Y!NoScan \in Scans /\ Y!NoScan.at = "pick"
BY DEF Y!Idle, WaitStates, Y!NoScan, Scans

LEMMA EndedTyped == Y!Ended \subseteq Y!Results /\ \A t \in Tasks : Y!EndedOf(t) \subseteq Y!Results
BY DEF Y!Ended, Y!EndedOf

(* The variables keep their types. *)
LEMMA DeliveryTypedStep == DeliveryTyped /\ [Y!Next]_(Y!deliveryVars) => DeliveryTyped'
<1> SUFFICES ASSUME DeliveryTyped, [Y!Next]_(Y!deliveryVars) PROVE DeliveryTyped'
    OBVIOUS
<1> USE DEF DeliveryTyped, Y!childVars, Y!scanVars, Y!waitVars, Y!parentVars
<1>a. scan' = scan => ScanTyped'
      BY DEF ScanTyped
<1>b. wait' = wait => WaitTyped'
      BY DEF WaitTyped
<1>1. CASE UNCHANGED Y!deliveryVars
      BY <1>1, <1>a, <1>b DEF Y!deliveryVars
<1>2. ASSUME NEW t \in Tasks, Y!ChildStart(t) \/ Y!ChildEnd(t) PROVE DeliveryTyped'
  <2>1. turn' \in [Tasks -> Nat]
        BY <1>2 DEF Y!ChildStart, Y!ChildEnd
  <2>2. running' \in [Tasks -> BOOLEAN]
        BY <1>2 DEF Y!ChildStart, Y!ChildEnd
  <2>. QED BY <1>2, <2>1, <2>2, <1>a, <1>b DEF Y!ChildStart, Y!ChildEnd
<1>3. ASSUME NEW t \in Tasks, Y!Project(t) PROVE DeliveryTyped'
  <2>1. Y!EndedOf(t) \ confirmed \subseteq Y!Results
        BY EndedTyped
  <2>2. ScanTyped'
        BY <1>3, <2>1 DEF Y!Project, ScanTyped, Scans
  <2>3. retry' \subseteq Tasks
        BY <1>3 DEF Y!Project
  <2>. QED BY <1>3, <2>2, <2>3, <1>b DEF Y!Project
<1>4. ASSUME NEW r \in tracked, Y!Signal(r) PROVE DeliveryTyped'
      BY <1>4, <1>a, <1>b DEF Y!Signal, Y!SignalChange
<1>5. CASE Y!LoopWake
      BY <1>5, <1>a, <1>b DEF Y!LoopWake
<1>6. ASSUME NEW by \in {"loop", "start", "wait"}, Y!ScanBegin(by) PROVE DeliveryTyped'
  <2>1. PICK left \in SUBSET Tasks : scan' = [Y!NoScan EXCEPT !.by = by, !.left = left]
        BY <1>6 DEF Y!ScanBegin, Y!StartScans
  <2>2. ScanTyped'
        BY <2>1 DEF ScanTyped, Y!NoScan, Scans
  <2>. QED BY <1>6, <2>2, <1>b DEF Y!ScanBegin
<1>7. CASE Y!Look
  <2>1. scan.at = "look" /\ scan'.task = scan.task
        BY <1>7 DEF Y!Look, Y!Told, Y!Again, ScanTyped, Scans
  <2>2. ScanTyped'
        BY <1>7, <2>1 DEF Y!Look, Y!Told, Y!Again, ScanTyped, Scans
  <2>. QED BY <1>7, <2>2, <1>b DEF Y!Look
<1>8. CASE Y!Queue
  <2>1. scan.at = "queue" /\ (Y!Told(Y!First) \/ Y!Again(Y!First))
        BY <1>8 DEF Y!Queue, Y!QueuedIs
  <2>2. ScanTyped'
        BY <2>1 DEF Y!Told, Y!Again, ScanTyped, Scans
  <2>. QED BY <1>8, <2>2, <1>b DEF Y!Queue
<1>9. CASE Y!TaskDone
  <2>1. ScanTyped'
        BY <1>9 DEF Y!TaskDone, ScanTyped, Scans
  <2>2. retry' \subseteq Tasks
        BY <1>9 DEF Y!TaskDone, ScanTyped
  <2>. QED BY <1>9, <2>1, <2>2, <1>b DEF Y!TaskDone
<1>10. CASE Y!ScanEnd
  <2>1. WaitTyped'
        BY <1>10 DEF Y!ScanEnd, WaitTyped, WaitStates
  <2>2. scan' = Y!NoScan /\ stopped' \in BOOLEAN
        BY <1>10 DEF Y!ScanEnd, ScanTyped, Scans
  <2>3. ScanTyped'
        BY <2>2, DeliveryResets DEF ScanTyped
  <2>. QED BY <1>10, <2>1, <2>2, <2>3 DEF Y!ScanEnd
<1>11. ASSUME NEW t \in Tasks, NEW seen \in {{}, Y!EndedOf(t)}, Y!WaitStart(t, seen)
       PROVE  DeliveryTyped'
  <2>1. WaitTyped'
        BY <1>11, EndedTyped DEF Y!WaitStart, WaitTyped, WaitStates, Y!Idle
  <2>. QED BY <1>11, <2>1, <1>a DEF Y!WaitStart
<1>12. CASE Y!WaitLook
  <2>1. Y!Target \in Nat
        BY <1>12 DEF Y!WaitLook, WaitTyped, WaitStates, Y!Target
  <2>2. \/ wait' = [Y!Idle EXCEPT !.at = "deliver"]
        \/ wait' = [Y!Idle EXCEPT !.at = "done"]
        \/ wait' = [wait EXCEPT !.at = "looked", !.target = Y!Target]
        BY <1>12 DEF Y!WaitLook
  <2>3. CASE wait' = [wait EXCEPT !.at = "looked", !.target = Y!Target]
        BY <1>12, <2>1, <2>3, <1>a DEF Y!WaitLook, WaitTyped, WaitStates
  <2>. QED BY <1>12, <2>2, <2>3, DeliveryResets, <1>a DEF Y!WaitLook, WaitTyped
<1>13. CASE Y!Sleep \/ Y!WaitWake \/ Y!WaitInput \/ Y!WaitTimeout \/ Y!WaitReturn
  <2>1. \/ \E place \in {"none", "deliver", "done", "over"} : wait' = [Y!Idle EXCEPT !.at = place]
        \/ wait.at \in {"looked", "sleep"} /\ wait' = [wait EXCEPT !.at = "look", !.woken = TRUE]
        \/ wait.at \in {"looked", "sleep"} /\ wait' = [wait EXCEPT !.at = "look"]
        \/ wait.at \in {"looked", "sleep"} /\ wait' = [wait EXCEPT !.at = "sleep"]
        BY <1>13 DEF Y!Sleep, Y!WaitWake, Y!WaitInput, Y!WaitTimeout, Y!WaitReturn
  <2>2. WaitTyped'
        BY <2>1, DeliveryResets DEF WaitTyped, WaitStates
  <2>. QED BY <1>13, <2>2, <1>a
       DEF Y!Sleep, Y!WaitSleep, Y!WaitWake, Y!WaitInput, Y!WaitTimeout, Y!WaitReturn
<1>14. CASE Y!RunStart
  <2>1. due' \subseteq Y!Results /\ runNo' \in Nat
        BY <1>14, EndedTyped DEF Y!RunStart
  <2>. QED BY <1>14, <2>1, <1>a, <1>b DEF Y!RunStart
<1>15. CASE Y!StartStopped
      BY <1>15, <1>a, <1>b DEF Y!StartStopped
<1>19. CASE Y!CheckpointFails
      BY <1>19, <1>a, <1>b DEF Y!CheckpointFails
<1>16. CASE Y!Checkpoint \/ Y!FinalCheckpoint
  <2>1. ledger' \in [Y!Results -> Nat]
        BY <1>16 DEF Y!Checkpoint, Y!FinalCheckpoint, Y!Commit
  <2>2. WaitTyped'
        BY <1>16, DeliveryResets, <1>b DEF Y!Checkpoint, Y!FinalCheckpoint, WaitTyped
  <2>. QED BY <1>16, <2>1, <2>2, <1>a DEF Y!Checkpoint, Y!FinalCheckpoint
<1>17. CASE Y!RunEnd \/ Y!Restart
  <2>1. WaitTyped' /\ ScanTyped'
        BY <1>17, DeliveryResets, <1>a DEF Y!RunEnd, Y!Restart, WaitTyped, ScanTyped
  <2>. QED BY <1>17, <2>1 DEF Y!RunEnd, Y!Restart
<1>18. ASSUME NEW family \in BOOLEAN, Y!Stop(family) PROVE DeliveryTyped'
      BY <1>18, <1>a, <1>b DEF Y!Stop, Y!SignalChange
<1>. QED
    BY <1>1, <1>2, <1>3, <1>4, <1>5, <1>6, <1>7, <1>8, <1>9, <1>10, <1>11, <1>12, <1>13,
       <1>14, <1>15, <1>16, <1>17, <1>18, <1>19 DEF Y!Next

-----------------------------------------------------------------------------
(* What is queued, confirmed and recorded: the ledger is looked at under   *)
(* the handoff lock before a result is queued, and a checkpoint writes     *)
(* and empties the queue in one step (collaboration.go:9-58).              *)
LEMMA QueueStep ==
  ASSUME DeliveryTyped, QueueInv, [Y!Next]_(Y!deliveryVars) PROVE QueueInv'
<1> USE DEF DeliveryTyped, QueueInv, Y!childVars, Y!scanVars, Y!waitVars, Y!parentVars
<1>1. CASE UNCHANGED <<inbox, ledger, confirmed>>
      BY <1>1
<1>2. CASE Y!Look
      BY <1>2 DEF Y!Look
<1>3. CASE Y!Queue
  <2>1. CASE Y!Known(Y!First)
        BY <1>3, <2>1 DEF Y!Queue, Y!Known
  <2>2. CASE ~Y!Known(Y!First)
        BY <1>3, <2>2 DEF Y!Queue, Y!Known, Y!QueuedIs
  <2>. QED BY <2>1, <2>2
<1>4. CASE Y!Checkpoint \/ Y!FinalCheckpoint
  <2>1. UNCHANGED confirmed /\ Y!Commit
        BY <1>4 DEF Y!Checkpoint, Y!FinalCheckpoint
  <2>. QED BY <2>1 DEF Y!Commit
<1>5. CASE Y!CheckpointFails \/ Y!RunEnd
      BY <1>5 DEF Y!CheckpointFails, Y!RunEnd
<1>6. CASE Y!Restart
      BY <1>6 DEF Y!Restart
<1>7. CASE UNCHANGED <<inbox, ledger, confirmed>> \/ Y!Look \/ Y!Queue \/ Y!Checkpoint
           \/ Y!FinalCheckpoint \/ Y!CheckpointFails \/ Y!RunEnd \/ Y!Restart
      BY <1>1, <1>2, <1>3, <1>4, <1>5, <1>6, <1>7
<1>8. (\E t \in Tasks : \/ Y!ChildStart(t) \/ Y!ChildEnd(t) \/ Y!Project(t)
                         \/ \E seen \in {{}, Y!EndedOf(t)} : Y!WaitStart(t, seen))
      => UNCHANGED <<inbox, ledger, confirmed>>
      BY DEF Y!ChildStart, Y!ChildEnd, Y!Project, Y!WaitStart
<1>9. \/ \E r \in tracked : Y!Signal(r)
      \/ \E by \in {"loop", "start", "wait"} : Y!ScanBegin(by)
      \/ \E family \in BOOLEAN : Y!Stop(family)
      \/ Y!LoopWake \/ Y!TaskDone \/ Y!ScanEnd
      => UNCHANGED <<inbox, ledger, confirmed>>
      BY DEF Y!Signal, Y!ScanBegin, Y!Stop, Y!LoopWake, Y!TaskDone, Y!ScanEnd
<1>10. Y!WaitLook \/ Y!Sleep \/ Y!WaitWake \/ Y!WaitInput \/ Y!WaitTimeout \/ Y!WaitReturn
       \/ Y!RunStart \/ Y!StartStopped \/ UNCHANGED Y!deliveryVars
       => UNCHANGED <<inbox, ledger, confirmed>>
      BY DEF Y!WaitLook, Y!Sleep, Y!WaitWake, Y!WaitInput, Y!WaitTimeout, Y!WaitReturn,
         Y!RunStart, Y!StartStopped, Y!deliveryVars
<1>. QED BY <1>7, <1>8, <1>9, <1>10 DEF Y!Next

LEMMA DeliveryTypedInit == Y!Init => DeliveryTyped
<1> SUFFICES ASSUME Y!Init PROVE DeliveryTyped
    OBVIOUS
<1>1. ScanTyped /\ WaitTyped
      BY DeliveryResets DEF Y!Init, ScanTyped, WaitTyped
<1>2. turn \in [Tasks -> Nat] /\ running \in [Tasks -> BOOLEAN] /\ ledger \in [Y!Results -> Nat]
      BY DEF Y!Init
<1>. QED BY <1>1, <1>2 DEF Y!Init, DeliveryTyped

LEMMA QueueInit == Y!Init => QueueInv
BY DEF Y!Init, QueueInv

(* A result that is offered at every start, change and tick, to whatever   *)
(* run the parent has, is recorded once (collaboration.go:9-58).           *)
THEOREM RecordedOnceHolds == DeliveryBehaviour => []Y!RecordedOnce
<1>1. QueueInv => Y!RecordedOnce
      BY DEF QueueInv, Y!RecordedOnce
<1>. QED BY <1>1, DeliveryTypedInit, DeliveryTypedStep, QueueInit, QueueStep, PTL DEF DeliveryBehaviour

-----------------------------------------------------------------------------
(* A Wait is told of every turn that ends once it looked: the channel is   *)
(* captured before the look, and every end signals (wait.go:28-75).        *)
LEMMA WaitStep ==
  ASSUME DeliveryTyped, WaitInv, [Y!Next]_(Y!deliveryVars) PROVE WaitInv'
<1> USE DEF DeliveryTyped, Y!childVars, Y!scanVars, Y!waitVars, Y!parentVars
<1>1. ASSUME UNCHANGED <<wait, waitWoken, tracked>>, Y!EndedOf(wait.task)' = Y!EndedOf(wait.task)
      PROVE  WaitInv'
      BY <1>1 DEF WaitInv, Y!News
<1>2. ASSUME UNCHANGED <<turn, running>>
      PROVE  \A t \in Tasks : Y!EndedOf(t)' = Y!EndedOf(t)
      BY <1>2 DEF Y!EndedOf, Y!Ended
<1>3. ASSUME wait'.at \notin {"looked", "sleep"} PROVE WaitInv'
      BY <1>3 DEF WaitInv
<1>4. ASSUME NEW t \in Tasks, Y!ChildStart(t) PROVE WaitInv'
  <2>1. Y!Ended' = Y!Ended
        BY <1>4 DEF Y!ChildStart, Y!Ended, Y!Results
  <2>. QED BY <1>4, <2>1 DEF Y!ChildStart, WaitInv, Y!News, Y!EndedOf
<1>5. ASSUME NEW t \in Tasks, Y!ChildEnd(t) PROVE WaitInv'
  <2>1. Y!Ended' \subseteq Y!Ended \cup {<<t, turn[t]>>}
        BY <1>5 DEF Y!ChildEnd, Y!Ended, Y!Results
  <2>. QED BY <1>5, <2>1 DEF Y!ChildEnd, WaitInv, Y!News, Y!EndedOf
<1>6. ASSUME NEW r \in tracked, Y!Signal(r) PROVE WaitInv'
      BY <1>6 DEF Y!Signal, Y!SignalChange, WaitInv
<1>7. CASE Y!WaitLook
  <2>1. CASE wait' = [wait EXCEPT !.at = "looked", !.target = Y!Target]
    <3>1. Y!News(Y!Target) = {}
          BY <1>7, <2>1, DeliveryResets DEF Y!WaitLook, WaitTyped, WaitStates
    <3>2. Y!News(wait.target)' = Y!News(Y!Target)
      <4>1. wait'.task = wait.task /\ wait'.seen = wait.seen /\ wait'.target = Y!Target
            BY <2>1 DEF WaitTyped, WaitStates
      <4>2. UNCHANGED <<turn, running>>
            BY <1>7 DEF Y!WaitLook
      <4>. QED BY <4>1, <4>2 DEF Y!News, Y!EndedOf, Y!Ended
    <3>. QED BY <3>1, <3>2 DEF WaitInv
  <2>2. CASE wait' \in {[Y!Idle EXCEPT !.at = "deliver"], [Y!Idle EXCEPT !.at = "done"]}
        BY <2>2, <1>3, DeliveryResets
  <2>. QED BY <1>7, <2>1, <2>2 DEF Y!WaitLook
<1>8. CASE Y!Sleep
  <2>1. wait.at = "looked" /\ wait'.task = wait.task /\ wait'.seen = wait.seen
        /\ wait'.target = wait.target /\ UNCHANGED <<waitWoken, tracked, turn, running>>
        BY <1>8 DEF Y!Sleep, Y!WaitSleep, WaitTyped, WaitStates
  <2>2. Y!News(wait.target)' = Y!News(wait.target)
        BY <2>1 DEF Y!News, Y!EndedOf, Y!Ended
  <2>. QED BY <2>1, <2>2 DEF WaitInv
<1>9. CASE Y!WaitWake \/ Y!WaitInput \/ Y!WaitTimeout \/ Y!WaitReturn
  <2>1. wait'.at \in {"look", "done", "over"}
        BY <1>9, DeliveryResets DEF Y!WaitWake, Y!WaitInput, Y!WaitTimeout, Y!WaitReturn,
           WaitTyped, WaitStates
  <2>. QED BY <2>1, <1>3
<1>10. ASSUME NEW t \in Tasks, NEW seen \in {{}, Y!EndedOf(t)}, Y!WaitStart(t, seen)
       PROVE  WaitInv'
  <2>1. wait'.at = "look"
        BY <1>10 DEF Y!WaitStart, Y!Idle
  <2>. QED BY <2>1, <1>3
<1>11. CASE Y!ScanEnd
  <2>1. wait' = [wait EXCEPT !.at = "done"] \/ wait' = wait
        BY <1>11 DEF Y!ScanEnd
  <2>2. CASE wait' = wait
        BY <1>11, <2>2 DEF Y!ScanEnd, WaitInv, Y!News, Y!EndedOf, Y!Ended
  <2>3. CASE wait' = [wait EXCEPT !.at = "done"]
    <3>1. wait'.at = "done"
          BY <2>3 DEF WaitTyped, WaitStates
    <3>. QED BY <3>1, <1>3
  <2>. QED BY <2>1, <2>2, <2>3
<1>12. CASE Y!Checkpoint \/ Y!RunEnd \/ Y!Restart
  <2>1. wait'.at = "none"
        BY <1>12, DeliveryResets DEF Y!Checkpoint, Y!RunEnd, Y!Restart
  <2>. QED BY <2>1, <1>3
<1>13. ASSUME NEW family \in BOOLEAN, Y!Stop(family) PROVE WaitInv'
      BY <1>13 DEF Y!Stop, Y!SignalChange, WaitInv, Y!News, Y!EndedOf, Y!Ended
<1>14. ASSUME UNCHANGED <<Y!childVars, Y!waitVars>> PROVE WaitInv'
      BY <1>14 DEF WaitInv, Y!News, Y!EndedOf, Y!Ended
<1>15. \/ \E t \in Tasks : Y!Project(t)
       \/ \E by \in {"loop", "start", "wait"} : Y!ScanBegin(by)
       \/ Y!LoopWake \/ Y!Look \/ Y!Queue \/ Y!TaskDone
       => UNCHANGED <<Y!childVars, Y!waitVars>>
       BY DEF Y!Project, Y!ScanBegin, Y!LoopWake, Y!Look, Y!Queue, Y!TaskDone
<1>16. Y!RunStart \/ Y!StartStopped \/ Y!CheckpointFails \/ Y!FinalCheckpoint \/ UNCHANGED Y!deliveryVars
       => UNCHANGED <<Y!childVars, Y!waitVars>>
       BY DEF Y!RunStart, Y!StartStopped, Y!CheckpointFails, Y!FinalCheckpoint,
          Y!deliveryVars
<1>. QED
    BY <1>4, <1>5, <1>6, <1>7, <1>8, <1>9, <1>10, <1>11, <1>12, <1>13, <1>14, <1>15, <1>16
    DEF Y!Next

(* A Wait that sleeps has missed no turn (wait.go:50, subagents.go:240).   *)
THEOREM WaitMissesNothingHolds == DeliveryBehaviour => []Y!WaitMissesNothing
<1>1. Y!Init => WaitInv
      BY DEF Y!Init, WaitInv, Y!Idle
<1>2. WaitInv => Y!WaitMissesNothing
      BY DEF WaitInv, Y!WaitMissesNothing
<1>. QED BY <1>1, <1>2, DeliveryTypedInit, DeliveryTypedStep, WaitStep, PTL DEF DeliveryBehaviour

-----------------------------------------------------------------------------
(* What a run owes when it starts.                                         *)

(* What has ended stays so: a turn only follows another, and a restart     *)
(* ends what was running (projection.go).                                  *)
LEMMA EndedStays ==
  ASSUME DeliveryTyped, [Y!Next]_(Y!deliveryVars)
  PROVE  Y!Ended \subseteq Y!Ended'
<1> USE DEF DeliveryTyped, Y!childVars, Y!scanVars, Y!waitVars, Y!parentVars
<1>1. ASSUME NEW t \in Tasks, Y!ChildStart(t) \/ Y!ChildEnd(t) PROVE Y!Ended \subseteq Y!Ended'
      BY <1>1 DEF Y!ChildStart, Y!ChildEnd, Y!Ended, Y!Results
<1>2. CASE Y!Restart
      BY <1>2 DEF Y!Restart, Y!Ended, Y!Results
<1>3. UNCHANGED <<turn, running>> => Y!Ended' = Y!Ended
      BY DEF Y!Ended
<1>4. (\E t \in Tasks : Y!Project(t) \/ \E seen \in {{}, Y!EndedOf(t)} : Y!WaitStart(t, seen))
      => UNCHANGED <<turn, running>>
      BY DEF Y!Project, Y!WaitStart
<1>5. \/ \E r \in tracked : Y!Signal(r)
      \/ \E by \in {"loop", "start", "wait"} : Y!ScanBegin(by)
      \/ \E family \in BOOLEAN : Y!Stop(family)
      \/ Y!LoopWake \/ Y!Look \/ Y!Queue \/ Y!TaskDone \/ Y!ScanEnd
      => UNCHANGED <<turn, running>>
      BY DEF Y!Signal, Y!ScanBegin, Y!Stop, Y!LoopWake, Y!Look, Y!Queue, Y!TaskDone,
         Y!ScanEnd
<1>6. Y!WaitLook \/ Y!Sleep \/ Y!WaitWake \/ Y!WaitInput \/ Y!WaitTimeout \/ Y!WaitReturn
      => UNCHANGED <<turn, running>>
      BY DEF Y!WaitLook, Y!Sleep, Y!WaitWake, Y!WaitInput, Y!WaitTimeout, Y!WaitReturn
<1>7. \/ Y!RunStart \/ Y!StartStopped \/ Y!Checkpoint \/ Y!CheckpointFails \/ Y!FinalCheckpoint
      \/ Y!RunEnd \/ UNCHANGED Y!deliveryVars
      => UNCHANGED <<turn, running>>
      BY DEF Y!RunStart, Y!StartStopped, Y!Checkpoint, Y!CheckpointFails, Y!FinalCheckpoint,
         Y!RunEnd, Y!deliveryVars
<1>. QED BY <1>1, <1>2, <1>3, <1>4, <1>5, <1>6, <1>7 DEF Y!Next

(* The scan of a start belongs to one announced run. *)
LEMMA ScanStep ==
  ASSUME DeliveryTyped, DeliveryScanInv, [Y!Next]_(Y!deliveryVars)
  PROVE  DeliveryScanInv'
<1> USE DEF DeliveryTyped, ScanTyped, DeliveryScanInv, Y!childVars, Y!scanVars, Y!waitVars, Y!parentVars
<1>1. CASE UNCHANGED <<scan, runPhase, runNo>>
      BY <1>1
<1>2. ASSUME NEW t \in Tasks, Y!Project(t) PROVE DeliveryScanInv'
      BY <1>2 DEF Y!Project, Scans
<1>3. ASSUME NEW by \in {"loop", "start", "wait"}, Y!ScanBegin(by) PROVE DeliveryScanInv'
      BY <1>3 DEF Y!ScanBegin, Y!NoScan
<1>4. CASE Y!Look
      BY <1>4 DEF Y!Look, Y!Told, Y!Again, Scans
<1>5. CASE Y!Queue
  <2>1. scan.at = "queue" /\ (Y!Told(Y!First) \/ Y!Again(Y!First)) /\ UNCHANGED <<runPhase, runNo>>
        BY <1>5 DEF Y!Queue, Y!QueuedIs
  <2>2. scan.by /= "none"
        BY <2>1 DEF Y!NoScan
  <2>. QED BY <2>1, <2>2 DEF Y!Told, Y!Again, Scans
<1>6. CASE Y!TaskDone
      BY <1>6 DEF Y!TaskDone, Scans
<1>7. CASE Y!ScanEnd
      BY <1>7 DEF Y!ScanEnd, Y!NoScan
<1>8. CASE Y!Restart
      BY <1>8 DEF Y!Restart, Y!NoScan
<1>9. CASE Y!RunStart
      BY <1>9 DEF Y!RunStart
<1>10. CASE Y!StartStopped
      BY <1>10 DEF Y!StartStopped
<1>11. CASE Y!FinalCheckpoint
      BY <1>11 DEF Y!FinalCheckpoint
<1>12. CASE Y!RunEnd
      BY <1>12 DEF Y!RunEnd
<1>13. (\E t \in Tasks : \/ Y!ChildStart(t) \/ Y!ChildEnd(t)
                          \/ \E seen \in {{}, Y!EndedOf(t)} : Y!WaitStart(t, seen))
       => UNCHANGED <<scan, runPhase, runNo>>
       BY DEF Y!ChildStart, Y!ChildEnd, Y!WaitStart
<1>14. \/ \E r \in tracked : Y!Signal(r)
       \/ \E family \in BOOLEAN : Y!Stop(family)
       \/ Y!LoopWake \/ Y!WaitLook \/ Y!Sleep \/ Y!WaitWake \/ Y!WaitInput
       => UNCHANGED <<scan, runPhase, runNo>>
       BY DEF Y!Signal, Y!Stop, Y!LoopWake, Y!WaitLook, Y!Sleep, Y!WaitWake, Y!WaitInput
<1>15. Y!WaitTimeout \/ Y!WaitReturn \/ Y!Checkpoint \/ Y!CheckpointFails \/ UNCHANGED Y!deliveryVars
       => UNCHANGED <<scan, runPhase, runNo>>
       BY DEF Y!WaitTimeout, Y!WaitReturn, Y!Checkpoint, Y!CheckpointFails, Y!deliveryVars
<1>. QED
    BY <1>1, <1>2, <1>3, <1>4, <1>5, <1>6, <1>7, <1>8, <1>9, <1>10, <1>11, <1>12, <1>13,
       <1>14, <1>15 DEF Y!Next

Owed == DeliveryTyped /\ QueueInv /\ DeliveryScanInv /\ DueInv /\ OwedInv

(* Each step keeps what a run owes in sight: the scan of the start takes   *)
(* one task after the other, each of its results ends in the ledger or the *)
(* queue, and the first checkpoint writes the queue.                       *)
LEMMA OwedStep ==
  ASSUME Owed, [Y!Next]_(Y!deliveryVars), DeliveryTyped', QueueInv', DeliveryScanInv'
  PROVE  DueInv' /\ OwedInv'
<1> USE DEF Owed, DueInv, OwedInv, Safe, Y!childVars, Y!scanVars, Y!waitVars, Y!parentVars
<1>0. Y!Ended \subseteq Y!Ended'
      BY EndedStays
<1>1. CASE UNCHANGED <<scan, runPhase, stopped, familyStopped, asked, due, inbox, ledger>>
      BY <1>0, <1>1
<1>2. CASE due' = {} /\ (stopped' \/ ~familyStopped')
      BY <1>2
<1>3. ASSUME NEW t \in Tasks, Y!Project(t) PROVE DueInv' /\ OwedInv'
  <2>1. UNCHANGED <<runPhase, stopped, familyStopped, asked, due, inbox, ledger>>
        BY <1>3 DEF Y!Project
  <2>2. ASSUME NEW r \in due, scan.by = "start"
        PROVE  r \in inbox \/ ledger[r] > 0 \/ r[1] \in scan'.left \/ r \in scan'.todo \/ scan'.failed
    <3>1. ~Y!StopsHere /\ scan.todo = {} /\ r \in Y!Ended /\ r \in Y!Results
          BY <1>3, <2>2 DEF Y!StopsHere, Y!Project, DeliveryScanInv, DeliveryTyped
    <3>2. CASE r[1] = t /\ scan' = [scan EXCEPT !.left = @ \ {t}, !.task = t, !.at = "look",
                                !.todo = Y!EndedOf(t) \ confirmed, !.again = FALSE]
          BY <3>1, <3>2 DEF Y!EndedOf, QueueInv, DeliveryTyped, ScanTyped, Scans
    <3>3. CASE scan' = [scan EXCEPT !.left = @ \ {t}, !.failed = TRUE]
          BY <3>3 DEF DeliveryTyped, ScanTyped, Scans
    <3>4. CASE r[1] /= t /\ scan' = [scan EXCEPT !.left = @ \ {t}, !.task = t, !.at = "look",
                                !.todo = Y!EndedOf(t) \ confirmed, !.again = FALSE]
          BY <2>2, <3>1, <3>4 DEF DeliveryTyped, ScanTyped, Scans
    <3>. QED BY <1>3, <3>1, <3>2, <3>3, <3>4 DEF Y!Project
  <2>3. scan'.by = scan.by
        BY <1>3 DEF Y!Project, DeliveryTyped, ScanTyped, Scans
  <2>. QED BY <1>0, <2>1, <2>2, <2>3
<1>4. ASSUME NEW by \in {"loop", "start", "wait"}, Y!ScanBegin(by) PROVE DueInv' /\ OwedInv'
  <2>1. UNCHANGED <<runPhase, stopped, familyStopped, asked, due, inbox, ledger>>
        BY <1>4 DEF Y!ScanBegin
  <2>2. scan'.by = "start" => scan'.left = Tasks
        BY <1>4 DEF Y!ScanBegin, Y!NoScan, Y!StartScans
  <2>3. \A r \in due : r[1] \in Tasks
        BY DEF DeliveryTyped, Y!Results
  <2>. QED BY <1>0, <2>1, <2>2, <2>3
<1>5. CASE Y!Look
  <2>1. UNCHANGED <<runPhase, stopped, familyStopped, asked, due, inbox, ledger>>
        BY <1>5 DEF Y!Look
  <2>2. /\ scan'.by = scan.by /\ scan'.left = scan.left /\ scan'.failed = scan.failed
        /\ scan'.todo = scan.todo \/ (scan'.todo = scan.todo \ {Y!First} /\ ledger[Y!First] > 0)
           \/ runPhase = "idle"
        BY <1>5 DEF Y!Look, Y!Told, Y!Again, DeliveryTyped, ScanTyped, Scans
  <2>. QED BY <1>0, <2>1, <2>2 DEF DeliveryScanInv
<1>6. CASE Y!Queue
  <2>1. UNCHANGED <<runPhase, stopped, familyStopped, asked, due, ledger>>
        BY <1>6 DEF Y!Queue
  <2>2. scan.at = "queue" /\ (Y!Told(Y!First) \/ Y!Again(Y!First)) /\ inbox \subseteq inbox'
        BY <1>6 DEF Y!Queue, Y!QueuedIs
  <2>3. /\ scan'.by = scan.by /\ scan'.left = scan.left /\ scan'.failed = scan.failed
        /\ scan'.todo = scan.todo \ {Y!First}
        BY <2>2 DEF Y!Told, Y!Again, DeliveryTyped, ScanTyped, Scans
  <2>4. scan.by = "start" => ledger[Y!First] > 0 \/ Y!First \in inbox'
        BY <1>6 DEF Y!Queue, Y!Known, Y!QueuedIs, DeliveryScanInv
  <2>. QED BY <1>0, <2>1, <2>2, <2>3, <2>4
<1>7. CASE Y!TaskDone
  <2>1. UNCHANGED <<runPhase, stopped, familyStopped, asked, due, inbox, ledger>>
        BY <1>7 DEF Y!TaskDone
  <2>2. /\ scan'.by = scan.by /\ scan'.left = scan.left /\ scan'.failed = scan.failed
        /\ scan'.todo = scan.todo
        BY <1>7 DEF Y!TaskDone, DeliveryTyped, ScanTyped, Scans
  <2>. QED BY <1>0, <2>1, <2>2
<1>8. CASE Y!ScanEnd
  <2>1. UNCHANGED <<familyStopped, asked, due, inbox, ledger>> /\ scan' = Y!NoScan
        BY <1>8 DEF Y!ScanEnd
  <2>2. scan'.by = "none"
        BY <2>1 DEF Y!NoScan
  <2>3. CASE scan.by = "start"
    <3>1. scan.todo = {} /\ scan.left = {} /\ stopped' = (stopped \/ scan.failed)
          BY <1>8, <2>3 DEF Y!ScanEnd, DeliveryScanInv
    <3>. QED BY <1>0, <2>1, <2>2, <2>3, <3>1
  <2>4. CASE scan.by /= "start"
    <3>1. UNCHANGED <<runPhase, stopped>>
          BY <1>8, <2>4 DEF Y!ScanEnd
    <3>. QED BY <1>0, <2>1, <2>2, <3>1
  <2>. QED BY <2>3, <2>4
<1>9. CASE Y!RunStart
  <2>1. /\ runPhase' = "announced" /\ ~asked' /\ due' = Y!Ended /\ ~familyStopped'
        /\ scan' = scan /\ scan.by /= "start"
        BY <1>9 DEF Y!RunStart, DeliveryScanInv
  <2>. QED BY <1>0, <2>1
<1>10. CASE Y!StartStopped
      BY <1>0, <1>10 DEF Y!StartStopped
<1>11. CASE Y!Checkpoint
  <2>1. UNCHANGED <<scan, runPhase, stopped, familyStopped>> /\ runPhase = "open"
        BY <1>11 DEF Y!Checkpoint
  <2>2. due' = {r \in due : ledger'[r] = 0} /\ asked' = (asked \/ ~stopped)
        BY <1>11 DEF Y!Checkpoint
  <2>3. \A r \in due : Safe(r) => ledger'[r] > 0
        BY <1>11 DEF Y!Checkpoint, Y!Commit, DeliveryTyped
  <2>4. \A r \in due : ~stopped => ledger'[r] > 0
        BY <2>1, <2>3
  <2>5. scan.by /= "start"
        BY <2>1 DEF DeliveryScanInv
  <2>6. stopped \/ due' = {}
        BY <2>2, <2>4 DEF DeliveryTyped
  <2>. QED BY <1>0, <2>1, <2>2, <2>5, <2>6
<1>12. CASE Y!CheckpointFails
  <2>1. UNCHANGED <<scan, runPhase, familyStopped, asked, due, ledger>> /\ runPhase = "open" /\ stopped'
        BY <1>12 DEF Y!CheckpointFails
  <2>2. scan.by /= "start"
        BY <2>1 DEF DeliveryScanInv
  <2>. QED BY <1>0, <2>1, <2>2
<1>13. CASE Y!FinalCheckpoint
  <2>1. UNCHANGED <<scan, stopped, familyStopped, asked, due>> /\ runPhase = "open" /\ asked
        BY <1>13 DEF Y!FinalCheckpoint
  <2>2. scan.by /= "start"
        BY <2>1 DEF DeliveryScanInv
  <2>. QED BY <1>0, <2>1, <2>2
<1>14. CASE Y!RunEnd \/ Y!Restart \/ \E family \in BOOLEAN : Y!Stop(family)
      BY <1>2, <1>14 DEF Y!RunEnd, Y!Restart, Y!Stop
<1>15. (\E t \in Tasks : \/ Y!ChildStart(t) \/ Y!ChildEnd(t)
                          \/ \E seen \in {{}, Y!EndedOf(t)} : Y!WaitStart(t, seen))
       => UNCHANGED <<scan, runPhase, stopped, familyStopped, asked, due, inbox, ledger>>
       BY DEF Y!ChildStart, Y!ChildEnd, Y!WaitStart
<1>16. (\E r \in tracked : Y!Signal(r)) \/ Y!LoopWake \/ Y!WaitLook \/ Y!Sleep \/ Y!WaitWake
       \/ Y!WaitInput \/ Y!WaitTimeout \/ Y!WaitReturn \/ UNCHANGED Y!deliveryVars
       => UNCHANGED <<scan, runPhase, stopped, familyStopped, asked, due, inbox, ledger>>
       BY DEF Y!Signal, Y!LoopWake, Y!WaitLook, Y!Sleep, Y!WaitWake, Y!WaitInput,
          Y!WaitTimeout, Y!WaitReturn, Y!deliveryVars
<1>. QED
    BY <1>1, <1>3, <1>4, <1>5, <1>6, <1>7, <1>8, <1>9, <1>10, <1>11, <1>12, <1>13, <1>14,
       <1>15, <1>16 DEF Y!Next

(* When a run asks the model for the first time, it has been told of every *)
(* turn that had ended when it was announced, whoever else was offering    *)
(* that turn, and a run whose delivery failed does not ask                 *)
(* (family.go:115-139, notifications.go).                                  *)
THEOREM StartsInformedHolds == DeliveryBehaviour => []Y!StartsInformed
<1>1. Y!Init => DeliveryScanInv /\ DueInv /\ OwedInv
      BY DEF Y!Init, DeliveryScanInv, DueInv, OwedInv, Y!NoScan, Y!Ended
<1>2. Owed /\ [Y!Next]_(Y!deliveryVars) => Owed'
      BY DeliveryTypedStep, QueueStep, ScanStep, OwedStep DEF Owed
<1>3. Y!Init => Owed
      BY <1>1, DeliveryTypedInit, QueueInit DEF Owed
<1>4. Owed => Y!StartsInformed
      BY DEF Owed, DueInv, Y!StartsInformed
<1>. QED BY <1>2, <1>3, <1>4, PTL DEF DeliveryBehaviour

-----------------------------------------------------------------------------
(* The rest of the types: a turn that ended is one of the task's, and what *)
(* Receive looks at is one of the results at hand.                         *)
DeliveryBounds == MaxTurns \in Nat /\ MaxRuns \in Nat /\ MaxFaults \in Nat

DeliveryRestTyped ==
  /\ turn \in [Tasks -> 0..MaxTurns]
  /\ \A t \in Tasks : running[t] => turn[t] > 0
  /\ tracked \subseteq Y!Results
  /\ loop \in [at : {"scan", "sleep"}, retryOnly : BOOLEAN]
  /\ scan.at = "queue" => scan.todo # {}
  /\ confirmed \subseteq Y!Results /\ inbox \subseteq Y!Results
  /\ runNo \in 0..MaxRuns /\ faults \in 0..MaxFaults

LEMMA FirstIs == ASSUME DeliveryTyped, scan.todo # {} PROVE Y!First \in scan.todo
<1> DEFINE T == {n \in Nat : \E r \in scan.todo : r[2] = n}
           R == OpToRel(<, Nat)
<1>1. \A r \in scan.todo : r[2] \in Nat
      BY DEF DeliveryTyped, ScanTyped, Scans, Y!Results
<1>2. T \subseteq Nat /\ T # {}
      BY <1>1
<1>3. IsWellFoundedOn(R, Nat)
      BY NatLessThanWellFounded
<1>4. \E x \in T : \A y \in T : <<y, x>> \notin R
      BY ONLY <1>2, <1>3, WFMin
<1>5. PICK n \in T : \A y \in T : <<y, n>> \notin R
      BY <1>4
<1>6. \A x, y \in Nat : <<y, x>> \in R <=> y < x
      BY DEF OpToRel
<1>7. PICK r \in scan.todo : r[2] = n
      BY <1>5
<1>8. \A q \in scan.todo : q[2] \in T /\ ~(q[2] < n)
      BY <1>1, <1>5, <1>6
<1>9. \A q \in scan.todo : r[2] <= q[2]
      BY <1>1, <1>7, <1>8
<1>. QED BY <1>9 DEF Y!First

LEMMA DeliveryRestInit == ASSUME DeliveryBounds PROVE Y!Init => DeliveryRestTyped
<1> SUFFICES ASSUME Y!Init PROVE DeliveryRestTyped
    OBVIOUS
<1>. QED BY DEF Y!Init, DeliveryRestTyped, DeliveryBounds, Y!NoScan

LEMMA DeliveryRestStep ==
  ASSUME DeliveryBounds, DeliveryTyped, DeliveryRestTyped, [Y!Next]_(Y!deliveryVars)
  PROVE  DeliveryRestTyped'
<1> USE DEF DeliveryRestTyped, DeliveryBounds, Y!childVars, Y!scanVars, Y!waitVars, Y!parentVars
<1>1. CASE UNCHANGED Y!deliveryVars
      BY <1>1 DEF Y!deliveryVars
<1>2. ASSUME NEW t \in Tasks, Y!ChildStart(t) \/ Y!ChildEnd(t) PROVE DeliveryRestTyped'
  <2>1. turn' \in [Tasks -> 0..MaxTurns]
        BY <1>2 DEF Y!ChildStart, Y!ChildEnd
  <2>2. \A s \in Tasks : running'[s] => turn'[s] > 0
        BY <1>2 DEF Y!ChildStart, Y!ChildEnd, DeliveryTyped
  <2>3. tracked' \subseteq Y!Results
    <3>1. CASE Y!ChildEnd(t)
      <4>1. turn[t] \in 1..MaxTurns
            BY <3>1 DEF Y!ChildEnd
      <4>. QED BY <3>1, <4>1 DEF Y!ChildEnd, Y!Results
    <3>. QED BY <1>2, <3>1 DEF Y!ChildStart
  <2>. QED BY <1>2, <2>1, <2>2, <2>3 DEF Y!ChildStart, Y!ChildEnd
<1>3. ASSUME NEW t \in Tasks, Y!Project(t) PROVE DeliveryRestTyped'
  <2>1. scan'.at = "queue" => scan'.todo # {}
        BY <1>3 DEF Y!Project, DeliveryTyped, ScanTyped, Scans
  <2>. QED BY <1>3, <2>1 DEF Y!Project
<1>4. ASSUME NEW r \in tracked, Y!Signal(r) PROVE DeliveryRestTyped'
      BY <1>4 DEF Y!Signal
<1>5. CASE Y!LoopWake
  <2>1. \A b \in BOOLEAN :
          [at |-> "scan", retryOnly |-> b] \in [at : {"scan", "sleep"}, retryOnly : BOOLEAN]
        OBVIOUS
  <2>2. /\ \/ loop' = [at |-> "scan", retryOnly |-> FALSE]
           \/ loop' = [at |-> "scan", retryOnly |-> TRUE]
        /\ UNCHANGED <<Y!childVars, scan, retry, confirmed, Y!parentVars, faults>>
        BY <1>5 DEF Y!LoopWake
  <2>3. loop' \in [at : {"scan", "sleep"}, retryOnly : BOOLEAN]
        BY <2>1, <2>2
  <2>. QED BY <2>2, <2>3
<1>6. ASSUME NEW by \in {"loop", "start", "wait"}, Y!ScanBegin(by) PROVE DeliveryRestTyped'
  <2>1. scan'.at = "pick"
        BY <1>6 DEF Y!ScanBegin, Y!NoScan
  <2>. QED BY <1>6, <2>1 DEF Y!ScanBegin
<1>7. CASE Y!Look
  <2>1. Y!First \in Y!Results
        BY <1>7, FirstIs DEF Y!Look, DeliveryTyped, ScanTyped, Scans
  <2>2. confirmed' \subseteq Y!Results
        BY <1>7, <2>1 DEF Y!Look
  <2>3. scan'.at = "queue" => scan'.todo # {}
        BY <1>7 DEF Y!Look, Y!Told, Y!Again, DeliveryTyped, ScanTyped, Scans
  <2>. QED BY <1>7, <2>2, <2>3 DEF Y!Look
<1>8. CASE Y!Queue
  <2>1. Y!First \in Y!Results
        BY <1>8, FirstIs DEF Y!Queue, DeliveryTyped, ScanTyped, Scans
  <2>2. confirmed' \subseteq Y!Results /\ inbox' \subseteq Y!Results
        BY <1>8, <2>1 DEF Y!Queue, Y!QueuedIs
  <2>3. Y!Told(Y!First) \/ Y!Again(Y!First)
        BY <1>8 DEF Y!Queue, Y!QueuedIs
  <2>4. scan'.at = "look"
        BY <2>3 DEF Y!Told, Y!Again, DeliveryTyped, ScanTyped, Scans
  <2>. QED BY <1>8, <2>2, <2>4 DEF Y!Queue
<1>9. CASE Y!TaskDone
  <2>1. scan'.at = "pick"
        BY <1>9 DEF Y!TaskDone, DeliveryTyped, ScanTyped, Scans
  <2>. QED BY <1>9, <2>1 DEF Y!TaskDone
<1>10. CASE Y!ScanEnd
      BY <1>10 DEF Y!ScanEnd, Y!NoScan
<1>11. ASSUME NEW t \in Tasks, NEW seen \in {{}, Y!EndedOf(t)}, Y!WaitStart(t, seen)
       PROVE  DeliveryRestTyped'
      BY <1>11 DEF Y!WaitStart
<1>12. CASE Y!WaitLook \/ Y!Sleep \/ Y!WaitWake \/ Y!WaitInput \/ Y!WaitTimeout \/ Y!WaitReturn
      BY <1>12 DEF Y!WaitLook, Y!Sleep, Y!WaitWake, Y!WaitInput, Y!WaitTimeout, Y!WaitReturn
<1>13. CASE Y!RunStart \/ Y!StartStopped
      BY <1>13 DEF Y!RunStart, Y!StartStopped
<1>14. CASE Y!Checkpoint \/ Y!FinalCheckpoint \/ Y!RunEnd
      BY <1>14 DEF Y!Checkpoint, Y!FinalCheckpoint, Y!RunEnd, Y!Commit
<1>15. CASE Y!CheckpointFails
      BY <1>15 DEF Y!CheckpointFails
<1>16. CASE Y!Restart
      BY <1>16 DEF Y!Restart, Y!NoScan
<1>17. ASSUME NEW family \in BOOLEAN, Y!Stop(family) PROVE DeliveryRestTyped'
      BY <1>17 DEF Y!Stop
<1>. QED
    BY <1>1, <1>2, <1>3, <1>4, <1>5, <1>6, <1>7, <1>8, <1>9, <1>10, <1>11, <1>12, <1>13,
       <1>14, <1>15, <1>16, <1>17 DEF Y!Next

(* The turns, the scan, the wait, the run and the queue have the types     *)
(* that Delivery gives them: only results of turns that ended are signalled, *)
(* queued and confirmed.                                                   *)
THEOREM DeliveryTypeCorrect == ASSUME DeliveryBounds PROVE DeliveryBehaviour => []Y!TypeOK
<1>1. DeliveryTyped /\ DeliveryRestTyped => Y!TypeOK
      BY DEF DeliveryTyped, ScanTyped, WaitTyped, Scans, WaitStates, DeliveryRestTyped,
         Y!TypeOK
<1>2. DeliveryBounds /\ DeliveryTyped /\ DeliveryRestTyped /\ [Y!Next]_(Y!deliveryVars) => DeliveryRestTyped'
      BY DeliveryRestStep
<1>3. DeliveryTyped /\ DeliveryRestTyped /\ [Y!Next]_(Y!deliveryVars) => DeliveryRestTyped'
      BY <1>2
<1>. QED BY <1>1, <1>3, DeliveryTypedInit, DeliveryTypedStep, DeliveryRestInit, PTL DEF
            DeliveryBehaviour

-----------------------------------------------------------------------------
(* HookSettings                                                             *)

H == INSTANCE HookSettings

-----------------------------------------------------------------------------
(* The inductive invariant, in named parts.                                *)

Locked == {"global", "project", "trust", "written", "read"}

PageRecords == [at : Locked \cup {"none", "open", "over"}, ws : Workspaces \cup {None},
                seen : H!Contents, new : H!Contents, copy : [Workspaces -> H!Contents]]
CheckRecords == [at : {"none", "read", "done"}, ws : Workspaces \cup {None},
                 content : H!Contents, ran : H!Contents]

ForgetRecords == [at : {"none", "read"}, ws : Workspaces \cup {None}, left : SUBSET Workspaces,
                  copy : [Workspaces -> H!Contents]]

HookTyped ==
  /\ global \in H!Contents
  /\ project \in [Workspaces -> H!Contents] /\ trust \in [Workspaces -> H!Contents]
  /\ page \in [Pages -> PageRecords]
  /\ check \in [Checks -> CheckRecords] /\ forget \in ForgetRecords
  /\ confirmed \in [Workspaces -> SUBSET Versions]
  /\ kept \in [Workspaces -> H!Contents \cup {H!Unsure}] /\ mixed \subseteq Workspaces

(* Between its lock and its unlock a page holds Service.mu, and the global *)
(* settings are still the ones it compared.                                *)
LockInv == \A p \in Pages :
  /\ page[p].at \in Locked => mu = p
  /\ page[p].at \in {"project", "trust", "read"} => page[p].ws \in Workspaces
  /\ page[p].at = "project" => page[p].new \in Versions
  /\ page[p].at = "written" => global = page[p].seen

(* The projects of which it is known what the list says. *)
Sure == {w \in Workspaces \ mixed : kept[w] # H!Unsure}

(* Of those, the lists that a page and a deletion have read, and are about *)
(* to write with one version changed, still say what the file says.        *)
CopyInv ==
  /\ \A p \in Pages : page[p].at = "read" => \A w \in Sure : page[p].copy[w] = trust[w]
  /\ forget.at = "read" => /\ forget.ws \in Workspaces
                           /\ \A w \in Sure \ {forget.ws} : forget.copy[w] = trust[w]

(* A trusted version, and one that is about to be, was confirmed by a      *)
(* person for this project.                                                *)
AllConfirmed(versions) == \A w \in Workspaces : versions[w] # None => versions[w] \in confirmed[w]

TrustInv ==
  /\ AllConfirmed(trust)
  /\ forget.at = "read" => AllConfirmed(forget.copy)
  /\ \A p \in Pages : page[p].at = "read" => AllConfirmed(page[p].copy)
  /\ \A p \in Pages : page[p].at \in {"trust", "read"} /\ page[p].new # None
                      => page[p].new \in confirmed[page[p].ws]

(* A call looks the trust up for one project, and runs what it found there. *)
CheckInv == \A c \in Checks :
  /\ check[c].at = "read" => check[c].ws \in Workspaces
  /\ check[c].ran # None => check[c].ws \in Workspaces /\ check[c].ran \in confirmed[check[c].ws]

(* What a page was told to be confirmed is in the file. *)
KeptInv == \A w \in Sure : trust[w] = kept[w]

HookIInv == HookTyped /\ LockInv /\ CopyInv /\ TrustInv /\ CheckInv /\ KeptInv

-----------------------------------------------------------------------------
LEMMA HookRecords ==
  /\ H!NoPage \in PageRecords /\ H!NoPage.at = "none"
  /\ [H!NoPage EXCEPT !.at = "over"] \in PageRecords
  /\ [H!NoPage EXCEPT !.at = "over"].at = "over"
  /\ H!NoCheck \in CheckRecords /\ H!NoCheck.at = "none" /\ H!NoCheck.ran = None
  /\ H!NoForget \in ForgetRecords /\ H!NoForget.at = "none" /\ H!NoForget.left = {}
BY DEF H!NoPage, PageRecords, H!NoCheck, CheckRecords, H!NoForget, ForgetRecords,
     H!Contents,
   Locked

(* A page that is through holds nothing. *)
LEMMA OverStep ==
  ASSUME HookTyped, NEW p \in Pages, H!Over(p)
  PROVE  /\ page' \in [Pages -> PageRecords]
         /\ page'[p].at = "over"
         /\ \A q \in Pages \ {p} : page'[q] = page[q]
BY HookRecords DEF HookTyped, H!Over

(* What a step of a page changes, when it changes only that page and no    *)
(* file.                                                                   *)
LEMMA PageStep ==
  ASSUME None \notin Pages \cup Workspaces, HookIInv, NEW p \in Pages,
         page' \in [Pages -> PageRecords], mu' \in {p, None}, mu \in {p, None},
         \A q \in Pages \ {p} : page'[q] = page[q],
         UNCHANGED <<H!fileVars, check, forget, H!history>>,
         page'[p].at \in Locked => mu' = p,
         page'[p].at \in {"project", "trust", "read"} => page'[p].ws \in Workspaces,
         page'[p].at = "project" => page'[p].new \in Versions,
         page'[p].at = "read" => page'[p].copy = trust,
         page'[p].at = "written" => global = page'[p].seen,
         page'[p].at \in {"trust", "read"} /\ page'[p].new # None
           => page'[p].new \in confirmed[page'[p].ws]
  PROVE  HookIInv'
BY DEF HookIInv, HookTyped, LockInv, CopyInv, Sure, TrustInv, AllConfirmed, CheckInv,
     KeptInv, H!fileVars, H!history

(* Every step keeps the invariant. *)
LEMMA HookIInvStep ==
  ASSUME None \notin Pages \cup Workspaces, HookIInv, [H!Next]_(H!hookVars) PROVE HookIInv'
<1> USE DEF HookIInv
<1>1. CASE UNCHANGED H!hookVars
      BY <1>1 DEF H!hookVars, H!fileVars, H!history, HookTyped, LockInv, CopyInv, Sure,
           TrustInv,
         AllConfirmed, CheckInv, KeptInv
<1>2. ASSUME NEW p \in Pages, NEW w \in Workspaces \cup {None}, H!View(p, w) PROVE HookIInv'
  <2>1. UNCHANGED <<H!fileVars, mu, check, forget, H!history>>
        BY <1>2 DEF H!View
  <2>2. page' \in [Pages -> PageRecords] /\ page'[p].at = "open"
        /\ \A q \in Pages \ {p} : page'[q] = page[q]
        BY <1>2, HookRecords DEF H!View, HookTyped, PageRecords
  <2>. QED BY <2>1, <2>2
       DEF HookTyped, LockInv, CopyInv, Sure, TrustInv, AllConfirmed, CheckInv, KeptInv,
            H!fileVars, H!history, Locked
<1>3. ASSUME NEW p \in Pages, NEW v \in Versions, H!Save(p, v) PROVE HookIInv'
  <2>1. UNCHANGED <<H!fileVars, check, forget, H!history>> /\ mu = None /\ mu' = p
        BY <1>3 DEF H!Save, H!Free
  <2>2. PICK place \in {"global", "project"} :
          /\ page' = [page EXCEPT ![p] = [page[p] EXCEPT !.at = place, !.new = v]]
          /\ place = "project" => page[p].ws # None
        BY <1>3 DEF H!Save
  <2> DEFINE r == [page[p] EXCEPT !.at = place, !.new = v]
  <2>3. r \in PageRecords /\ r.at = place /\ r.ws = page[p].ws /\ r.new = v
    <3>1. page[p] \in PageRecords /\ place \in Locked /\ v \in H!Contents
          BY DEF HookTyped, Locked, H!Contents
    <3>. QED BY <3>1 DEF PageRecords
  <2>4. page[p].ws \in Workspaces \cup {None}
        BY DEF HookTyped, PageRecords
  <2>5. page' = [page EXCEPT ![p] = r]
        BY <2>2
  <2> HIDE DEF r
  <2>6. /\ page' \in [Pages -> PageRecords] /\ page'[p] = r
        /\ \A q \in Pages \ {p} : page'[q] = page[q]
        BY <2>3, <2>5 DEF HookTyped
  <2>. QED BY <2>1, <2>2, <2>3, <2>4, <2>6, PageStep
<1>4. ASSUME NEW p \in Pages, H!SaveGlobal(p) PROVE HookIInv'
  <2>1. UNCHANGED <<H!fileVars, check, forget, H!history>> /\ mu = p /\ mu' \in {p, None}
        BY <1>4 DEF H!SaveGlobal, LockInv, Locked, H!fileVars
  <2>2. CASE H!Over(p) /\ mu' = None
        BY <2>1, <2>2, OverStep, PageStep DEF Locked
  <2>3. CASE H!Unchanged(p) /\ page' = [page EXCEPT ![p].at = "written"] /\ UNCHANGED mu
    <3>1. /\ page' \in [Pages -> PageRecords] /\ page'[p].at = "written"
          /\ page'[p].seen = page[p].seen
          /\ \A q \in Pages \ {p} : page'[q] = page[q]
      <4> DEFINE r == [page[p] EXCEPT !.at = "written"]
      <4>1. page' = [page EXCEPT ![p] = r] /\ page[p] \in PageRecords
            BY <2>3 DEF HookTyped
      <4>2. r \in PageRecords /\ r.at = "written" /\ r.seen = page[p].seen /\ r.ws = page[p].ws
            /\ r.new = page[p].new
            BY <4>1 DEF PageRecords, Locked
      <4> HIDE DEF r
      <4>. QED BY <4>1, <4>2 DEF HookTyped
    <3>. QED BY <2>1, <2>3, <3>1, PageStep DEF H!Unchanged
  <2>. QED BY <1>4, <2>2, <2>3 DEF H!SaveGlobal
<1>5. ASSUME NEW p \in Pages, H!WriteGlobal(p) PROVE HookIInv'
  <2>1. UNCHANGED <<project, trust, check, forget, H!history>> /\ mu = p /\ mu' = None
        BY <1>5 DEF H!WriteGlobal, LockInv, Locked
  <2>2. global' \in H!Contents
        BY <1>5 DEF H!WriteGlobal, HookTyped, PageRecords
  <2>3. \A q \in Pages \ {p} : page[q].at \notin Locked
        BY <2>1 DEF LockInv
  <2>. QED BY <1>5, <2>1, <2>2, <2>3, OverStep
       DEF H!WriteGlobal, HookTyped, LockInv, CopyInv, Sure, TrustInv, AllConfirmed,
            CheckInv, KeptInv, H!history, Locked
<1>6. ASSUME NEW p \in Pages, H!SaveProject(p) PROVE HookIInv'
  <2> DEFINE w == page[p].ws
  <2>1. UNCHANGED <<global, trust, kept, mixed, check, forget>> /\ mu = p /\ w \in Workspaces
        BY <1>6 DEF H!SaveProject, LockInv, Locked, H!history
  <2>2. CASE H!Over(p) /\ mu' = None /\ UNCHANGED <<project, H!history>>
        BY <2>1, <2>2, OverStep, PageStep DEF Locked, H!fileVars, H!history
  <2>3. CASE /\ project' = [project EXCEPT ![w] = page[p].new]
             /\ confirmed' = [confirmed EXCEPT ![w] = @ \cup {page[p].new}]
             /\ page' = [page EXCEPT ![p].at = "trust"]
             /\ UNCHANGED mu
    <3>1. /\ page' \in [Pages -> PageRecords] /\ page'[p].at = "trust"
          /\ page'[p].ws = w /\ page'[p].new = page[p].new
          /\ \A q \in Pages \ {p} : page'[q] = page[q]
      <4> DEFINE r == [page[p] EXCEPT !.at = "trust"]
      <4>1. page' = [page EXCEPT ![p] = r] /\ page[p] \in PageRecords
            BY <2>3 DEF HookTyped
      <4>2. r \in PageRecords /\ r.at = "trust" /\ r.seen = page[p].seen /\ r.ws = page[p].ws
            /\ r.new = page[p].new
            BY <4>1 DEF PageRecords, Locked
      <4> HIDE DEF r
      <4>. QED BY <4>1, <4>2 DEF HookTyped
    <3>2. page[p].new \in Versions
          BY <1>6 DEF H!SaveProject, LockInv
    <3>3. /\ project' \in [Workspaces -> H!Contents]
          /\ confirmed' \in [Workspaces -> SUBSET Versions]
          /\ page[p].new \in confirmed'[w]
          /\ \A x \in Workspaces : confirmed[x] \subseteq confirmed'[x]
          BY <2>1, <2>3, <3>2 DEF HookTyped, H!Contents
    <3>4. \A q \in Pages \ {p} : page[q].at \notin Locked
          BY <2>1 DEF LockInv
    <3>5. HookTyped' /\ LockInv'
          BY <2>1, <2>3, <3>1, <3>3, <3>4 DEF HookTyped, LockInv, Locked
    <3>6. CopyInv' /\ TrustInv' /\ CheckInv' /\ KeptInv'
          BY <2>1, <2>3, <3>1, <3>3, <3>4
          DEF CopyInv, Sure, TrustInv, AllConfirmed, CheckInv, KeptInv, Locked
    <3>. QED BY <3>5, <3>6
  <2>. QED BY <1>6, <2>2, <2>3 DEF H!SaveProject
<1>7. ASSUME NEW p \in Pages, H!Trust(p) PROVE HookIInv'
  <2> DEFINE w == page[p].ws
             found == project[w]
  <2>1. UNCHANGED <<H!fileVars, check, forget, kept, mixed>> /\ w \in Workspaces /\ mu = None
        BY <1>7 DEF H!Trust, H!Free, HookTyped, PageRecords
  <2>2. /\ \A x \in Workspaces : confirmed[x] \subseteq confirmed'[x]
        /\ confirmed' \in [Workspaces -> SUBSET Versions]
        BY <1>7, <2>1 DEF H!Trust, HookTyped, PageRecords, H!Contents
  <2>3. CASE H!Over(p) /\ UNCHANGED mu
        BY <2>1, <2>2, <2>3, OverStep
        DEF HookTyped, LockInv, CopyInv, Sure, TrustInv, AllConfirmed, CheckInv, KeptInv,
             H!fileVars, Locked
  <2>4. CASE /\ found # None /\ H!Confirms(p) /\ mu' = p
             /\ page' = [page EXCEPT ![p].at = "trust", ![p].new = found]
    <3>1. /\ page' \in [Pages -> PageRecords] /\ page'[p].at = "trust"
          /\ page'[p].ws = w /\ page'[p].new = found
          /\ \A q \in Pages \ {p} : page'[q] = page[q]
      <4> DEFINE r == [page[p] EXCEPT !.at = "trust", !.new = found]
      <4>1. /\ page' = [page EXCEPT ![p] = r] /\ page[p] \in PageRecords /\ found \in H!Contents
            BY <2>1, <2>4 DEF HookTyped
      <4>2. r \in PageRecords /\ r.at = "trust" /\ r.ws = w /\ r.new = found
            BY <4>1 DEF PageRecords, Locked
      <4> HIDE DEF r
      <4>. QED BY <4>1, <4>2 DEF HookTyped
    <3>2. found \in confirmed'[w]
          BY <1>7, <2>1, <2>4 DEF H!Trust, H!Confirms, HookTyped
    <3>3. \A q \in Pages \ {p} : page[q].at \notin Locked
          BY <2>1 DEF LockInv
    <3>. QED BY <2>1, <2>2, <2>4, <3>1, <3>2, <3>3
         DEF HookTyped, LockInv, CopyInv, Sure, TrustInv, AllConfirmed, CheckInv,
              KeptInv, H!fileVars, Locked
  <2>. QED BY <1>7, <2>3, <2>4 DEF H!Trust
<1>8. ASSUME NEW p \in Pages, H!ReadTrust(p) PROVE HookIInv'
  <2>1. UNCHANGED <<H!fileVars, mu, check, forget, H!history>> /\ mu = p
        BY <1>8 DEF H!ReadTrust, LockInv, Locked
  <2>2. /\ page' \in [Pages -> PageRecords] /\ page'[p].at = "read"
        /\ page'[p].ws = page[p].ws /\ page'[p].new = page[p].new /\ page'[p].copy = trust
        /\ \A q \in Pages \ {p} : page'[q] = page[q]
    <3> DEFINE r == [page[p] EXCEPT !.at = "read", !.copy = trust]
    <3>1. /\ page' = [page EXCEPT ![p] = r] /\ page[p] \in PageRecords
          /\ trust \in [Workspaces -> H!Contents]
          BY <1>8 DEF H!ReadTrust, HookTyped
    <3>2. /\ r \in PageRecords /\ r.at = "read" /\ r.ws = page[p].ws
          /\ r.new = page[p].new /\ r.copy = trust
          BY <3>1 DEF PageRecords, Locked
    <3>. HIDE DEF r
    <3>. QED BY <3>1, <3>2 DEF HookTyped
  <2>. QED BY <1>8, <2>1, <2>2, PageStep DEF H!ReadTrust, LockInv, TrustInv
<1>9. ASSUME NEW p \in Pages, H!WriteTrust(p) \/ H!WriteFails(p) PROVE HookIInv'
  <2> DEFINE w == page[p].ws
  <2>1. UNCHANGED <<check, forget, confirmed>> /\ mu = p /\ mu' = None /\ H!Over(p)
        BY <1>9 DEF H!WriteTrust, H!WriteFails, LockInv, Locked
  <2>2. \A q \in Pages \ {p} : page[q].at \notin Locked
        BY <2>1 DEF LockInv
  <2>3. /\ page' \in [Pages -> PageRecords] /\ \A q \in Pages : page'[q].at \notin Locked
        BY <2>1, <2>2, OverStep DEF Locked
  <2>4. page[p].new \in H!Contents /\ w \in Workspaces \cup {None}
        BY DEF HookTyped, PageRecords
  <2>5. CASE UNCHANGED <<trust, kept, mixed>>
    <3>1. global' \in H!Contents /\ project' \in [Workspaces -> H!Contents]
          BY <1>9, <2>4, <2>5 DEF H!WriteTrust, H!WriteFails, HookTyped
    <3>. QED BY <2>1, <2>3, <2>5, <3>1
         DEF HookTyped, LockInv, CopyInv, Sure, TrustInv, AllConfirmed, CheckInv,
              KeptInv, Locked
  <2>6. CASE page[p].at = "read"
    <3> DEFINE listed == [page[p].copy EXCEPT ![w] = page[p].new]
    <3>1. /\ w \in Workspaces /\ page[p].copy \in [Workspaces -> H!Contents]
          /\ UNCHANGED <<global, project>>
          BY <1>9, <2>6 DEF H!WriteTrust, H!WriteFails, LockInv, HookTyped, PageRecords
    <3>2. /\ listed \in [Workspaces -> H!Contents] /\ listed[w] = page[p].new
          /\ AllConfirmed(listed)
          /\ \A x \in Sure \ {w} : listed[x] = trust[x]
          BY <2>4, <2>6, <3>1 DEF CopyInv, TrustInv, AllConfirmed, Sure
    <3>3. \/ /\ trust' = listed /\ kept' = [kept EXCEPT ![w] = page[p].new]
             /\ mixed' = (mixed \ {w}) \cup (IF forget.at = "read" THEN {w} ELSE {})
          \/ /\ trust' \in {trust, listed} /\ kept' = [kept EXCEPT ![w] = H!Unsure]
             /\ mixed' = mixed
          BY <1>9, <2>6, <3>1 DEF H!WriteTrust, H!WriteFails
    <3> HIDE DEF listed, w
    <3>4. /\ trust' \in [Workspaces -> H!Contents] /\ AllConfirmed(trust')
          /\ kept' \in [Workspaces -> H!Contents \cup {H!Unsure}] /\ mixed' \subseteq Workspaces
          BY <2>4, <3>1, <3>2, <3>3 DEF HookTyped, TrustInv
    <3>5. \A x \in Workspaces \ {w} : kept'[x] = kept[x] /\ (x \in mixed' <=> x \in mixed)
          BY <3>1, <3>3 DEF HookTyped
    <3>6. \A x \in Sure' \ {w} : x \in Sure /\ trust'[x] = trust[x]
          BY <3>2, <3>3, <3>5 DEF Sure
    <3>7. w \in Sure' => forget.at # "read" /\ trust'[w] = kept'[w]
          BY <3>1, <3>2, <3>3 DEF Sure, HookTyped
    <3>8. KeptInv'
          BY <3>5, <3>6, <3>7 DEF KeptInv, Sure
    <3>9. CopyInv'
          BY <2>1, <2>3, <3>6, <3>7 DEF CopyInv, Locked
    <3>10. HookTyped' /\ LockInv'
          BY <2>1, <2>3, <3>1, <3>4 DEF HookTyped, LockInv, Locked
    <3>11. TrustInv' /\ CheckInv'
          BY <2>1, <2>3, <3>4 DEF TrustInv, AllConfirmed, CheckInv, Locked
    <3>. QED BY <3>8, <3>9, <3>10, <3>11
  <2>. QED BY <1>9, <2>5, <2>6 DEF H!WriteTrust, H!WriteFails
<1>10. ASSUME NEW c \in Checks, NEW w \in Workspaces, H!ReadProject(c, w) PROVE HookIInv'
  <2>1. check' \in [Checks -> CheckRecords] /\ CheckInv'
        BY <1>10, HookRecords DEF H!ReadProject, HookTyped, CheckRecords, CheckInv,
           H!NoCheck, H!history
  <2>. QED BY <1>10, <2>1 DEF H!ReadProject, HookTyped, LockInv, CopyInv, Sure, TrustInv,
       AllConfirmed, KeptInv,
              H!fileVars, H!history
<1>11. ASSUME NEW c \in Checks, H!ChecksTrust(c) PROVE HookIInv'
  <2>1. PICK ran \in H!Contents :
          /\ check' = [check EXCEPT ![c].at = "done", ![c].ran = ran]
          /\ ran # None => ran = trust[check[c].ws]
        BY <1>11 DEF H!ChecksTrust, H!Runs, HookTyped, CheckRecords, H!Contents
  <2>2. check[c].ws \in Workspaces /\ UNCHANGED <<H!fileVars, mu, page, forget, H!history>>
        BY <1>11 DEF H!ChecksTrust, CheckInv
  <2>3. check' \in [Checks -> CheckRecords] /\ CheckInv'
    <3> DEFINE r == [check[c] EXCEPT !.at = "done", !.ran = ran]
    <3>1. check' = [check EXCEPT ![c] = r] /\ check[c] \in CheckRecords
          BY <2>1 DEF HookTyped
    <3>2. r \in CheckRecords /\ r.at = "done" /\ r.ran = ran /\ r.ws = check[c].ws
          BY <3>1 DEF CheckRecords
    <3>. HIDE DEF r
    <3>3. ran # None => ran \in confirmed[check[c].ws]
          BY <2>1, <2>2 DEF TrustInv, AllConfirmed
    <3>. QED BY <2>2, <3>1, <3>2, <3>3 DEF HookTyped, CheckInv, H!history
  <2>. QED BY <2>2, <2>3 DEF HookTyped, LockInv, CopyInv, Sure, TrustInv, AllConfirmed,
       KeptInv, H!fileVars, H!history
<1>12. ASSUME NEW c \in Checks, H!Done(c) PROVE HookIInv'
  <2>1. check' \in [Checks -> CheckRecords] /\ CheckInv'
        BY <1>12, HookRecords DEF H!Done, HookTyped, CheckInv, H!history
  <2>. QED BY <1>12, <2>1 DEF H!Done, HookTyped, LockInv, CopyInv, Sure, TrustInv,
       AllConfirmed, KeptInv, H!fileVars,
              H!history
<1>13. ASSUME NEW w \in Workspaces, NEW v \in H!Contents, H!Edit(w, v) PROVE HookIInv'
      BY <1>13 DEF H!Edit, HookTyped, LockInv, CopyInv, Sure, TrustInv, AllConfirmed,
           CheckInv, KeptInv, H!history
<1>14. ASSUME NEW w \in Workspaces, H!ForgetReads(w) PROVE HookIInv'
  <2>1. /\ UNCHANGED <<H!fileVars, mu, page, check, H!history>>
        /\ forget' \in ForgetRecords /\ forget'.at = "read" /\ forget'.ws = w
        /\ forget'.copy = trust
        BY <1>14 DEF H!ForgetReads, HookTyped, ForgetRecords
  <2>. QED BY <2>1 DEF HookTyped, LockInv, CopyInv, Sure, TrustInv, AllConfirmed, CheckInv,
              KeptInv, H!fileVars, H!history
<1>15. CASE H!ForgetWrites \/ H!ForgetFails
  <2> DEFINE w == forget.ws
  <2>1. /\ UNCHANGED <<global, project, mu, page, check, confirmed>> /\ forget.at = "read"
        /\ w \in Workspaces /\ forget.copy \in [Workspaces -> H!Contents]
        /\ forget.left \subseteq Workspaces
        BY <1>15 DEF H!ForgetWrites, H!ForgetFails, CopyInv, HookTyped, ForgetRecords
  <2>2. /\ H!Without \in [Workspaces -> H!Contents] /\ H!Without[w] = None
        /\ AllConfirmed(H!Without)
        /\ \A x \in Sure \ {w} : H!Without[x] = trust[x]
        BY <2>1 DEF H!Without, H!Contents, CopyInv, TrustInv, AllConfirmed, Sure
  <2>3. /\ forget' \in ForgetRecords /\ forget'.at = "none"
        BY <1>15, <2>1, HookRecords DEF H!ForgetWrites, H!ForgetFails, ForgetRecords
  <2>4. \/ /\ trust' = H!Without /\ kept' = [kept EXCEPT ![w] = None]
           /\ mixed' = (mixed \ {w}) \cup (IF H!Reading THEN {w} ELSE {})
        \/ /\ trust' \in {trust, H!Without} /\ kept' = [kept EXCEPT ![w] = H!Unsure]
           /\ mixed' = IF H!Reading THEN mixed \cup {w} ELSE mixed
        BY <1>15 DEF H!ForgetWrites, H!ForgetFails
  <2> HIDE DEF w
  <2>5. /\ trust' \in [Workspaces -> H!Contents] /\ AllConfirmed(trust')
        /\ kept' \in [Workspaces -> H!Contents \cup {H!Unsure}] /\ mixed' \subseteq Workspaces
        BY <2>1, <2>2, <2>4 DEF HookTyped, TrustInv, H!Contents
  <2>6. \A x \in Workspaces \ {w} : kept'[x] = kept[x] /\ (x \in mixed' <=> x \in mixed)
        BY <2>1, <2>4 DEF HookTyped
  <2>7. \A x \in Sure' \ {w} : x \in Sure /\ trust'[x] = trust[x]
        BY <2>2, <2>4, <2>6 DEF Sure
  <2>8. w \in Sure' => ~H!Reading /\ trust'[w] = kept'[w]
        BY <2>1, <2>2, <2>4 DEF Sure, HookTyped
  <2>9. KeptInv'
        BY <2>6, <2>7, <2>8 DEF KeptInv, Sure
  <2>10. CopyInv'
        BY <2>1, <2>3, <2>7, <2>8 DEF CopyInv, H!Reading
  <2>11. HookTyped' /\ LockInv'
        BY <2>1, <2>3, <2>5 DEF HookTyped, LockInv
  <2>12. TrustInv' /\ CheckInv'
        BY <2>1, <2>3, <2>5 DEF TrustInv, AllConfirmed, CheckInv
  <2>. QED BY <2>9, <2>10, <2>11, <2>12
<1>16. CASE H!Restart
  <2> DEFINE deleted == forget.left \cup ({forget.ws} \ {None})
  <2>1. /\ page' \in [Pages -> PageRecords] /\ \A p \in Pages : page'[p].at \notin Locked
        /\ check' = [c \in Checks |-> H!NoCheck] /\ forget' = H!NoForget
        /\ UNCHANGED <<global, project, confirmed>>
        BY <1>16, HookRecords DEF H!Restart, HookTyped, Locked
  <2>2. /\ trust' = [w \in Workspaces |-> IF w \in deleted THEN None ELSE trust[w]]
        /\ kept' = [w \in Workspaces |-> IF w \in deleted THEN None ELSE kept[w]]
        /\ mixed' = mixed \ deleted
        BY <1>16 DEF H!Restart
  <2> HIDE DEF deleted
  <2>3. HookTyped'
        BY <2>1, <2>2, HookRecords DEF HookTyped, H!Contents
  <2>4. LockInv' /\ CopyInv' /\ CheckInv'
        BY <2>1, HookRecords DEF LockInv, CopyInv, CheckInv, Locked
  <2>5. TrustInv'
        BY <2>1, <2>2, HookRecords DEF TrustInv, AllConfirmed, Locked
  <2>6. KeptInv'
        BY <2>2 DEF KeptInv, Sure
  <2>. QED BY <2>3, <2>4, <2>5, <2>6
<1>. QED
    BY <1>1, <1>2, <1>3, <1>4, <1>5, <1>6, <1>7, <1>8, <1>9, <1>10, <1>11, <1>12, <1>13,
       <1>14, <1>15, <1>16 DEF H!Next

LEMMA HookIInvInit == H!Init => HookIInv
BY HookRecords DEF H!Init, HookIInv, HookTyped, LockInv, CopyInv, Sure, TrustInv,
     AllConfirmed, CheckInv, KeptInv,
   H!Contents, Locked, H!NoPage

(* The hooks of a project that a tool call runs were saved or confirmed    *)
(* for that project, whoever edits the file before, while and after the    *)
(* call reads it (hooks/service.go:357-399).                               *)
THEOREM RunsConfirmedHolds ==
  ASSUME None \notin Pages \cup Workspaces PROVE H!Spec => []H!RunsConfirmed
<1>1. HookIInv /\ [H!Next]_(H!hookVars) => HookIInv'
      BY HookIInvStep
<1>2. HookIInv => H!RunsConfirmed
      BY DEF HookIInv, CheckInv, H!RunsConfirmed
<1>. QED BY <1>1, <1>2, HookIInvInit, PTL DEF H!Spec

(* A confirmation that succeeded stays until its project is deleted, if no *)
(* other change of the list was between its reading and its writing at     *)
(* that time: pages do not undo each other, though each writes the whole   *)
(* file, and a deletion undoes no more than what was confirmed meanwhile   *)
(* (hooks/service.go:32-57, 292-303, 321-341).                             *)
THEOREM ConfirmedStaysApartHolds ==
  ASSUME None \notin Pages \cup Workspaces PROVE H!Spec => []H!ConfirmedStaysApart
<1>1. HookIInv /\ [H!Next]_(H!hookVars) => HookIInv'
      BY HookIInvStep
<1>2. HookIInv => H!ConfirmedStaysApart
      BY DEF HookIInv, KeptInv, Sure, H!ConfirmedStaysApart
<1>. QED BY <1>1, <1>2, HookIInvInit, PTL DEF H!Spec

(* The global settings a page replaces are those it showed, whatever other *)
(* pages save meanwhile (hooks/service.go:275-283).                        *)
THEOREM NothingOverwrittenHolds ==
  ASSUME None \notin Pages \cup Workspaces PROVE H!Spec => []H!NothingOverwritten
<1>1. HookIInv /\ [H!Next]_(H!hookVars) => HookIInv'
      BY HookIInvStep
<1>2. HookIInv => H!NothingOverwritten
      BY DEF HookIInv, LockInv, H!NothingOverwritten
<1>. QED BY <1>1, <1>2, HookIInvInit, PTL DEF H!Spec

-----------------------------------------------------------------------------
(* The lock and the bounds. *)
HookRestTyped == /\ mu \in Pages \cup Checks \cup {None}
                 /\ edits \in 0..MaxEdits /\ hookFaults \in 0..MaxFaults

LEMMA HookRestStep ==
  ASSUME MaxEdits \in Nat, MaxFaults \in Nat, HookRestTyped, [H!Next]_(H!hookVars)
  PROVE  HookRestTyped'
<1> USE DEF HookRestTyped
<1>1. ASSUME NEW p \in Pages, \/ \E w \in Workspaces \cup {None} : H!View(p, w)
                              \/ \E v \in Versions : H!Save(p, v)
                              \/ H!SaveGlobal(p) \/ H!WriteGlobal(p) \/ H!SaveProject(p)
                              \/ H!Trust(p) \/ H!ReadTrust(p) \/ H!WriteTrust(p) \/ H!WriteFails(p)
      PROVE  HookRestTyped'
  <2>1. mu' \in Pages \cup Checks \cup {None}
        BY <1>1 DEF H!View, H!Save, H!SaveGlobal, H!WriteGlobal, H!SaveProject, H!Trust,
           H!ReadTrust, H!WriteTrust, H!WriteFails
  <2>2. UNCHANGED edits
        BY <1>1 DEF H!View, H!Save, H!SaveGlobal, H!WriteGlobal, H!SaveProject, H!Trust,
           H!ReadTrust, H!WriteTrust, H!WriteFails
  <2>3. hookFaults' \in 0..MaxFaults
    <3>1. UNCHANGED hookFaults \/ (hookFaults < MaxFaults /\ hookFaults' = hookFaults + 1)
          BY <1>1 DEF H!View, H!Save, H!SaveGlobal, H!WriteGlobal, H!SaveProject, H!Trust,
             H!ReadTrust, H!WriteTrust, H!WriteFails
    <3>. QED BY <3>1
  <2>. QED BY <2>1, <2>2, <2>3
<1>2. ASSUME NEW c \in Checks, \/ \E w \in Workspaces : H!ReadProject(c, w)
                               \/ H!ChecksTrust(c) \/ H!Done(c)
      PROVE  HookRestTyped'
      BY <1>2 DEF H!ReadProject, H!ChecksTrust, H!Done
<1>3. ASSUME NEW w \in Workspaces, NEW v \in H!Contents, H!Edit(w, v) PROVE HookRestTyped'
      BY <1>3 DEF H!Edit
<1>4. ASSUME NEW w \in Workspaces, H!ForgetReads(w) PROVE HookRestTyped'
      BY <1>4 DEF H!ForgetReads
<1>5. CASE H!ForgetWrites \/ H!ForgetFails
      BY <1>5 DEF H!ForgetWrites, H!ForgetFails
<1>6. CASE H!Restart \/ UNCHANGED H!hookVars
      BY <1>6 DEF H!Restart, H!hookVars
<1>. QED BY <1>1, <1>2, <1>3, <1>4, <1>5, <1>6 DEF H!Next

LEMMA HookRestInit == ASSUME MaxEdits \in Nat, MaxFaults \in Nat PROVE H!Init => HookRestTyped
BY DEF H!Init, HookRestTyped

(* The files, the pages and the calls have the types that HookSettings     *)
(* gives them.                                                             *)
THEOREM HooksTypeCorrect ==
  ASSUME None \notin Pages \cup Workspaces, MaxEdits \in Nat, MaxFaults \in Nat
  PROVE  H!Spec => []H!TypeOK
<1>1. HookIInv /\ HookRestTyped => H!TypeOK
      BY DEF HookIInv, HookTyped, HookRestTyped, H!TypeOK, PageRecords, CheckRecords,
           ForgetRecords,
         Locked
<1>2. HookRestTyped /\ [H!Next]_(H!hookVars) => HookRestTyped'
      BY HookRestStep
<1>3. HookIInv /\ [H!Next]_(H!hookVars) => HookIInv'
      BY HookIInvStep
<1>. QED BY <1>1, <1>2, <1>3, HookIInvInit, HookRestInit, PTL DEF H!Spec

-----------------------------------------------------------------------------
(* AgentSettings                                                            *)

G == INSTANCE AgentSettings

-----------------------------------------------------------------------------
(* The inductive invariant, in named parts.                                *)

CallRecords(places) ==
  [at : places, agent : Agents \cup {None}, session : Sessions \cup {None},
   left : SUBSET (Agents \cup Sessions)]

AgentTyped ==
  /\ Default \in agents /\ agents \subseteq Agents
  /\ chosen \in [Sessions -> Agents \cup {None}]
  /\ source \in [Sessions -> {"checked", "copied", "spawned"}]
  /\ list \in CallRecords({"idle", "read", "failed"})
  /\ save \in CallRecords({"idle", "known"})
  /\ delete \in CallRecords({"idle", "scan"})
  /\ choose \in CallRecords({"idle", "found"}) /\ fork \in CallRecords({"idle", "found"})
  /\ spawn \in CallRecords({"idle", "listed"})
  /\ saves \in 0..MaxSaves /\ begun \in 0..MaxNew

(* What a call has found it holds until it writes. *)
AgentCallInv ==
  /\ save.at = "known" => save.agent \in Agents /\ saves < MaxSaves
  /\ choose.at = "found" => choose.agent \in agents /\ choose.session \in Sessions
  /\ fork.at = "found" => fork.agent \in Agents \cup {None} /\ fork.session \in Sessions
  /\ spawn.at = "listed" => spawn.agent \in Agents /\ spawn.session \in Sessions

(* The lock: a reader of agents and a deletion exclude each other. *)
SharedInv ==
  /\ list.at # "failed"
  /\ list.at = "read" => list.left \subseteq agents /\ delete.at = "idle"
  /\ choose.at = "found" => delete.at = "idle"

(* A deletion has still to read every session whose agent was chosen and   *)
(* is the one to delete.                                                   *)
AgentScanInv == delete.at = "scan" =>
  /\ delete.agent \in Agents \ {Default}
  /\ \A s \in Sessions : G!Known(s) /\ source[s] = "checked" /\ chosen[s] = delete.agent
                           => s \in delete.left

AgentInv == AgentTyped /\ AgentCallInv /\ SharedInv /\ AgentScanInv /\ G!ChoiceExists

AgentConstants == Default \in Agents /\ MaxSaves \in Nat /\ MaxNew \in Nat

-----------------------------------------------------------------------------
LEMMA CallIs ==
  ASSUME NEW P, NEW q \in P, NEW a \in Agents \cup {None}, NEW s \in Sessions \cup {None},
         NEW left \in SUBSET (Agents \cup Sessions)
  PROVE  /\ G!Call(q, a, s, left) \in CallRecords(P)
         /\ G!Call(q, a, s, left).at = q /\ G!Call(q, a, s, left).agent = a
         /\ G!Call(q, a, s, left).session = s /\ G!Call(q, a, s, left).left = left
      BY DEF G!Call, CallRecords

LEMMA IdleIs ==
  ASSUME NEW P, "idle" \in P
  PROVE  G!Idle \in CallRecords(P) /\ G!Idle.at = "idle"
      BY DEF G!Idle, CallRecords

LEMMA LeftIs ==
  ASSUME NEW P, NEW c \in CallRecords(P), NEW x
  PROVE  LET d == [c EXCEPT !.left = @ \ {x}]
         IN  /\ d \in CallRecords(P) /\ d.at = c.at /\ d.agent = c.agent
             /\ d.session = c.session /\ d.left = c.left \ {x}
      BY DEF CallRecords

LEMMA AgentInvInit == ASSUME AgentConstants, G!Init PROVE AgentInv
<1>1. PICK s \in Sessions : chosen = [t \in Sessions |-> IF t = s THEN Default ELSE None]
      BY DEF G!Init
<1>2. /\ list = G!Idle /\ save = G!Idle /\ delete = G!Idle /\ choose = G!Idle /\ fork = G!Idle
      /\ spawn = G!Idle /\ G!Idle.at = "idle"
      BY IdleIs DEF G!Init, G!Idle
<1>3. AgentTyped
      BY <1>1, <1>2, IdleIs DEF G!Init, AgentTyped, AgentConstants
<1>4. AgentCallInv /\ SharedInv /\ AgentScanInv
      BY <1>2 DEF AgentCallInv, SharedInv, AgentScanInv
<1>5. G!ChoiceExists
      BY <1>1 DEF G!Init, G!ChoiceExists, G!Refers, G!Known
<1>. QED BY <1>3, <1>4, <1>5 DEF AgentInv

-----------------------------------------------------------------------------
(* The calls.                                                              *)
LEMMA ListStep == ASSUME AgentConstants, AgentInv, G!List PROVE AgentInv'
<1>1. list' = G!Call("read", None, None, agents) /\ delete.at = "idle"
      BY DEF G!List, G!Shared
<1>2. UNCHANGED <<agents, chosen, source, save, delete, choose, fork, spawn, saves, begun>>
      BY DEF G!List
<1>3. /\ list' \in CallRecords({"idle", "read", "failed"}) /\ list'.at = "read"
      /\ list'.left = agents
  <2>1. agents \in SUBSET (Agents \cup Sessions)
        BY DEF AgentInv, AgentTyped
  <2>. QED BY <1>1, <2>1, CallIs
<1>. QED BY <1>1, <1>2, <1>3 DEF AgentInv, AgentTyped, AgentCallInv, SharedInv,
            AgentScanInv, G!ChoiceExists, G!Refers, G!Known

LEMMA ReadAgentStep ==
  ASSUME AgentConstants, AgentInv, NEW a \in Agents, G!ReadAgent(a) PROVE AgentInv'
<1>1. UNCHANGED <<agents, chosen, source, save, delete, choose, fork, spawn, saves, begun>>
      BY DEF G!ReadAgent
<1>2. a \in agents /\ delete.at = "idle" /\ list.at = "read" /\ list.left \subseteq agents
      BY DEF G!ReadAgent, AgentInv, SharedInv
<1>3. list' = G!Idle \/ list' = [list EXCEPT !.left = @ \ {a}]
      BY <1>2 DEF G!ReadAgent
<1>4. /\ list' \in CallRecords({"idle", "read", "failed"}) /\ list'.at \in {"idle", "read"}
      /\ list'.at = "read" => list'.left \subseteq agents
  <2>1. CASE list' = G!Idle
        BY <2>1, IdleIs
  <2>2. CASE list' = [list EXCEPT !.left = @ \ {a}]
    <3>1. list \in CallRecords({"idle", "read", "failed"})
          BY DEF AgentInv, AgentTyped
    <3>2. /\ list' \in CallRecords({"idle", "read", "failed"}) /\ list'.at = list.at
          /\ list'.left = list.left \ {a}
          BY <2>2, <3>1, LeftIs
    <3>. QED BY <1>2, <3>2
  <2>. QED BY <1>3, <2>1, <2>2
<1>. QED BY <1>1, <1>2, <1>4 DEF AgentInv, AgentTyped, AgentCallInv, SharedInv,
            AgentScanInv, G!ChoiceExists, G!Refers, G!Known

LEMMA SaveStep ==
  ASSUME AgentConstants, AgentInv, NEW a \in Agents, G!SaveNew(a) \/ G!Get(a) \/ G!Save
  PROVE  AgentInv'
<1>1. UNCHANGED <<chosen, source, list, delete, choose, fork, spawn, begun>>
      BY DEF G!SaveNew, G!Get, G!Save, G!calls
<1>2. /\ agents \subseteq agents' /\ agents' \subseteq Agents
      /\ save' \in CallRecords({"idle", "known"}) /\ saves' \in 0..MaxSaves
      /\ save'.at = "known" => save'.agent \in Agents /\ saves' < MaxSaves
  <2>1. CASE G!SaveNew(a)
        BY <2>1 DEF G!SaveNew, G!calls, AgentInv, AgentTyped, AgentCallInv, AgentConstants
  <2>2. CASE G!Get(a)
    <3>1. save' = G!Call("known", a, None, {}) /\ agents' = agents /\ saves' = saves
          BY <2>2 DEF G!Get
    <3>2. /\ save' \in CallRecords({"idle", "known"}) /\ save'.agent = a
          BY <3>1, CallIs
    <3>. QED BY <3>1, <3>2, <2>2 DEF G!Get, AgentInv, AgentTyped
  <2>3. CASE G!Save
        BY <2>3, IdleIs DEF G!Save, AgentInv, AgentTyped, AgentCallInv, AgentConstants
  <2>. QED BY <2>1, <2>2, <2>3
<1>. QED BY <1>1, <1>2 DEF AgentInv, AgentTyped, AgentCallInv, SharedInv, AgentScanInv,
            G!ChoiceExists, G!Refers, G!Known

LEMMA DeleteStep ==
  ASSUME AgentConstants, AgentInv, NEW a \in Agents, G!Delete(a) PROVE AgentInv'
<1>1. /\ delete' = G!Call("scan", a, None, {s \in Sessions : G!Known(s)})
      /\ list.at # "read" /\ choose.at = "idle" /\ a # Default
      BY DEF G!Delete, G!Alone
<1>2. UNCHANGED <<agents, chosen, source, list, save, choose, fork, spawn, saves, begun>>
      BY DEF G!Delete
<1>3. /\ delete' \in CallRecords({"idle", "scan"}) /\ delete'.agent = a
      /\ delete'.left = {s \in Sessions : G!Known(s)}
  <2>1. {s \in Sessions : G!Known(s)} \in SUBSET (Agents \cup Sessions)
        OBVIOUS
  <2>. QED BY <1>1, <2>1, CallIs
<1>. QED BY <1>1, <1>2, <1>3 DEF AgentInv, AgentTyped, AgentCallInv, SharedInv,
            AgentScanInv, G!ChoiceExists, G!Refers, G!Known

LEMMA AgentReadSettingsStep ==
  ASSUME AgentConstants, AgentInv, NEW s \in Sessions, G!ReadSettings(s) PROVE AgentInv'
<1>1. UNCHANGED <<agents, chosen, source, list, save, choose, fork, spawn, saves, begun>>
      BY DEF G!ReadSettings
<1>2. CASE chosen[s] = delete.agent
  <2>1. delete' \in CallRecords({"idle", "scan"}) /\ delete'.at = "idle"
        BY <1>2, IdleIs DEF G!ReadSettings
  <2>. QED BY <1>1, <2>1 DEF AgentInv, AgentTyped, AgentCallInv, SharedInv, AgentScanInv,
              G!ChoiceExists, G!Refers, G!Known
<1>3. CASE chosen[s] # delete.agent
  <2>1. /\ delete' \in CallRecords({"idle", "scan"}) /\ delete'.at = delete.at
        /\ delete'.agent = delete.agent /\ delete'.left = delete.left \ {s}
        BY <1>3, LeftIs DEF G!ReadSettings, AgentInv, AgentTyped
  <2>2. AgentScanInv'
        BY <1>1, <1>3, <2>1 DEF AgentInv, AgentScanInv, G!Known
  <2>. QED BY <1>1, <2>1, <2>2 DEF AgentInv, AgentTyped, AgentCallInv, SharedInv,
              G!ChoiceExists, G!Refers, G!Known
<1>. QED BY <1>2, <1>3

LEMMA RemoveStep == ASSUME AgentConstants, AgentInv, G!Remove PROVE AgentInv'
<1>1. /\ agents' = agents \ {delete.agent} /\ delete' = G!Idle
      /\ delete.at = "scan" /\ delete.left = {}
      BY DEF G!Remove
<1>2. UNCHANGED <<chosen, source, list, save, choose, fork, spawn, saves, begun>>
      BY DEF G!Remove
<1>3. delete' \in CallRecords({"idle", "scan"}) /\ delete'.at = "idle"
      BY <1>1, IdleIs
<1>4. AgentTyped' /\ AgentScanInv'
      BY <1>1, <1>2, <1>3 DEF AgentInv, AgentTyped, AgentScanInv
<1>5. AgentCallInv' /\ SharedInv'
      BY <1>1, <1>2, <1>3 DEF AgentInv, AgentTyped, CallRecords, AgentCallInv, SharedInv
<1>6. G!ChoiceExists'
      BY <1>1, <1>2 DEF AgentInv, AgentScanInv, G!ChoiceExists, G!Refers, G!Known
<1>. QED BY <1>4, <1>5, <1>6 DEF AgentInv

(* The settings of one session are written. *)
LEMMA PutStep ==
  ASSUME AgentConstants, AgentInv, NEW s \in Sessions, NEW a \in Agents \cup {None},
         NEW w \in {"checked", "copied", "spawned"},
         chosen' = [chosen EXCEPT ![s] = a], source' = [source EXCEPT ![s] = w],
         w = "checked" /\ a # None =>
           a \in agents /\ (delete.at = "scan" => a # delete.agent),
         UNCHANGED <<agents, list, save, delete, saves>>,
         begun' \in 0..MaxNew,
         choose' = choose \/ choose' = G!Idle, fork' = fork \/ fork' = G!Idle,
         spawn' = spawn \/ spawn' = G!Idle
  PROVE  AgentInv'
<1>1. AgentTyped'
      BY IdleIs DEF AgentInv, AgentTyped
<1>2. AgentCallInv'
      BY IdleIs DEF AgentInv, AgentCallInv
<1>3. SharedInv'
      BY IdleIs DEF AgentInv, SharedInv
<1>4. G!ChoiceExists'
      BY DEF AgentInv, AgentTyped, G!ChoiceExists, G!Refers, G!Known
<1>5. AgentScanInv'
      BY DEF AgentInv, AgentTyped, AgentScanInv, G!Known
<1>. QED BY <1>1, <1>2, <1>3, <1>4, <1>5 DEF AgentInv

LEMMA AgentCreateStep ==
  ASSUME AgentConstants, AgentInv, NEW s \in Sessions, G!Create(s) \/ G!DeleteSession(s)
  PROVE  AgentInv'
<1>1. CASE G!Create(s)
  <2>1. begun' \in 0..MaxNew
        BY <1>1 DEF G!Create, G!Fresh, AgentInv, AgentTyped, AgentConstants
  <2>2. Default \in agents /\ (delete.at = "scan" => Default # delete.agent)
        BY DEF AgentInv, AgentTyped, AgentScanInv
  <2>. QED BY <1>1, <2>1, <2>2, PutStep DEF G!Create, G!calls, AgentConstants
<1>2. CASE G!DeleteSession(s)
      BY <1>2, PutStep DEF G!DeleteSession, G!calls, AgentInv, AgentTyped
<1>. QED BY <1>1, <1>2

LEMMA AgentWriteStep ==
  ASSUME AgentConstants, AgentInv, G!PutChoice \/ G!PutCopy \/ G!PutChild PROVE AgentInv'
<1>1. begun \in 0..MaxNew /\ agents \subseteq Agents
      BY DEF AgentInv, AgentTyped
<1>2. CASE G!PutChoice
  <2>1. /\ choose.agent \in agents /\ choose.session \in Sessions /\ delete.at = "idle"
        BY <1>2 DEF G!PutChoice, AgentInv, AgentCallInv, SharedInv
  <2>. QED BY <1>1, <1>2, <2>1, PutStep DEF G!PutChoice
<1>3. CASE G!PutCopy
      BY <1>1, <1>3, PutStep DEF G!PutCopy, AgentInv, AgentCallInv
<1>4. CASE G!PutChild
      BY <1>1, <1>4, PutStep DEF G!PutChild, AgentInv, AgentCallInv
<1>. QED BY <1>2, <1>3, <1>4

LEMMA ChooseStep ==
  ASSUME AgentConstants, AgentInv, NEW s \in Sessions, NEW a \in Agents, G!Choose(s, a)
  PROVE  AgentInv'
<1>1. choose' = G!Call("found", a, s, {}) /\ delete.at = "idle" /\ a \in agents
      BY DEF G!Choose, G!Shared
<1>2. UNCHANGED <<agents, chosen, source, list, save, delete, fork, spawn, saves, begun>>
      BY DEF G!Choose
<1>3. /\ choose' \in CallRecords({"idle", "found"})
      /\ choose'.agent = a /\ choose'.session = s
      BY <1>1, CallIs
<1>. QED BY <1>1, <1>2, <1>3 DEF AgentInv, AgentTyped, AgentCallInv, SharedInv,
            AgentScanInv, G!ChoiceExists, G!Refers, G!Known

LEMMA ForkStep ==
  ASSUME AgentConstants, AgentInv, NEW s \in Sessions, NEW t \in Sessions, G!Fork(s, t)
  PROVE  AgentInv'
<1>1. fork' = G!Call("found", chosen[s], t, {s}) /\ begun < MaxNew /\ begun' = begun + 1
      BY DEF G!Fork, G!Fresh
<1>2. UNCHANGED <<agents, chosen, source, list, save, delete, choose, spawn, saves>>
      BY DEF G!Fork
<1>3. chosen[s] \in Agents \cup {None} /\ begun' \in 0..MaxNew
      BY <1>1 DEF AgentInv, AgentTyped, AgentConstants
<1>4. /\ fork' \in CallRecords({"idle", "found"})
      /\ fork'.agent = chosen[s] /\ fork'.session = t
      BY <1>1, <1>3, CallIs
<1>. QED BY <1>2, <1>3, <1>4 DEF AgentInv, AgentTyped, AgentCallInv, SharedInv,
            AgentScanInv, G!ChoiceExists, G!Refers, G!Known

LEMMA SpawnStep ==
  ASSUME AgentConstants, AgentInv, NEW s \in Sessions, NEW a \in Agents, G!Spawn(s, a)
  PROVE  AgentInv'
<1>1. spawn' = G!Call("listed", a, s, {}) /\ begun < MaxNew /\ begun' = begun + 1
      BY DEF G!Spawn, G!Fresh
<1>2. UNCHANGED <<agents, chosen, source, list, save, delete, choose, fork, saves>>
      BY DEF G!Spawn
<1>3. begun' \in 0..MaxNew
      BY <1>1 DEF AgentInv, AgentTyped, AgentConstants
<1>4. /\ spawn' \in CallRecords({"idle", "listed"})
      /\ spawn'.agent = a /\ spawn'.session = s
      BY <1>1, CallIs
<1>. QED BY <1>2, <1>3, <1>4 DEF AgentInv, AgentTyped, AgentCallInv, SharedInv,
            AgentScanInv, G!ChoiceExists, G!Refers, G!Known

LEMMA AgentInvStep == ASSUME AgentConstants, AgentInv, [G!Next]_(G!agentVars) PROVE AgentInv'
<1>1. CASE UNCHANGED G!agentVars
      BY <1>1 DEF G!agentVars, G!calls, AgentInv, AgentTyped, AgentCallInv, SharedInv,
         AgentScanInv, G!ChoiceExists, G!Refers, G!Known
<1>2. CASE G!List \/ G!Save \/ G!Remove \/ G!PutChoice \/ G!PutCopy \/ G!PutChild
      BY <1>2, ListStep, SaveStep, RemoveStep, AgentWriteStep DEF AgentConstants
<1>3. ASSUME NEW a \in Agents, G!ReadAgent(a) \/ G!SaveNew(a) \/ G!Get(a) \/ G!Delete(a)
      PROVE  AgentInv'
      BY <1>3, ReadAgentStep, SaveStep, DeleteStep
<1>4. ASSUME NEW s \in Sessions,
             \/ G!ReadSettings(s) \/ G!Create(s) \/ G!DeleteSession(s)
             \/ \E a \in Agents : G!Choose(s, a) \/ G!Spawn(s, a)
             \/ \E t \in Sessions : G!Fork(s, t)
      PROVE  AgentInv'
      BY <1>4, AgentReadSettingsStep, AgentCreateStep, ChooseStep, SpawnStep, ForkStep
<1>. QED BY <1>1, <1>2, <1>3, <1>4 DEF G!Next

LEMMA AgentInvHolds == ASSUME AgentConstants PROVE G!Spec => []AgentInv
<1>1. G!Init => AgentInv
      BY AgentInvInit
<1>2. AgentInv /\ [G!Next]_(G!agentVars) => AgentInv'
      BY AgentInvStep
<1>. QED BY <1>1, <1>2, PTL DEF G!Spec

-----------------------------------------------------------------------------
(* The agents, the settings and the calls have the types that AgentSettings *)
(* gives them.                                                             *)
THEOREM AgentsTypeCorrect == ASSUME AgentConstants PROVE G!Spec => []G!TypeOK
<1>1. AgentInv => G!TypeOK
      BY DEF AgentInv, AgentTyped, CallRecords, G!TypeOK
<1>. QED BY <1>1, AgentInvHolds, PTL

(* An agent that a user or Create chose for a session exists as long as    *)
(* the session names it, whatever is saved, deleted, forked and spawned    *)
(* meanwhile (agents/service.go:34, 110-139).                              *)
THEOREM ChoiceExistsHolds == ASSUME AgentConstants PROVE G!Spec => []G!ChoiceExists
<1>1. AgentInv => G!ChoiceExists
      BY DEF AgentInv
<1>. QED BY <1>1, AgentInvHolds, PTL

(* List reads the file of every agent it has named, however many deletions *)
(* and saves meet it (agents/service.go:62-80).                            *)
THEOREM ListIsWholeHolds == ASSUME AgentConstants PROVE G!Spec => []G!ListIsWhole
<1>1. AgentInv => G!ListIsWhole
      BY DEF AgentInv, SharedInv, G!ListIsWhole
<1>. QED BY <1>1, AgentInvHolds, PTL

-----------------------------------------------------------------------------
(* ModelSettings                                                            *)

S == INSTANCE ModelSettings WITH Runs <- ModelRuns

-----------------------------------------------------------------------------
(* The inductive invariant, in named parts.                                *)

Writing == {"models", "config", "reload"}
Pairs == [config : S!Configs, models : S!Lists]
Forms == [at : {"none", "open"} \cup Writing, seen : Pairs, config : S!Configs,
          models : S!Lists, both : BOOLEAN]

ModelTyped ==
  /\ config \in S!Configs /\ models \in S!Lists /\ current \in Pairs
  /\ editMu \in Editors \cup {None}
  /\ form \in [Editors -> Forms] /\ pinned \in [ModelRuns -> Pairs]
  /\ stale \in BOOLEAN /\ byHand \subseteq Providers
  /\ settingSaves \in 0..MaxSaves /\ handEdits \in 0..MaxEdits /\ modelFaults \in 0..MaxFaults

(* A model is asked in the protocol its options were made for, if its      *)
(* provider has the protocol of the catalogue, or would have it without an *)
(* entry; a provider that the catalogue does not know has an entry.        *)
Asked(m, cfg, row) == IF row.routed # None THEN row.routed ELSE S!ProtocolFor(Of[m], cfg)

Goes(m, cfg, row) ==
  /\ CatalogProtocol[Of[m]] = None => cfg[Of[m]] # None
  /\ CatalogProtocol[Of[m]] \in {None, S!ProtocolFor(Of[m], cfg)} => row.made = Asked(m, cfg, row)

(* So it is with every model of a list, but where somebody edited by hand. *)
Agrees(cfg, rows, hand) ==
  \A m \in Models : rows[m] # None /\ Of[m] \notin hand => Goes(m, cfg, rows[m])

(* A call that goes on to write holds the lock, so what it is about to     *)
(* write agrees with what the other file says; one that writes both leaves *)
(* the files in agreement after the first of them, too.                    *)
FormInv(e) ==
  /\ form[e].at \in Writing => editMu = e
  /\ form[e].at = "models" => Agrees(config, form[e].models, byHand)
  /\ form[e].at = "models" /\ form[e].both => Agrees(form[e].config, form[e].models, byHand)
  /\ form[e].at = "config" => Agrees(form[e].config, models, byHand)

ModelInv ==
  /\ ModelTyped
  /\ \A e \in Editors : FormInv(e)
  /\ Agrees(config, models, byHand)
  /\ Agrees(current.config, current.models, byHand)
  /\ \A r \in ModelRuns : Agrees(pinned[r].config, pinned[r].models, byHand)
  /\ S!CurrentIsDisk

ModelConstants ==
  /\ Of \in [Models -> Providers] /\ None \notin Editors /\ None \notin Protocols
  /\ CatalogProtocol \in [Providers -> Protocols \cup {None}]
  /\ \A p \in Formats : CatalogProtocol[p] # None
  /\ Catalog \in S!Lists
  /\ \A m \in Models : Catalog[m] # None =>
       /\ CatalogProtocol[Of[m]] # None
       /\ Catalog[m].made = IF Catalog[m].routed # None THEN Catalog[m].routed
                            ELSE CatalogProtocol[Of[m]]
  /\ MaxSaves \in Nat /\ MaxEdits \in Nat /\ MaxFaults \in Nat

-----------------------------------------------------------------------------
LEMMA PairIs ==
  ASSUME ModelTyped
  PROVE  /\ S!Pair \in Pairs /\ S!Pair.config = config /\ S!Pair.models = models
      BY DEF S!Pair, Pairs, ModelTyped

LEMMA NoPairIs ==
  /\ S!NoPair \in Pairs /\ S!NoPair.config \in S!Configs /\ S!NoPair.models \in S!Lists
  /\ Agrees(S!NoPair.config, S!NoPair.models, byHand)
      BY DEF S!NoPair, Pairs, S!Configs, S!Lists, Agrees

LEMMA NoFormIs ==
  S!NoForm \in Forms /\ S!NoForm.at = "none"
      BY NoPairIs DEF S!NoForm, Forms

LEMMA FormIs ==
  ASSUME NEW f \in Forms
  PROVE  /\ f.at \in {"none", "open"} \cup Writing /\ f.seen \in Pairs /\ f.config \in S!Configs
         /\ f.models \in S!Lists /\ f.both \in BOOLEAN
      BY DEF Forms

(* Without entries, the models of the catalogue are as they should be.     *)
LEMMA CatalogAgrees ==
  ASSUME ModelConstants, NEW hand PROVE Agrees(S!NoPair.config, Catalog, hand)
<1> SUFFICES ASSUME NEW m \in Models, Catalog[m] # None PROVE Goes(m, S!NoPair.config, Catalog[m])
    BY DEF Agrees
<1>1. Of[m] \in Providers /\ S!NoPair.config[Of[m]] = None
      BY DEF ModelConstants, S!NoPair
<1>. QED BY <1>1 DEF Goes, Asked, S!ProtocolFor, ModelConstants

LEMMA ModelInvInit == ASSUME ModelConstants, S!Init PROVE ModelInv
<1>1. /\ config = S!NoPair.config /\ models = Catalog /\ current = S!Pair
      /\ editMu = None /\ form = [e \in Editors |-> S!NoForm] /\ byHand = {}
      /\ pinned = [r \in ModelRuns |-> S!NoPair] /\ stale = FALSE
      /\ settingSaves = 0 /\ handEdits = 0 /\ modelFaults = 0
      BY DEF S!Init
<1>2. ModelTyped
  <2>1. /\ 0 \in 0..MaxEdits /\ 0 \in 0..MaxFaults /\ 0 \in 0..MaxSaves /\ FALSE \in BOOLEAN
        /\ Catalog \in S!Lists
        BY DEF ModelConstants
  <2>3. S!Pair \in Pairs
        BY <1>1, <2>1, NoPairIs DEF S!Pair, Pairs
  <2>2. form \in [Editors -> Forms] /\ pinned \in [ModelRuns -> Pairs]
        BY <1>1, NoPairIs, NoFormIs
  <2>. QED BY <1>1, <2>1, <2>2, <2>3, NoPairIs DEF ModelTyped
<1>3. S!CurrentIsDisk
      BY <1>1 DEF S!CurrentIsDisk
<1>4. ASSUME NEW e \in Editors PROVE FormInv(e)
      BY <1>1, NoFormIs DEF FormInv, Writing
<1>5. /\ Agrees(config, models, byHand) /\ Agrees(current.config, current.models, byHand)
      BY <1>1, <1>2, CatalogAgrees, PairIs
<1>6. \A r \in ModelRuns : Agrees(pinned[r].config, pinned[r].models, byHand)
      BY <1>1, NoPairIs
<1>. QED BY <1>2, <1>3, <1>4, <1>5, <1>6 DEF ModelInv

(* One form changes, and so may the lock; neither the files nor what the   *)
(* client and the runs work with.                                          *)
LEMMA FormStep ==
  ASSUME ModelConstants, ModelInv, NEW e \in Editors, NEW f \in Forms,
         form' = [form EXCEPT ![e] = f],
         UNCHANGED <<config, models, current, pinned, stale, byHand, handEdits, modelFaults>>,
         settingSaves' \in 0..MaxSaves,
         editMu' = editMu \/ (editMu = None /\ editMu' = e),
         f.at \in Writing => editMu' = e,
         f.at = "models" => Agrees(config, f.models, byHand),
         f.at = "models" /\ f.both => Agrees(f.config, f.models, byHand),
         f.at = "config" => Agrees(f.config, models, byHand)
  PROVE  ModelInv'
<1>1. ModelTyped'
      BY DEF ModelInv, ModelTyped
<1>2. S!CurrentIsDisk'
      BY DEF ModelInv, S!CurrentIsDisk, S!Pair, ModelConstants
<1>3. ASSUME NEW d \in Editors PROVE FormInv(d)'
  <2>1. FormInv(d) /\ form[d] \in Forms
        BY DEF ModelInv, ModelTyped
  <2>2. form'[d] = IF d = e THEN f ELSE form[d]
        BY DEF ModelInv, ModelTyped
  <2>3. CASE d = e
        BY <2>2, <2>3 DEF FormInv, Agrees
  <2>4. CASE d # e
    <3>1. form[d].at \in Writing => editMu' = d
          BY <2>1 DEF FormInv, ModelConstants
    <3>. QED BY <2>1, <2>2, <2>4, <3>1 DEF FormInv, Agrees
  <2>. QED BY <2>3, <2>4
<1>4. /\ Agrees(config, models, byHand)' /\ Agrees(current.config, current.models, byHand)'
      /\ \A r \in ModelRuns : Agrees(pinned[r].config, pinned[r].models, byHand)'
      BY DEF ModelInv, Agrees
<1>. QED BY <1>1, <1>2, <1>3, <1>4 DEF ModelInv

LEMMA RefusedStep ==
  ASSUME ModelConstants, ModelInv, NEW e \in Editors, S!Refused(e) PROVE ModelInv'
<1>1. settingSaves' \in 0..MaxSaves
      BY DEF S!Refused, ModelInv, ModelTyped
<1>. QED BY <1>1, FormStep, NoFormIs DEF S!Refused, S!modelFiles, Writing

(* Open, a call takes the lock and goes on to write. *)
LEMMA ModelWriteStep ==
  ASSUME ModelConstants, ModelInv, NEW e \in Editors, NEW cfg \in S!Configs, NEW rows \in S!Lists,
         NEW first \in {"models", "config"}, NEW both \in BOOLEAN,
         S!Open(e), S!Write(e, cfg, rows, first, both),
         first = "models" => Agrees(config, rows, byHand),
         first = "models" /\ both => Agrees(cfg, rows, byHand),
         first = "config" => Agrees(cfg, models, byHand)
  PROVE  ModelInv'
<1> DEFINE f == [S!NoForm EXCEPT !.at = first, !.config = cfg, !.models = rows, !.both = both]
<1>1. S!NoForm \in Forms
      BY NoFormIs
<1>2. /\ f \in Forms /\ f.at = first /\ f.config = cfg /\ f.models = rows /\ f.both = both
      BY <1>1 DEF Forms, Writing
<1>3. form' = [form EXCEPT ![e] = f] /\ editMu = None /\ editMu' = e
      BY DEF S!Open, S!Write
<1>4. UNCHANGED <<config, models, current, pinned, stale, byHand, handEdits, modelFaults>>
      BY DEF S!Write, S!modelFiles
<1>5. settingSaves' \in 0..MaxSaves
  <2>1. settingSaves \in 0..MaxSaves /\ MaxSaves \in Nat
        BY DEF ModelInv, ModelTyped, ModelConstants
  <2>2. settingSaves < MaxSaves /\ settingSaves' = settingSaves + 1
        BY DEF S!Write
  <2>. QED BY ONLY <2>1, <2>2
<1> HIDE DEF f
<1>. QED BY <1>2, <1>3, <1>4, <1>5, FormStep

LEMMA Types ==
  ASSUME ModelConstants, ModelInv
  PROVE  /\ config \in S!Configs /\ models \in S!Lists /\ Agrees(config, models, byHand)
         /\ \A m \in Models : Of[m] \in Providers
      BY DEF ModelInv, ModelTyped, ModelConstants

LEMMA SaveProviderStep ==
  ASSUME ModelConstants, ModelInv, NEW e \in Editors, NEW p \in Providers,
         NEW protocol \in Protocols, S!SaveProvider(e, p, protocol)
  PROVE  ModelInv'
<1>1. CASE S!Refused(e)
      BY <1>1, RefusedStep
<1>2. CASE /\ S!MayChange(p, protocol)
           /\ S!Write(e, [config EXCEPT ![p] = protocol], models, "config", FALSE)
  <2> DEFINE cfg == [config EXCEPT ![p] = protocol]
  <2>1. cfg \in S!Configs /\ models \in S!Lists
        BY Types DEF S!Configs
  <2>2. ASSUME NEW m \in Models, models[m] # None, Of[m] \notin byHand
        PROVE  Goes(m, cfg, models[m])
    <3>1. Goes(m, config, models[m]) /\ Of[m] \in Providers /\ config \in S!Configs
          BY <2>2, Types DEF Agrees
    <3>2. CASE Of[m] = p
      <4>1. S!ProtocolFor(p, config) \in {None, protocol}
            BY <1>2, <2>2, <3>2 DEF S!MayChange, S!Used
      <4>2. cfg[p] = protocol /\ protocol # None
            BY <3>1 DEF S!Configs, ModelConstants
      <4>3. CASE S!ProtocolFor(p, config) = None
            BY <3>1, <3>2, <4>3 DEF Goes, S!ProtocolFor
      <4>4. CASE S!ProtocolFor(p, config) = protocol
            BY <3>1, <3>2, <4>2, <4>4 DEF Goes, Asked, S!ProtocolFor
      <4>. QED BY <4>1, <4>3, <4>4
    <3>3. CASE Of[m] # p
          BY <3>1, <3>3 DEF Goes, Asked, S!ProtocolFor, S!Configs
    <3>. QED BY <3>2, <3>3
  <2>3. Agrees(cfg, models, byHand)
        BY <2>2 DEF Agrees
  <2>4. S!Open(e) /\ S!Write(e, cfg, models, "config", FALSE)
        BY <1>2 DEF S!SaveProvider
  <2> HIDE DEF cfg
  <2>. QED BY <2>1, <2>3, <2>4, ModelWriteStep
<1>. QED BY <1>1, <1>2 DEF S!SaveProvider

(* What is saved is an entry for a provider that has one, and asked as it  *)
(* should be.                                                              *)
LEMMA EntryIs ==
  ASSUME ModelConstants, ModelInv, NEW m \in Models, NEW manual \in BOOLEAN,
         NEW picked \in Protocols \cup {None}, config[Of[m]] # None
  PROVE  LET row == S!Entry(m, manual, picked)
         IN  row \in S!Entries \cup {None} /\ Goes(m, config, row)
<1>1. Of[m] \in Providers /\ config[Of[m]] \in Protocols
      BY Types DEF S!Configs
<1>2. S!ProtocolFor(Of[m], config) = config[Of[m]]
      BY DEF S!ProtocolFor
<1>3. S!SettingsProtocol(Of[m], config) \in Protocols
      BY <1>1, <1>2 DEF S!SettingsProtocol, ModelConstants
<1>4. CASE ~manual /\ Catalog[m] # None
  <2>1. S!Entry(m, manual, picked) = Catalog[m]
        BY <1>4 DEF S!Entry
  <2>2. /\ Catalog[m] \in S!Entries \cup {None} /\ CatalogProtocol[Of[m]] # None
        /\ Catalog[m].made = IF Catalog[m].routed # None THEN Catalog[m].routed
                             ELSE CatalogProtocol[Of[m]]
        BY <1>4 DEF ModelConstants, S!Lists
  <2>. QED BY <2>1, <2>2, <1>2 DEF Goes, Asked
<1>5. CASE ~(~manual /\ Catalog[m] # None)
  <2> DEFINE routed == IF picked # None \/ Catalog[m] = None THEN picked ELSE Catalog[m].routed
             made == IF routed # None THEN routed ELSE S!SettingsProtocol(Of[m], config)
  <2>1. S!Entry(m, manual, picked) = [routed |-> routed, made |-> made]
        BY <1>5 DEF S!Entry
  <2>2. routed \in Protocols \cup {None}
    <3>1. Catalog[m] \in S!Entries \cup {None}
          BY DEF ModelConstants, S!Lists
    <3>. QED BY <3>1 DEF S!Entries
  <2>3. made \in Protocols
        BY <2>2, <1>3
  <2>4. CatalogProtocol[Of[m]] \in {None, config[Of[m]]} /\ routed = None => made = config[Of[m]]
        BY <1>1, <1>2 DEF S!SettingsProtocol, ModelConstants
  <2> HIDE DEF routed, made
  <2>5. [routed |-> routed, made |-> made] \in S!Entries
        BY <2>2, <2>3 DEF S!Entries
  <2>6. routed # None => made = routed
        BY DEF made
  <2>7. Goes(m, config, [routed |-> routed, made |-> made])
        BY <1>2, <2>4, <2>6 DEF Goes, Asked
  <2>. QED BY <2>1, <2>5, <2>7
<1>. QED BY <1>4, <1>5

LEMMA SaveModelStep ==
  ASSUME ModelConstants, ModelInv, NEW e \in Editors, NEW m \in Models, NEW new \in BOOLEAN,
         NEW manual \in BOOLEAN, NEW picked \in Protocols \cup {None},
         S!SaveModel(e, m, new, manual, picked)
  PROVE  ModelInv'
<1> DEFINE row == S!Entry(m, manual, picked)
           rows == [models EXCEPT ![m] = row]
<1>1. CASE S!Refused(e)
      BY <1>1, RefusedStep
<1>2. CASE config[Of[m]] # None /\ S!Write(e, config, rows, "models", FALSE)
  <2>1. row \in S!Entries \cup {None} /\ Goes(m, config, row)
        BY <1>2, EntryIs
  <2> HIDE DEF row
  <2>2. rows \in S!Lists /\ config \in S!Configs
        BY <2>1, Types DEF S!Lists
  <2>3. Agrees(config, rows, byHand)
        BY <2>1, Types DEF Agrees, S!Lists
  <2>4. S!Open(e) /\ S!Write(e, config, rows, "models", FALSE)
        BY <1>2 DEF S!SaveModel
  <2> HIDE DEF rows
  <2>. QED BY <2>2, <2>3, <2>4, ModelWriteStep
<1>. QED BY <1>1, <1>2 DEF S!SaveModel

LEMMA DeleteModelStep ==
  ASSUME ModelConstants, ModelInv, NEW e \in Editors, NEW m \in Models, S!DeleteModel(e, m)
  PROVE  ModelInv'
<1>1. CASE S!Refused(e)
      BY <1>1, RefusedStep
<1>2. CASE S!Write(e, config, [models EXCEPT ![m] = None], "models", FALSE)
  <2> DEFINE rows == [models EXCEPT ![m] = None]
  <2>1. rows \in S!Lists /\ config \in S!Configs
        BY Types DEF S!Lists
  <2>2. Agrees(config, rows, byHand)
        BY Types DEF Agrees, S!Lists
  <2>3. S!Open(e) /\ S!Write(e, config, rows, "models", FALSE)
        BY <1>2 DEF S!DeleteModel
  <2> HIDE DEF rows
  <2>. QED BY <2>1, <2>2, <2>3, ModelWriteStep
<1>. QED BY <1>1, <1>2 DEF S!DeleteModel

LEMMA DeleteProviderStep ==
  ASSUME ModelConstants, ModelInv, NEW e \in Editors, NEW p \in Providers, S!DeleteProvider(e, p)
  PROVE  ModelInv'
<1> DEFINE cfg == [config EXCEPT ![p] = None]
           rows == [m \in Models |-> IF Of[m] = p THEN Catalog[m] ELSE models[m]]
<1>1. CASE S!Refused(e)
      BY <1>1, RefusedStep
<1>2. CASE S!Write(e, cfg, rows, S!WriteOrder, TRUE)
  <2>1. cfg \in S!Configs /\ rows \in S!Lists
        BY Types DEF S!Lists, S!Configs, ModelConstants
  <2>4. ASSUME NEW m \in Models, rows[m] # None, Of[m] \notin byHand
        PROVE  Goes(m, config, rows[m]) /\ Goes(m, cfg, rows[m])
    <3>1. CASE Of[m] = p
      <4>1. rows[m] = Catalog[m] /\ cfg[p] = None
            BY <3>1, Types DEF S!Configs
      <4>. QED BY <2>4, <3>1, <4>1 DEF ModelConstants, Goes, Asked, S!ProtocolFor
    <3>2. CASE Of[m] # p
      <4>1. rows[m] = models[m] /\ cfg[Of[m]] = config[Of[m]] /\ Goes(m, config, models[m])
            BY <2>4, <3>2, Types DEF S!Configs, Agrees
      <4>. QED BY <4>1 DEF Goes, Asked, S!ProtocolFor
    <3>. QED BY <3>1, <3>2
  <2>2. Agrees(config, rows, byHand) /\ Agrees(cfg, rows, byHand)
        BY <2>4 DEF Agrees
  <2>3. S!Open(e) /\ S!Write(e, cfg, rows, "models", TRUE)
        BY <1>2 DEF S!DeleteProvider, S!WriteOrder
  <2> HIDE DEF cfg, rows
  <2>. QED BY <2>1, <2>2, <2>3, ModelWriteStep
<1>. QED BY <1>1, <1>2 DEF S!DeleteProvider

-----------------------------------------------------------------------------
(* The writes.                                                             *)
LEMMA PutIs ==
  ASSUME NEW e \in Editors, form[e].at \in {"models", "config"}, S!Put(e)
  PROVE  \/ form[e].at = "models" /\ models' = form[e].models /\ config' = config
         \/ form[e].at = "config" /\ config' = form[e].config /\ models' = models
<1>1. CASE form[e].at = "models"
      BY <1>1, Zenon DEF S!Put
<1>2. CASE form[e].at = "config"
      BY <1>2, "models" # "config", Zenon DEF S!Put
<1>. QED BY <1>1, <1>2

(* The files change, by the one who holds the lock, and so does its form. *)
LEMMA FilesStep ==
  ASSUME ModelConstants, ModelInv, NEW e \in Editors, NEW f \in Forms,
         form[e].at \in {"models", "config"},
         form' = [form EXCEPT ![e] = f], S!Put(e) \/ UNCHANGED S!modelFiles,
         UNCHANGED <<current, editMu, pinned, stale, byHand, settingSaves, handEdits>>,
         modelFaults' \in 0..MaxFaults,
         \/ f.at = "reload"
         \/ /\ f.at = "config" /\ form[e].at = "models" /\ form[e].both /\ S!Put(e)
            /\ f.config = form[e].config
  PROVE  ModelInv'
<1>1. form[e] \in Forms /\ FormInv(e) /\ ModelTyped /\ Agrees(config, models, byHand)
      BY DEF ModelInv, ModelTyped
<1>2. \/ form[e].at = "models" /\ models' = form[e].models /\ config' = config
      \/ form[e].at = "config" /\ config' = form[e].config /\ models' = models
      \/ models' = models /\ config' = config
      BY PutIs DEF S!modelFiles
<1>3. config' \in S!Configs /\ models' \in S!Lists
      BY <1>1, <1>2, FormIs DEF ModelTyped
<1>4. ModelTyped'
      BY <1>1, <1>3 DEF ModelTyped
<1>5. Agrees(config, models, byHand)'
      BY <1>1, <1>2 DEF FormInv, Agrees
<1>6. editMu = e /\ e # None
      BY <1>1 DEF FormInv, Writing, ModelConstants
<1>7. S!CurrentIsDisk'
      BY <1>6 DEF S!CurrentIsDisk
<1>8. ASSUME NEW d \in Editors PROVE FormInv(d)'
  <2>1. FormInv(d) /\ form[d] \in Forms /\ form'[d] = IF d = e THEN f ELSE form[d]
        BY DEF ModelInv, ModelTyped
  <2>2. CASE d # e
    <3>1. form'[d].at \notin Writing
          BY <1>6, <2>1, <2>2 DEF FormInv
    <3>. QED BY <3>1 DEF FormInv, Writing
  <2>3. CASE d = e /\ f.at = "reload"
        BY <1>6, <2>1, <2>3 DEF FormInv, Writing
  <2>4. CASE d = e /\ f.at # "reload"
    <3>1. /\ f.at = "config" /\ form[e].at = "models" /\ form[e].both
          /\ f.config = form[e].config /\ models' = form[e].models
          BY <2>4, PutIs
    <3>2. Agrees(form[e].config, form[e].models, byHand)
          BY <1>1, <3>1 DEF FormInv
    <3>. QED BY <1>6, <2>1, <2>4, <3>1, <3>2 DEF FormInv, Agrees
  <2>. QED BY <2>2, <2>3, <2>4
<1>9. /\ Agrees(current.config, current.models, byHand)'
      /\ \A r \in ModelRuns : Agrees(pinned[r].config, pinned[r].models, byHand)'
      BY DEF ModelInv, Agrees
<1>. QED BY <1>4, <1>5, <1>7, <1>8, <1>9 DEF ModelInv

LEMMA AtIs ==
  ASSUME ModelInv, NEW e \in Editors, NEW to \in {"models", "config", "reload"}
  PROVE  LET f == [form[e] EXCEPT !.at = to]
         IN  f \in Forms /\ f.at = to /\ f.config = form[e].config
      BY DEF ModelInv, ModelTyped, Forms, Writing

LEMMA WritesStep ==
  ASSUME ModelConstants, ModelInv, NEW e \in Editors, S!Writes(e) PROVE ModelInv'
<1> DEFINE f == [form[e] EXCEPT !.at = S!Next2(e)]
<1>1. \/ S!Next2(e) = "reload"
      \/ S!Next2(e) = "config" /\ form[e].at = "models" /\ form[e].both
      BY DEF S!Next2, S!WriteOrder
<1>2. f \in Forms /\ f.at = S!Next2(e) /\ f.config = form[e].config
      BY <1>1, AtIs
<1>3. /\ form[e].at \in {"models", "config"} /\ S!Put(e)
      /\ form' = [form EXCEPT ![e] = f]
      /\ UNCHANGED <<current, editMu, pinned, stale, byHand, settingSaves, handEdits, modelFaults>>
      BY DEF S!Writes
<1>4. modelFaults' \in 0..MaxFaults
      BY <1>3 DEF ModelInv, ModelTyped
<1> HIDE DEF f
<1>. QED BY <1>1, <1>2, <1>3, <1>4, FilesStep

LEMMA WriteFailsStep ==
  ASSUME ModelConstants, ModelInv, NEW e \in Editors, S!WriteFails(e) PROVE ModelInv'
<1> DEFINE f == [form[e] EXCEPT !.at = "reload"]
<1>1. f \in Forms /\ f.at = "reload"
      BY AtIs
<1>2. /\ form[e].at \in {"models", "config"} /\ (S!Put(e) \/ UNCHANGED S!modelFiles)
      /\ form' = [form EXCEPT ![e] = f]
      /\ UNCHANGED <<current, editMu, pinned, stale, byHand, settingSaves, handEdits>>
      BY DEF S!WriteFails, S!AfterFailure
<1>3. modelFaults' \in 0..MaxFaults
      BY DEF S!WriteFails, ModelInv, ModelTyped, ModelConstants
<1> HIDE DEF f
<1>. QED BY <1>1, <1>2, <1>3, FilesStep

-----------------------------------------------------------------------------
(* What the client and the runs work with.                                 *)
(* The forms of others than the lock's holder are idle or open. *)
LEMMA ClientStep ==
  ASSUME ModelConstants, ModelInv, config' = config, models' = models, UNCHANGED <<byHand, settingSaves, handEdits>>,
         modelFaults' \in 0..MaxFaults, stale' \in BOOLEAN, form' \in [Editors -> Forms],
         \A e \in Editors : form'[e].at \notin Writing,
         current' = current \/ current' = S!Pair, editMu' = None,
         ~stale' => current' = S!Pair,
         pinned' \in [ModelRuns -> Pairs],
         \A r \in ModelRuns : pinned'[r] = pinned[r] \/ pinned'[r] = S!NoPair
  PROVE  ModelInv'
<1>1. ModelTyped'
      BY PairIs DEF ModelInv, ModelTyped
<1>2. S!CurrentIsDisk'
      BY DEF S!CurrentIsDisk, S!Pair
<1>3. ASSUME NEW e \in Editors PROVE FormInv(e)'
      BY DEF FormInv, Writing
<1>4. Agrees(config, models, byHand)' /\ Agrees(current.config, current.models, byHand)'
      BY PairIs DEF ModelInv, Agrees
<1>5. ASSUME NEW r \in ModelRuns PROVE Agrees(pinned[r].config, pinned[r].models, byHand)'
      BY NoPairIs DEF ModelInv, Agrees
<1>. QED BY <1>1, <1>2, <1>3, <1>4, <1>5 DEF ModelInv

LEMMA ModelReadSettingsStep ==
  ASSUME ModelConstants, ModelInv, NEW e \in Editors, S!ReadSettings(e) PROVE ModelInv'
<1> DEFINE f == [S!NoForm EXCEPT !.at = "open", !.seen = S!Pair]
<1>1. f \in Forms /\ f.at = "open"
      BY NoFormIs, PairIs DEF ModelInv, Forms
<1>2. form' = [form EXCEPT ![e] = f] /\ current' = S!Pair /\ stale' = FALSE /\ editMu = None
      /\ UNCHANGED <<config, models, editMu, pinned, byHand, settingSaves, handEdits, modelFaults>>
      BY DEF S!ReadSettings, S!modelFiles
<1> HIDE DEF f
<1>3. ASSUME NEW d \in Editors PROVE form'[d].at \notin Writing
  <2>1. FormInv(d) /\ form'[d] = IF d = e THEN f ELSE form[d]
        BY <1>2 DEF ModelInv, ModelTyped
  <2>. QED BY <1>1, <1>2, <2>1 DEF FormInv, Writing, ModelConstants
<1>4. /\ form' \in [Editors -> Forms] /\ pinned' \in [ModelRuns -> Pairs]
      /\ modelFaults' \in 0..MaxFaults
      BY <1>1, <1>2 DEF ModelInv, ModelTyped
<1>. QED BY <1>2, <1>3, <1>4, ClientStep

LEMMA ReloadStep ==
  ASSUME ModelConstants, ModelInv, NEW e \in Editors, S!Reload(e) PROVE ModelInv'
<1>1. /\ form' = [form EXCEPT ![e] = S!NoForm] /\ editMu' = None /\ form[e].at = "reload"
      /\ UNCHANGED <<config, models, pinned, byHand, settingSaves, handEdits>>
      BY DEF S!Reload, S!modelFiles
<1>2. /\ stale' \in BOOLEAN /\ (~stale' => current' = S!Pair)
      /\ current' = current \/ current' = S!Pair
      BY DEF S!Reload
<1>5. modelFaults' \in 0..MaxFaults
  <2>1. \/ modelFaults' = modelFaults
        \/ modelFaults < MaxFaults /\ modelFaults' = modelFaults + 1
        BY DEF S!Reload
  <2>2. modelFaults \in 0..MaxFaults /\ MaxFaults \in Nat
        BY DEF ModelInv, ModelTyped, ModelConstants
  <2>. QED BY ONLY <2>1, <2>2
<1>3. ASSUME NEW d \in Editors PROVE form'[d].at \notin Writing
  <2>1. FormInv(d) /\ FormInv(e) /\ form'[d] = IF d = e THEN S!NoForm ELSE form[d]
        BY <1>1 DEF ModelInv, ModelTyped
  <2>. QED BY <1>1, <2>1, NoFormIs DEF FormInv, Writing
<1>4. /\ form' \in [Editors -> Forms] /\ pinned' \in [ModelRuns -> Pairs]
      BY <1>1, NoFormIs DEF ModelInv, ModelTyped
<1>. QED BY <1>1, <1>2, <1>3, <1>4, <1>5, ClientStep

LEMMA ModelRestartStep == ASSUME ModelConstants, ModelInv, S!Restart PROVE ModelInv'
<1>1. /\ form' = [e \in Editors |-> IF form[e].at = "open" THEN form[e] ELSE S!NoForm]
      /\ pinned' = [r \in ModelRuns |-> S!NoPair]
      /\ current' = S!Pair /\ stale' = FALSE /\ editMu' = None
      /\ UNCHANGED <<config, models, byHand, settingSaves, handEdits>>
      BY DEF S!Restart, S!modelFiles
<1>2. modelFaults' \in 0..MaxFaults
      BY DEF S!Restart, ModelInv, ModelTyped, ModelConstants
<1>3. form' \in [Editors -> Forms] /\ pinned' \in [ModelRuns -> Pairs]
      BY <1>1, NoFormIs, NoPairIs DEF ModelInv, ModelTyped
<1>4. ASSUME NEW d \in Editors PROVE form'[d].at \notin Writing
      BY <1>1, NoFormIs DEF Writing
<1>. QED BY <1>1, <1>2, <1>3, <1>4, ClientStep

LEMMA PinStep ==
  ASSUME ModelConstants, ModelInv, NEW r \in ModelRuns, S!Pin(r) PROVE ModelInv'
<1>1. /\ pinned' = [pinned EXCEPT ![r] = current]
      /\ UNCHANGED <<config, models, current, editMu, form, stale, byHand, settingSaves,
                     handEdits, modelFaults>>
      BY DEF S!Pin, S!modelFiles
<1>2. ModelTyped'
      BY <1>1 DEF ModelInv, ModelTyped
<1>3. ASSUME NEW q \in ModelRuns PROVE Agrees(pinned[q].config, pinned[q].models, byHand)'
  <2>1. pinned'[q] = pinned[q] \/ pinned'[q] = current
        BY <1>1 DEF ModelInv, ModelTyped
  <2>2. Agrees(pinned'[q].config, pinned'[q].models, byHand)
        BY <2>1 DEF ModelInv
  <2>3. byHand' = byHand
        BY <1>1
  <2>. QED BY <2>2, <2>3 DEF Agrees, Goes, Asked, S!ProtocolFor
<1>. QED BY <1>1, <1>2, <1>3 DEF ModelInv, FormInv, Agrees, S!CurrentIsDisk, S!Pair

(* An edit by hand concerns one provider, of which nothing is said again.  *)
LEMMA HandAgrees ==
  ASSUME NEW cfg, NEW rows, NEW cfg2, NEW rows2, NEW hand, NEW p, Agrees(cfg, rows, hand),
         \A m \in Models : Of[m] # p => rows2[m] = rows[m] /\ cfg2[Of[m]] = cfg[Of[m]]
  PROVE  Agrees(cfg2, rows2, hand \cup {p})
      BY DEF Agrees, Goes, Asked, S!ProtocolFor

LEMMA HandStep ==
  ASSUME ModelConstants, ModelInv, NEW p \in Providers, S!Edit(p),
         config' \in S!Configs, models' \in S!Lists,
         \A m \in Models : Of[m] # p => models'[m] = models[m] /\ config'[Of[m]] = config[Of[m]]
  PROVE  ModelInv'
<1>1. /\ handEdits < MaxEdits /\ handEdits' = handEdits + 1 /\ byHand' = byHand \cup {p}
      /\ stale' = TRUE /\ UNCHANGED <<current, editMu, form, pinned, settingSaves, modelFaults>>
      BY DEF S!Edit
<1>2. ModelTyped'
  <2>1. handEdits' \in 0..MaxEdits
    <3>1. handEdits \in 0..MaxEdits /\ MaxEdits \in Nat
          BY DEF ModelInv, ModelTyped, ModelConstants
    <3>. QED BY ONLY <1>1, <3>1
  <2>2. byHand' \subseteq Providers
        BY <1>1 DEF ModelInv, ModelTyped
  <2>3. /\ current \in Pairs /\ editMu \in Editors \cup {None} /\ form \in [Editors -> Forms]
        /\ pinned \in [ModelRuns -> Pairs] /\ settingSaves \in 0..MaxSaves
        /\ modelFaults \in 0..MaxFaults
        BY DEF ModelInv, ModelTyped
  <2>. QED BY <1>1, <2>1, <2>2, <2>3 DEF ModelTyped, Pairs, Forms, S!Configs, S!Lists, S!Entries
<1>3. ASSUME NEW e \in Editors PROVE FormInv(e)'
  <2>1. FormInv(e)
        BY DEF ModelInv
  <2>2. ASSUME form[e].at = "models" PROVE Agrees(config', form[e].models, byHand \cup {p})
    <3>1. Agrees(config, form[e].models, byHand)
          BY <2>1, <2>2 DEF FormInv
    <3>. QED BY <3>1 DEF Agrees, Goes, Asked, S!ProtocolFor
  <2>3. form[e].at = "models" /\ form[e].both
          => Agrees(form[e].config, form[e].models, byHand \cup {p})
        BY <2>1, HandAgrees DEF FormInv
  <2>4. form[e].at = "config" => Agrees(form[e].config, models', byHand \cup {p})
        BY <2>1, HandAgrees DEF FormInv
  <2>. QED BY <1>1, <2>1, <2>2, <2>3, <2>4 DEF FormInv
<1>4. Agrees(config', models', byHand')
  <2>1. Agrees(config, models, byHand)
        BY DEF ModelInv
  <2>. QED BY <1>1, <2>1 DEF Agrees, Goes, Asked, S!ProtocolFor
<1>5. Agrees(current'.config, current'.models, byHand')
      BY <1>1, HandAgrees DEF ModelInv
<1>6. ASSUME NEW r \in ModelRuns PROVE Agrees(pinned'[r].config, pinned'[r].models, byHand')
      BY <1>1, HandAgrees DEF ModelInv
<1>7. S!CurrentIsDisk'
      BY <1>1 DEF S!CurrentIsDisk
<1>. QED BY <1>2, <1>3, <1>4, <1>5, <1>6, <1>7 DEF ModelInv

LEMMA EditConfigStep ==
  ASSUME ModelConstants, ModelInv, NEW p \in Providers, NEW protocol \in Protocols \cup {None},
         S!EditConfig(p, protocol)
  PROVE  ModelInv'
<1>1. config' = [config EXCEPT ![p] = protocol] /\ models' = models /\ S!Edit(p)
      BY DEF S!EditConfig
<1>2. /\ config' \in S!Configs /\ models' \in S!Lists
      /\ \A m \in Models : Of[m] # p => models'[m] = models[m] /\ config'[Of[m]] = config[Of[m]]
      BY <1>1, Types DEF S!Configs
<1>. QED BY <1>1, <1>2, HandStep

LEMMA EditModelsStep ==
  ASSUME ModelConstants, ModelInv, NEW m \in Models, NEW entry \in S!Entries \cup {None},
         S!EditModels(m, entry)
  PROVE  ModelInv'
<1>1. models' = [models EXCEPT ![m] = entry] /\ config' = config /\ S!Edit(Of[m])
      BY DEF S!EditModels
<1>2. /\ config' \in S!Configs /\ models' \in S!Lists /\ Of[m] \in Providers
      /\ \A n \in Models : Of[n] # Of[m] => models'[n] = models[n] /\ config'[Of[n]] = config[Of[n]]
      BY <1>1, Types DEF S!Lists
<1>. QED BY <1>1, <1>2, HandStep

LEMMA ModelInvStep == ASSUME ModelConstants, ModelInv, [S!Next]_(S!modelVars) PROVE ModelInv'
<1>1. CASE UNCHANGED S!modelVars
      BY <1>1 DEF S!modelVars, S!modelFiles, ModelInv, ModelTyped, FormInv, Agrees,
         S!CurrentIsDisk, S!Pair
<1>2. ASSUME NEW e \in Editors,
             \/ S!ReadSettings(e) \/ S!Writes(e) \/ S!WriteFails(e) \/ S!Reload(e)
             \/ \E p \in Providers : S!DeleteProvider(e, p)
             \/ \E p \in Providers, protocol \in Protocols : S!SaveProvider(e, p, protocol)
             \/ \E m \in Models : S!DeleteModel(e, m)
             \/ \E m \in Models, new, manual \in BOOLEAN, picked \in Protocols \cup {None} :
                  S!SaveModel(e, m, new, manual, picked)
      PROVE  ModelInv'
      BY <1>2, ModelReadSettingsStep, WritesStep, WriteFailsStep, ReloadStep,
         DeleteProviderStep, SaveProviderStep, DeleteModelStep, SaveModelStep
<1>3. ASSUME NEW r \in ModelRuns, S!Pin(r) PROVE ModelInv'
      BY <1>3, PinStep
<1>4. ASSUME NEW p \in Providers, NEW protocol \in Protocols \cup {None},
             S!EditConfig(p, protocol)
      PROVE  ModelInv'
      BY <1>4, EditConfigStep
<1>6. ASSUME NEW m \in Models, NEW entry \in S!Entries \cup {None}, S!EditModels(m, entry)
      PROVE  ModelInv'
      BY <1>6, EditModelsStep
<1>5. CASE S!Restart
      BY <1>5, ModelRestartStep
<1>. QED BY <1>1, <1>2, <1>3, <1>4, <1>5, <1>6 DEF S!Next

LEMMA ModelInvHolds == ASSUME ModelConstants PROVE S!Spec => []ModelInv
<1>1. S!Init => ModelInv
      BY ModelInvInit
<1>2. ModelInv /\ [S!Next]_(S!modelVars) => ModelInv'
      BY ModelInvStep
<1>. QED BY <1>1, <1>2, PTL DEF S!Spec

-----------------------------------------------------------------------------
(* The files, the client's pair, the runs' pairs and the forms have the    *)
(* types that ModelSettings gives them.                                    *)
THEOREM ModelsTypeCorrect == ASSUME ModelConstants PROVE S!Spec => []S!TypeOK
<1>1. ModelInv => S!TypeOK
      BY FormIs DEF ModelInv, ModelTyped, S!TypeOK, Pairs, Writing
<1>. QED BY <1>1, ModelInvHolds, PTL

(* On the disk, in the client and in every run a model is asked in the     *)
(* protocol its options were made for, and the model of a provider that    *)
(* the catalogue does not know has its provider, whatever is saved and     *)
(* deleted, whatever is edited by hand of other providers, and whichever   *)
(* write fails, as long as the provider, if the catalogue knows it, is     *)
(* used with the catalogue's protocol (llm/settings.go:203-243, 356-416,   *)
(* 445-499).                                                               *)
THEOREM ModelsFitHolds == ASSUME ModelConstants PROVE S!Spec => []S!ModelsFit
<1>1. ASSUME ModelInv, NEW pair \in Pairs, Agrees(pair.config, pair.models, byHand)
      PROVE  S!Fits(pair)
  <2> SUFFICES ASSUME NEW m \in Models, pair.models[m] # None, Of[m] \notin byHand,
                      CatalogProtocol[Of[m]] \in {None, pair.config[Of[m]]}
               PROVE  /\ pair.config[Of[m]] # None
                      /\ pair.models[m].made = S!ModelProtocol(m, pair)
      BY DEF S!Fits
  <2>1. Goes(m, pair.config, pair.models[m])
        BY <1>1 DEF Agrees
  <2>2. pair.config[Of[m]] # None
        BY <2>1 DEF Goes
  <2>3. S!ProtocolFor(Of[m], pair.config) = pair.config[Of[m]]
        BY <2>2 DEF S!ProtocolFor
  <2>. QED BY <2>1, <2>2, <2>3 DEF Goes, Asked, S!ModelProtocol
<1>2. ModelInv => S!ModelsFit
      BY <1>1, PairIs DEF ModelInv, ModelTyped, S!ModelsFit
<1>. QED BY <1>2, ModelInvHolds, PTL

(* When no call holds the lock and nothing else changed the files, the     *)
(* client works with what they say (llm/settings.go:238-242).              *)
THEOREM CurrentIsDiskHolds == ASSUME ModelConstants PROVE S!Spec => []S!CurrentIsDisk
<1>1. ModelInv => S!CurrentIsDisk
      BY DEF ModelInv
<1>. QED BY <1>1, ModelInvHolds, PTL
=============================================================================

------------------------- MODULE ReactLoop_proofs -------------------------
(* Theorems about ReactLoop, for every finite set of calls, every size of  *)
(* an answer and every number of turns and inputs, with and without        *)
(* failing writes, compaction and crashes: the ledger keeps a call and its *)
(* results together, and what the model is asked with is the context that  *)
(* ledger gives.                                                           *)
EXTENDS MCReactLoop, SequenceTheorems, WellFoundedInduction, TLAPS

-----------------------------------------------------------------------------
(* The inductive invariant *)

(* An entry of a ledger. *)
Record == [kind : Kinds, calls : Seq(Calls), of : Calls \cup {NoCall}, kept : Seq(Nat)]

(* A summary keeps entries that came before it. *)
Keeps(l) ==
  \A k \in DOMAIN l : l[k].kind = "summary" =>
    \A i \in DOMAIN l[k].kept : l[k].kept[i] \in 1..(k - 1)

(* The calls the answers of a ledger issue. *)
IssuedBy(l) == UNION {ToSet(l[k].calls) : k \in DOMAIN l}

(* Only results answer a call, one that was issued, and none twice. *)
Once(l) ==
  /\ \A k \in DOMAIN l : l[k].of # NoCall <=> l[k].kind = "result"
  /\ \A k \in DOMAIN l : l[k].of # NoCall => l[k].of \in IssuedBy(l)
  /\ \A k, m \in DOMAIN l : l[k].of # NoCall /\ l[k].of = l[m].of => k = m

(* After the summary it may begin with, a context goes forward. *)
Forward(l) ==
  LET c == Context(l) IN
  \A i, j \in DOMAIN c :
    (i < j /\ (i # 1 \/ l[c[1]].kind # "summary")) => c[i] < c[j]

(* The results of an answer come right after it, in the order of its calls. *)
Follow(l) ==
  \A k \in DOMAIN l : l[k].kind = "result" =>
    \E j \in 1..(k - 1) :
      /\ k - j \in DOMAIN l[j].calls
      /\ l[j].calls[k - j] = l[k].of
      /\ \A i \in (j + 1)..k : l[i].kind = "result"

(* A result in the context has its call before it. *)
Paired(l) ==
  LET c == Context(l) IN
  \A k \in DOMAIN c : l[c[k]].kind = "result" =>
    \E j \in 1..(k - 1) : l[c[k]].of \in ToSet(l[c[j]].calls)

(* The context has the last words of the user. *)
Heard(l) ==
  Latest(Users(l)) # 0 => Latest(Users(l)) \in ToSet(Context(l))

Sound(l) ==
  /\ l \in Seq(Record)
  /\ Keeps(l) /\ Once(l) /\ Forward(l) /\ Follow(l) /\ Paired(l) /\ Heard(l)

(* The calls b are those of the last answer after the ones whose results   *)
(* follow it.                                                              *)
Open(l, b) ==
  /\ \E j \in 1..Len(l) :
       /\ l[j].kind = "answer"
       /\ Len(l[j].calls) = Len(l) - j + Len(b)
       /\ \A i \in 1..Len(b) : b[i] = l[j].calls[Len(l) - j + i]
       /\ \A i \in (j + 1)..Len(l) : l[i].kind = "result"
  /\ \A i, k \in 1..Len(b) : b[i] = b[k] => i = k
  /\ \A i \in 1..Len(b), k \in 1..Len(l) : l[k].of # b[i]

(* The batch is what is left of the last answer. *)
Batch ==
  /\ pc \in {"tools", "running", "unexecuted"} => Open(ledger, batch)
  /\ pc \in {"tools", "running"} => batch # <<>>

(* The loop carries along what the ledger gives. *)
Sending ==
  pc \in {"initial", "compact", "recover", "request", "tools", "running", "checkpoint"} =>
    history = Context(ledger)

(* A summary the ledger ends in is the one the loop wrote last. *)
Headed ==
  (pc \notin {"idle", "finish"} /\ ledger # <<>> /\ ledger[Len(ledger)].kind = "summary") =>
    lastHead = Len(ledger)

(* No summary follows another. *)
Apart(l) ==
  \A k \in DOMAIN l : (k > 1 /\ l[k].kind = "summary") => l[k - 1].kind # "summary"

IInv ==
  /\ TypeOK /\ waiting <= offered
  /\ Sound(ledger)
  /\ Batch /\ Sending /\ Headed /\ Apart(ledger)

(* Each call of the ledger has its result, or is one of b. *)
Settled(l, b) ==
  \A c \in IssuedBy(l) : (\E k \in DOMAIN l : l[k].of = c) \/ c \in ToSet(b)

(* Where nothing fails a call without a result is in the batch the loop is *)
(* working through.                                                        *)
AllAnswered ==
  /\ Settled(ledger, batch)
  /\ pc \in {"tools", "running", "unexecuted"} \/ batch = <<>>

-----------------------------------------------------------------------------
(* The operators of the module *)

(* A set of positions of a ledger has a last one: what Latest chooses.     *)
LEMMA HasLast ==
  ASSUME NEW n \in Nat, NEW S \in SUBSET (1..n), S # {}
  PROVE  \E k \in S : \A j \in S : j <= k
  <1> DEFINE B == {n - k : k \in S}
             R == OpToRel(<, Nat)
  <1>1. IsWellFoundedOn(R, Nat)
    BY NatLessThanWellFounded
  <1>2. B \subseteq Nat /\ B # {}
    <2>1. \A k \in S : n - k \in Nat
      OBVIOUS
    <2>2. QED
      BY <2>1
  <1>3. \E x \in B : \A y \in B : <<y, x>> \notin R
    BY ONLY <1>1, <1>2, WFMin
  <1>4. PICK k \in S : \A j \in S : <<n - j, n - k>> \notin R
    BY <1>3
  <1>5. \A x, y \in Nat : <<y, x>> \in R <=> y < x
    BY DEF OpToRel
  <1>6. ASSUME NEW j \in S
        PROVE  j <= k
    <2>1. n - j \in Nat /\ n - k \in Nat
      OBVIOUS
    <2>2. ~(n - j < n - k)
      BY ONLY <1>4, <1>5, <2>1, <1>6
    <2>3. QED
      BY <2>2
  <1>7. QED
    BY <1>6

(* Latest is the last of a set of positions, and 0 of none.                *)
LEMMA LatestIs ==
  ASSUME NEW n \in Nat, NEW S \in SUBSET (1..n)
  PROVE  /\ Latest(S) \in 0..n
         /\ S = {} <=> Latest(S) = 0
         /\ S # {} => Latest(S) \in S
         /\ \A k \in S : k <= Latest(S)
  <1>1. CASE S = {}
    BY <1>1 DEF Latest
  <1>2. CASE S # {}
    <2>1. \E k \in S : \A j \in S : j <= k
      BY <1>2, HasLast
    <2>2. Latest(S) \in S /\ \A j \in S : j <= Latest(S)
      BY <1>2, <2>1 DEF Latest
    <2>3. PICK m : m = Latest(S)
      OBVIOUS
    <2>4. m \in S /\ m \in 1..n /\ \A k \in S : k <= m
      BY <2>2, <2>3
    <2>5. QED
      BY <1>2, <2>3, <2>4
  <1>3. QED
    BY <1>1, <1>2

(* Nothing else is a last position. *)
LEMMA LatestIsTheOnly ==
  ASSUME NEW n \in Nat, NEW S \in SUBSET (1..n), NEW m \in S, \A k \in S : k <= m
  PROVE  Latest(S) = m
  BY LatestIs

(* A sequence over a set is one over what its elements are in. *)
LEMMA Narrows ==
  ASSUME NEW S, NEW U, NEW s \in Seq(S), \A i \in 1..Len(s) : s[i] \in U
  PROVE  s \in Seq(U)
  <1>1. s \in [1..Len(s) -> S] /\ Len(s) \in Nat
    OBVIOUS
  <1>2. s \in [1..Len(s) -> U]
    BY <1>1
  <1>3. QED
    BY <1>1, <1>2, SeqDef

(* A span of positions counts from its first. *)
LEMMA SpanIs ==
  ASSUME NEW a \in Nat, NEW b \in Nat
  PROVE  /\ Span(a, b) \in Seq(Nat)
         /\ Len(Span(a, b)) = IF b < a THEN 0 ELSE b - a + 1
         /\ \A k \in 1..Len(Span(a, b)) : Span(a, b)[k] = a + k - 1
  BY DEF Span

(* The entries the loop writes are records; those that are not answers     *)
(* issue no call.                                                          *)
LEMMA EntriesAre ==
  /\ \A k \in Kinds : /\ Entry(k) \in Record /\ Entry(k).kind = k
                      /\ Entry(k).calls = <<>> /\ Entry(k).of = NoCall /\ Entry(k).kept = <<>>
  /\ \A cs \in Seq(Calls) : /\ Answer(cs) \in Record /\ Answer(cs).kind = "answer"
                            /\ Answer(cs).calls = cs /\ Answer(cs).of = NoCall
                            /\ Answer(cs).kept = <<>>
  /\ \A c \in Calls : /\ Result(c) \in Record /\ Result(c).kind = "result"
                      /\ Result(c).calls = <<>> /\ Result(c).of = c /\ Result(c).kept = <<>>
  /\ \A ps \in Seq(Nat) : /\ Summary(ps) \in Record /\ Summary(ps).kind = "summary"
                          /\ Summary(ps).calls = <<>> /\ Summary(ps).of = NoCall
                          /\ Summary(ps).kept = ps
  <1>1. <<>> \in Seq(Calls) /\ <<>> \in Seq(Nat)
    OBVIOUS
  <1>2. QED
    BY <1>1 DEF Record, Kinds, Entry, Answer, Result, Summary

-----------------------------------------------------------------------------
(* The context of a ledger *)

(* The positions of r entries appended to n. *)
LEMMA SpanAfter ==
  ASSUME NEW n \in Nat, NEW r \in Nat
  PROVE  /\ Span(n + 1, n + r) \in Seq(Nat)
         /\ Len(Span(n + 1, n + r)) = r
         /\ \A i \in 1..r : Span(n + 1, n + r)[i] = n + i
  <1>1. Span(n + 1, n + r) = [k \in 1..r |-> n + 1 + k - 1]
    <2>1. (IF n + r < n + 1 THEN 0 ELSE n + r - (n + 1) + 1) = r
      OBVIOUS
    <2>2. QED
      BY <2>1 DEF Span
  <1>2. [k \in 1..r |-> n + 1 + k - 1] \in Seq(Nat) /\ Len([k \in 1..r |-> n + 1 + k - 1]) = r
    OBVIOUS
  <1>3. QED
    BY <1>1, <1>2

(* Without a summary the context is the ledger. *)
LEMMA ContextFromTheStart ==
  ASSUME NEW l \in Seq(Record), Latest(Summaries(l)) = 0
  PROVE  /\ Context(l) \in Seq(1..Len(l))
         /\ Len(Context(l)) = Len(l)
         /\ \A k \in 1..Len(l) : Context(l)[k] = k
  <1>1. Context(l) = Span(1, Len(l))
    BY DEF Context
  <1>2. Len(l) \in Nat
    OBVIOUS
  <1>3. QED
    BY <1>1, <1>2, SpanIs DEF Span

(* With one it is that summary, what it keeps, and what follows it. *)
LEMMA ContextFromSummary ==
  ASSUME NEW l \in Seq(Record), Keeps(l), Latest(Summaries(l)) # 0
  PROVE  \E s \in 1..Len(l), m \in Nat :
           /\ s = Latest(Summaries(l)) /\ m = Len(l[s].kept) /\ l[s].kind = "summary"
           /\ Context(l) \in Seq(1..Len(l))
           /\ Len(Context(l)) = 1 + m + Len(l) - s
           /\ Context(l)[1] = s
           /\ \A k \in 1..m : Context(l)[k + 1] = l[s].kept[k]
           /\ \A k \in 1..(Len(l) - s) : Context(l)[1 + m + k] = s + k
  <1> PICK s : s = Latest(Summaries(l))
    OBVIOUS
  <1> PICK m : m = Len(l[s].kept)
    OBVIOUS
  <1> DEFINE kept == l[s].kept
             t == Span(s + 1, Len(l))
  <1>1. s \in 1..Len(l) /\ l[s].kind = "summary"
    <2>1. Summaries(l) \in SUBSET (1..Len(l)) /\ Len(l) \in Nat
      BY DEF Summaries
    <2>2. s \in Summaries(l)
      BY <2>1, LatestIs
    <2>3. QED
      BY <2>2 DEF Summaries
  <1>2. kept \in Seq(Nat) /\ kept \in Seq(1..Len(l)) /\ m = Len(kept) /\ m \in Nat
    <2>1. l[s] \in Record
      BY <1>1
    <2>2. kept \in Seq(Nat)
      BY <2>1 DEF Record
    <2>3. \A i \in 1..Len(kept) : kept[i] \in 1..Len(l)
      BY <1>1, <2>2 DEF Keeps
    <2> HIDE DEF kept
    <2>4. kept \in Seq(1..Len(l))
      BY ONLY <2>2, <2>3, Narrows
    <2>5. QED
      BY <2>2, <2>4 DEF kept
  <1>3. /\ t \in Seq(1..Len(l))
        /\ Len(t) = Len(l) - s
        /\ \A k \in 1..(Len(l) - s) : t[k] = s + k
    <2>1. s + 1 \in Nat /\ Len(l) \in Nat
      BY <1>1
    <2>2. /\ t \in Seq(Nat) /\ Len(t) = Len(l) - s
          /\ \A k \in 1..Len(t) : t[k] = s + 1 + k - 1
      <3>1. /\ t \in Seq(Nat)
            /\ Len(t) = IF Len(l) < s + 1 THEN 0 ELSE Len(l) - (s + 1) + 1
            /\ \A k \in 1..Len(t) : t[k] = s + 1 + k - 1
        BY ONLY <2>1, SpanIs
      <3>2. QED
        BY ONLY <1>1, <2>1, <3>1
    <2> HIDE DEF t
    <2>3. \A k \in 1..Len(t) : t[k] \in 1..Len(l)
      <3> TAKE k \in 1..Len(t)
      <3>1. t[k] = s + k
        BY <1>1, <2>2
      <3>2. k \in 1..(Len(l) - s)
        BY <2>2
      <3>3. QED
        BY ONLY <1>1, <2>1, <3>1, <3>2
    <2>4. t \in Seq(1..Len(l))
      BY ONLY <2>2, <2>3, Narrows
    <2>5. QED
      BY <1>1, <2>2, <2>4
  <1>4. Context(l) = (<<s>> \o kept) \o t
    BY DEF Context
  <1>5. /\ <<s>> \in Seq(1..Len(l)) /\ Len(<<s>>) = 1 /\ <<s>>[1] = s
    BY <1>1
  <1> HIDE DEF kept, t
  <1>6. /\ <<s>> \o kept \in Seq(1..Len(l))
        /\ Len(<<s>> \o kept) = 1 + m
        /\ \A i \in 1..(1 + m) : (<<s>> \o kept)[i] = IF i <= 1 THEN <<s>>[i] ELSE kept[i - 1]
    BY <1>2, <1>5, ConcatProperties
  <1>7. /\ Context(l) \in Seq(1..Len(l))
        /\ Len(Context(l)) = 1 + m + (Len(l) - s)
        /\ \A i \in 1..(1 + m + (Len(l) - s)) :
             Context(l)[i] = IF i <= 1 + m THEN (<<s>> \o kept)[i] ELSE t[i - (1 + m)]
    <2>1. \A a, b \in Seq(1..Len(l)) :
            /\ a \o b \in Seq(1..Len(l))
            /\ Len(a \o b) = Len(a) + Len(b)
            /\ \A i \in 1..(Len(a) + Len(b)) :
                 (a \o b)[i] = IF i <= Len(a) THEN a[i] ELSE b[i - Len(a)]
      BY ConcatProperties
    <2> DEFINE a == <<s>> \o kept
    <2>2. a \in Seq(1..Len(l)) /\ Len(a) = 1 + m
      BY <1>6
    <2>3. Context(l) = a \o t
      BY <1>4
    <2> HIDE DEF a
    <2>4. /\ Context(l) \in Seq(1..Len(l))
          /\ Len(Context(l)) = 1 + m + (Len(l) - s)
          /\ \A i \in 1..(1 + m + (Len(l) - s)) :
               Context(l)[i] = IF i <= 1 + m THEN a[i] ELSE t[i - (1 + m)]
      <3>1. t \in Seq(1..Len(l)) /\ Len(t) = Len(l) - s
        BY ONLY <1>3
      <3>2. /\ a \o t \in Seq(1..Len(l))
            /\ Len(a \o t) = Len(a) + Len(t)
            /\ \A i \in 1..(Len(a) + Len(t)) :
                 (a \o t)[i] = IF i <= Len(a) THEN a[i] ELSE t[i - Len(a)]
        BY ONLY <2>1, <2>2, <3>1
      <3>3. QED
        BY ONLY <2>2, <2>3, <3>1, <3>2
    <2>5. QED
      BY ONLY <2>4 DEF a
  <1>8. Len(l) - s \in Nat
    BY <1>1
  <1>9. \A k \in 1..m : Context(l)[k + 1] = kept[k]
    <2> TAKE k \in 1..m
    <2>1. k + 1 \in 1..(1 + m) /\ k + 1 \in 1..(1 + m + (Len(l) - s)) /\ k + 1 > 1
      BY ONLY <1>2, <1>8, k \in 1..m
    <2>2. Context(l)[k + 1] = kept[k + 1 - 1]
      BY ONLY <1>2, <1>6, <1>7, <2>1
    <2>3. QED
      BY ONLY <2>2, <1>2, k \in 1..m
  <1>10. \A k \in 1..(Len(l) - s) : Context(l)[1 + m + k] = s + k
    <2> TAKE k \in 1..(Len(l) - s)
    <2>1. 1 + m + k \in 1..(1 + m + (Len(l) - s)) /\ ~(1 + m + k <= 1 + m)
      BY ONLY <1>2, <1>8, k \in 1..(Len(l) - s)
    <2>2. Context(l)[1 + m + k] = t[1 + m + k - (1 + m)] /\ 1 + m + k - (1 + m) = k
      BY ONLY <1>2, <1>7, <1>8, <2>1, k \in 1..(Len(l) - s)
    <2>3. QED
      BY ONLY <1>3, <2>2, k \in 1..(Len(l) - s)
  <1>11. Context(l)[1] = s
    BY <1>2, <1>5, <1>6, <1>7, <1>8
  <1>12. QED
    BY <1>1, <1>2, <1>7, <1>8, <1>9, <1>10, <1>11 DEF kept

(* Positions of a context are positions of its ledger. *)
LEMMA ContextIsPositions ==
  ASSUME NEW l \in Seq(Record), Keeps(l)
  PROVE  /\ Context(l) \in Seq(1..Len(l)) /\ Len(Context(l)) \in Nat
         /\ DOMAIN Context(l) = 1..Len(Context(l))
  <1>1. Context(l) \in Seq(1..Len(l))
    BY ContextFromTheStart, ContextFromSummary
  <1>2. QED
    BY <1>1

(* Everything after the last summary is in the context. *)
LEMMA ContextHasTheRest ==
  ASSUME NEW l \in Seq(Record), Keeps(l), NEW p \in 1..Len(l), Latest(Summaries(l)) < p
  PROVE  \E i \in 1..Len(Context(l)) : Context(l)[i] = p
  <1> DEFINE s == Latest(Summaries(l))
  <1>1. CASE s = 0
    BY <1>1, ContextFromTheStart
  <1>2. CASE s # 0
    <2>1. PICK z \in 1..Len(l), m \in Nat :
            /\ z = Latest(Summaries(l))
            /\ Len(Context(l)) = 1 + m + Len(l) - z
            /\ \A k \in 1..(Len(l) - z) : Context(l)[1 + m + k] = z + k
      BY <1>2, ContextFromSummary
    <2>2. p - z \in 1..(Len(l) - s)
      BY <2>1
    <2>3. Context(l)[1 + m + (p - z)] = p /\ 1 + m + (p - z) \in 1..Len(Context(l))
      <3>1. 1 + m + (p - z) \in 1..Len(Context(l))
        BY <2>1, <2>2
      <3>2. Context(l)[1 + m + (p - z)] = z + (p - z)
        BY <2>1, <2>2
      <3>3. QED
        BY <2>1, <3>1, <3>2
    <2>4. QED
      BY <2>3
  <1>3. QED
    BY <1>1, <1>2

(* What is appended to a ledger leaves what is in it where it is. *)
LEMMA Joined ==
  ASSUME NEW l \in Seq(Record), NEW t \in Seq(Record)
  PROVE  /\ l \o t \in Seq(Record)
         /\ Len(l) \in Nat /\ Len(t) \in Nat
         /\ Len(l \o t) = Len(l) + Len(t)
         /\ DOMAIN l = 1..Len(l) /\ DOMAIN t = 1..Len(t)
         /\ DOMAIN (l \o t) = 1..(Len(l) + Len(t))
         /\ \A k \in 1..Len(l) : (l \o t)[k] = l[k]
         /\ \A i \in 1..Len(t) : (l \o t)[Len(l) + i] = t[i]
         /\ \A k \in 1..(Len(l) + Len(t)) :
              k \in 1..Len(l) \/ \E i \in 1..Len(t) : k = Len(l) + i
  <1>1. /\ l \o t \in Seq(Record)
        /\ Len(l \o t) = Len(l) + Len(t)
        /\ \A i \in 1..(Len(l) + Len(t)) :
             (l \o t)[i] = IF i <= Len(l) THEN l[i] ELSE t[i - Len(l)]
    BY ConcatProperties
  <1>2. Len(l) \in Nat /\ Len(t) \in Nat
    OBVIOUS
  <1>3. DOMAIN l = 1..Len(l) /\ DOMAIN t = 1..Len(t)
    OBVIOUS
  <1>4. DOMAIN (l \o t) = 1..(Len(l) + Len(t))
    BY <1>1
  <1>5. \A k \in 1..Len(l) : (l \o t)[k] = l[k]
    BY ONLY <1>1, <1>2
  <1>6. \A i \in 1..Len(t) : (l \o t)[Len(l) + i] = t[i]
    <2> TAKE i \in 1..Len(t)
    <2>1. Len(l) + i \in 1..(Len(l) + Len(t)) /\ ~(Len(l) + i <= Len(l))
      BY ONLY <1>2, i \in 1..Len(t)
    <2>2. (l \o t)[Len(l) + i] = t[Len(l) + i - Len(l)] /\ Len(l) + i - Len(l) = i
      BY ONLY <1>1, <1>2, <2>1, i \in 1..Len(t)
    <2>3. QED
      BY <2>2
  <1>7. ASSUME NEW k \in 1..(Len(l) + Len(t)), k \notin 1..Len(l)
        PROVE  \E i \in 1..Len(t) : k = Len(l) + i
    <2>1. k - Len(l) \in 1..Len(t) /\ k = Len(l) + (k - Len(l))
      BY ONLY <1>2, <1>7
    <2>2. QED
      BY <2>1
  <1>8. QED
    BY ONLY <1>1, <1>2, <1>3, <1>4, <1>5, <1>6, <1>7

(* What is appended to a ledger is appended to its context, unless it is a *)
(* summary.                                                                *)
LEMMA ContextGrows ==
  ASSUME NEW l \in Seq(Record), Keeps(l), NEW t \in Seq(Record),
         \A i \in 1..Len(t) : t[i].kind # "summary"
  PROVE  /\ Keeps(l \o t)
         /\ Latest(Summaries(l \o t)) = Latest(Summaries(l))
         /\ Context(l \o t) = Context(l) \o Span(Len(l) + 1, Len(l) + Len(t))
         /\ Len(Context(l \o t)) = Len(Context(l)) + Len(t)
         /\ \A k \in 1..Len(Context(l)) : Context(l \o t)[k] = Context(l)[k]
         /\ \A i \in 1..Len(t) : Context(l \o t)[Len(Context(l)) + i] = Len(l) + i
  <1> DEFINE n == Len(l)
             r == Len(t)
             w == l \o t
             c == Context(l)
             d == Context(w)
             new == Span(n + 1, n + r)
  <1>1. /\ w \in Seq(Record) /\ n \in Nat /\ r \in Nat /\ Len(w) = n + r
        /\ DOMAIN l = 1..n /\ DOMAIN w = 1..(n + r)
        /\ \A k \in 1..n : w[k] = l[k]
        /\ \A i \in 1..r : w[n + i] = t[i]
        /\ \A k \in 1..(n + r) : k \in 1..n \/ \E i \in 1..r : k = n + i
    BY Joined
  <1>2. \A k \in 1..(n + r) : w[k].kind = "summary" => (k \in 1..n /\ w[k] = l[k])
    BY <1>1
  <1>3. Summaries(w) = Summaries(l)
    BY <1>1, <1>2 DEF Summaries
  <1>4. Keeps(w)
    BY <1>1, <1>2 DEF Keeps
  <1>5. /\ c \in Seq(1..n) /\ Len(c) \in Nat
        /\ d \in Seq(1..(n + r)) /\ Len(d) \in Nat
    <2>1. c \in Seq(1..n) /\ Len(c) \in Nat
      BY ContextIsPositions
    <2>2. d \in Seq(1..Len(w)) /\ Len(d) \in Nat
      BY <1>1, <1>4, ContextIsPositions
    <2>3. QED
      BY <1>1, <2>1, <2>2
  <1>6. /\ new \in Seq(Nat) /\ Len(new) = r
        /\ \A i \in 1..r : new[i] = n + i
    <2>1. n \in Nat /\ r \in Nat
      BY <1>1
    <2> HIDE DEF n, r
    <2>2. QED
      BY <2>1, SpanAfter
  <1>7. /\ Len(d) = Len(c) + r
        /\ \A k \in 1..Len(c) : d[k] = c[k]
        /\ \A i \in 1..r : d[Len(c) + i] = n + i
    <2>1. CASE Latest(Summaries(l)) = 0
      <3>1. /\ Len(c) = n /\ \A k \in 1..n : c[k] = k
        BY <2>1, ContextFromTheStart
      <3>2. /\ Len(d) = n + r /\ \A k \in 1..(n + r) : d[k] = k
        BY <1>1, <1>3, <2>1, ContextFromTheStart
      <3>3. \A i \in 1..r : n + i \in 1..(n + r)
        BY ONLY <1>1
      <3> HIDE DEF c, d, n, r
      <3>4. QED
        BY ONLY <1>1, <3>1, <3>2, <3>3
    <2>2. CASE Latest(Summaries(l)) # 0
      <3>1. PICK s \in 1..n, m \in Nat :
              /\ s = Latest(Summaries(l)) /\ m = Len(l[s].kept)
              /\ Len(c) = 1 + m + n - s
              /\ c[1] = s
              /\ \A k \in 1..m : c[k + 1] = l[s].kept[k]
              /\ \A k \in 1..(n - s) : c[1 + m + k] = s + k
        BY <2>2, ContextFromSummary
      <3>2. PICK s2 \in 1..Len(w), m2 \in Nat :
              /\ s2 = Latest(Summaries(w)) /\ m2 = Len(w[s2].kept)
              /\ Len(d) = 1 + m2 + Len(w) - s2
              /\ d[1] = s2
              /\ \A k \in 1..m2 : d[k + 1] = w[s2].kept[k]
              /\ \A k \in 1..(Len(w) - s2) : d[1 + m2 + k] = s2 + k
        BY <2>2, <1>1, <1>3, <1>4, ContextFromSummary
      <3>3. s2 = s /\ w[s] = l[s] /\ m2 = m
        BY <1>1, <1>3, <3>1, <3>2
      <3>4. /\ Len(d) = 1 + m + (n + r) - s
            /\ d[1] = s
            /\ \A k \in 1..m : d[k + 1] = l[s].kept[k]
            /\ \A k \in 1..(n + r - s) : d[1 + m + k] = s + k
        <4> HIDE DEF c, d, n, r
        <4>1. Len(w) = n + r
          BY ONLY <1>1
        <4>2. Len(d) = 1 + m2 + Len(w) - s2 /\ m2 = m /\ s2 = s
          BY ONLY <3>2, <3>3
        <4>3. Len(d) = 1 + m + (n + r) - s
          BY ONLY <4>1, <4>2
        <4>4. d[1] = s /\ \A k \in 1..m : d[k + 1] = l[s].kept[k]
          BY ONLY <3>2, <3>3
        <4>5. \A k \in 1..(n + r - s) : d[1 + m + k] = s + k
          <5> TAKE k \in 1..(n + r - s)
          <5>1. k \in 1..(Len(w) - s2)
            <6>1. n \in Nat /\ r \in Nat
              BY ONLY <1>1
            <6>2. QED
              BY ONLY <3>3, <4>1, <6>1, s \in 1..n, k \in 1..(n + r - s)
          <5>2. d[1 + m2 + k] = s2 + k
            BY ONLY <3>2, <5>1
          <5>3. QED
            BY ONLY <3>3, <5>2
        <4>6. QED
          BY ONLY <4>3, <4>4, <4>5
      <3> HIDE DEF c, d, n, r
      <3>5. n \in Nat /\ r \in Nat /\ n - s \in Nat /\ s \in 1..n /\ m \in Nat /\ Len(c) = 1 + m + n - s
        BY ONLY <1>1, <3>1, s \in 1..n, m \in Nat
      <3>6. ASSUME NEW k \in 1..Len(c)
            PROVE  d[k] = c[k]
        <4>1. CASE k = 1
          BY ONLY <4>1, <3>1, <3>4
        <4>2. CASE k \in 2..(m + 1)
          <5>1. k - 1 \in 1..m /\ k - 1 + 1 = k
            BY ONLY <4>2, m \in Nat
          <5>2. QED
            BY ONLY <5>1, <3>1, <3>4
        <4>3. CASE k > m + 1
          <5>1. k - 1 - m \in 1..(n - s) /\ 1 + m + (k - 1 - m) = k
            BY ONLY <4>3, <3>5, k \in 1..Len(c)
          <5>2. k - 1 - m \in 1..(n + r - s)
            BY ONLY <5>1, <1>1, <3>5, s \in 1..n
          <5>3. QED
            BY ONLY <5>1, <5>2, <3>1, <3>4
        <4>4. QED
          BY ONLY <4>1, <4>2, <4>3, m \in Nat, <3>6, <1>5
      <3>7. ASSUME NEW i \in 1..r
            PROVE  d[Len(c) + i] = n + i
        <4>1. n - s + i \in 1..(n + r - s) /\ 1 + m + (n - s + i) = Len(c) + i
          BY ONLY <3>5, i \in 1..r
        <4>2. d[1 + m + (n - s + i)] = s + (n - s + i)
          BY ONLY <3>4, <4>1
        <4>3. s + (n - s + i) = n + i
          BY ONLY <1>1, <3>7, s \in 1..n
        <4>4. QED
          BY ONLY <4>1, <4>2, <4>3
      <3>8. Len(d) = Len(c) + r
        <4>1. Len(d) = 1 + m + (n + r) - s
          BY ONLY <3>4
        <4>2. QED
          BY ONLY <3>5, <4>1
      <3>9. QED
        BY <3>6, <3>7, <3>8
    <2>3. QED
      BY <2>1, <2>2
  <1>8. d = c \o new
    <2> HIDE DEF c, d, n, r, new
    <2>1. c \in Seq(Nat) /\ d \in Seq(Nat)
      <3>1. 1..n \subseteq Nat /\ 1..(n + r) \subseteq Nat
        OBVIOUS
      <3>2. QED
        BY ONLY <1>5, <3>1, SeqMonotonic
    <2>2. /\ c \o new \in Seq(Nat)
          /\ Len(c \o new) = Len(c) + Len(new)
          /\ \A i \in 1..(Len(c) + Len(new)) :
               (c \o new)[i] = IF i <= Len(c) THEN c[i] ELSE new[i - Len(c)]
      BY ONLY <2>1, <1>6, ConcatProperties
    <2>3. \A i \in 1..(Len(c) + r) : d[i] = (c \o new)[i]
      <3> TAKE i \in 1..(Len(c) + r)
      <3>1. CASE i <= Len(c)
        <4>1. i \in 1..Len(c)
          BY ONLY <3>1, <1>5, <1>1, i \in 1..(Len(c) + r)
        <4>2. QED
          BY ONLY <4>1, <3>1, <1>6, <1>7, <2>2, i \in 1..(Len(c) + r)
      <3>2. CASE ~(i <= Len(c))
        <4>1. i - Len(c) \in 1..r /\ Len(c) + (i - Len(c)) = i
          BY ONLY <3>2, <1>5, <1>1, i \in 1..(Len(c) + r)
        <4>2. d[i] = n + (i - Len(c)) /\ new[i - Len(c)] = n + (i - Len(c))
          BY ONLY <4>1, <1>6, <1>7
        <4>3. (c \o new)[i] = new[i - Len(c)]
          BY ONLY <3>2, <2>2, <1>6, i \in 1..(Len(c) + r)
        <4>4. QED
          BY ONLY <4>2, <4>3
      <3>3. QED
        BY ONLY <3>1, <3>2
    <2>4. Len(d) = Len(c \o new)
      BY ONLY <1>6, <1>7, <2>2
    <2>5. \A i \in 1..Len(d) : d[i] = (c \o new)[i]
      BY ONLY <1>7, <2>3
    <2>6. QED
      BY ONLY <2>1, <2>2, <2>4, <2>5, SeqEqual
  <1>9. QED
    BY <1>3, <1>4, <1>7, <1>8

(* A new summary begins the context; what it keeps follows. *)
LEMMA ContextRestarts ==
  ASSUME NEW l \in Seq(Record), Keeps(l), NEW kp \in Seq(1..Len(l))
  PROVE  LET w == Append(l, Summary(kp)) IN
         /\ w \in Seq(Record) /\ Keeps(w)
         /\ Len(l) \in Nat /\ Len(w) = Len(l) + 1
         /\ \A k \in 1..Len(l) : w[k] = l[k]
         /\ w[Len(l) + 1] = Summary(kp)
         /\ Len(kp) \in Nat /\ Len(Context(w)) = 1 + Len(kp)
         /\ Context(w)[1] = Len(l) + 1
         /\ \A k \in 1..Len(kp) : Context(w)[k + 1] = kp[k]
  <1> DEFINE w == Append(l, Summary(kp))
  <1>1. Len(l) \in Nat /\ Len(kp) \in Nat
    OBVIOUS
  <1>2. kp \in Seq(Nat)
    <2>1. 1..Len(l) \subseteq Nat
      BY <1>1
    <2>2. QED
      BY <2>1, SeqMonotonic
  <1>3. Summary(kp) \in Record /\ Summary(kp).kind = "summary" /\ Summary(kp).kept = kp
    BY <1>2, EntriesAre
  <1>4. /\ w \in Seq(Record) /\ Len(w) = Len(l) + 1
        /\ \A k \in 1..Len(l) : w[k] = l[k]
        /\ w[Len(l) + 1] = Summary(kp)
    BY <1>3, AppendProperties
  <1> HIDE DEF w
  <1>5. DOMAIN w = 1..(Len(l) + 1) /\ DOMAIN l = 1..Len(l) /\ DOMAIN kp = 1..Len(kp)
    BY <1>4
  <1>6. \A k \in 1..Len(kp) : kp[k] \in 1..Len(l)
    OBVIOUS
  <1>7. Keeps(w)
    <2> SUFFICES ASSUME NEW k \in 1..(Len(l) + 1), w[k].kind = "summary",
                        NEW i \in DOMAIN w[k].kept
                 PROVE  w[k].kept[i] \in 1..(k - 1)
      BY <1>5 DEF Keeps
    <2>1. CASE k \in 1..Len(l)
      BY <2>1, <1>4, <1>5 DEF Keeps
    <2>2. CASE k = Len(l) + 1
      <3>1. w[k].kept = kp /\ k - 1 = Len(l)
        BY <2>2, <1>1, <1>3, <1>4
      <3>2. QED
        BY <3>1, <1>5, <1>6
    <2>3. QED
      BY <2>1, <2>2, <1>1
  <1>8. Latest(Summaries(w)) = Len(l) + 1
    <2>1. Summaries(w) \in SUBSET (1..(Len(l) + 1)) /\ Len(l) + 1 \in Nat
      BY <1>1, <1>5 DEF Summaries
    <2>2. Len(l) + 1 \in Summaries(w) /\ \A k \in Summaries(w) : k <= Len(l) + 1
      BY <1>1, <1>3, <1>4, <1>5 DEF Summaries
    <2>3. QED
      BY ONLY <2>1, <2>2, LatestIsTheOnly
  <1>9. PICK s \in 1..Len(w), m \in Nat :
           /\ s = Latest(Summaries(w)) /\ m = Len(w[s].kept)
           /\ Len(Context(w)) = 1 + m + Len(w) - s
           /\ Context(w)[1] = s
           /\ \A k \in 1..m : Context(w)[k + 1] = w[s].kept[k]
    <2>1. w \in Seq(Record) /\ Keeps(w) /\ Latest(Summaries(w)) # 0
      BY ONLY <1>1, <1>4, <1>7, <1>8
    <2>2. QED
      BY ONLY <2>1, ContextFromSummary
  <1>10. s = Len(l) + 1 /\ w[s].kept = kp /\ m = Len(kp)
    BY <1>3, <1>4, <1>8, <1>9
  <1>11. Len(Context(w)) = 1 + Len(kp)
    BY ONLY <1>1, <1>4, <1>9, <1>10
  <1>12. QED
    BY ONLY <1>1, <1>4, <1>7, <1>9, <1>10, <1>11 DEF w

-----------------------------------------------------------------------------
(* What is appended keeps a ledger sound *)

(* An entry of the context of a ledger that has grown was in the context   *)
(* before, or is new.                                                      *)
LEMMA Growth ==
  ASSUME NEW l \in Seq(Record), Keeps(l), NEW t \in Seq(Record),
         \A i \in 1..Len(t) : t[i].kind # "summary"
  PROVE  LET w == l \o t
             c == Context(l)
             d == Context(w)
         IN
         /\ Len(c) \in Nat /\ Len(d) = Len(c) + Len(t)
         /\ DOMAIN c = 1..Len(c) /\ DOMAIN d = 1..Len(d)
         /\ \A k \in 1..Len(c) : d[k] = c[k] /\ c[k] \in 1..Len(l) /\ w[d[k]] = l[c[k]]
         /\ \A i \in 1..Len(t) : d[Len(c) + i] = Len(l) + i /\ w[d[Len(c) + i]] = t[i]
         /\ \A k \in 1..Len(d) : k \in 1..Len(c) \/ \E i \in 1..Len(t) : k = Len(c) + i
  <1> DEFINE w == l \o t
             c == Context(l)
             d == Context(w)
  <1>1. /\ w \in Seq(Record)
        /\ Len(l) \in Nat /\ Len(t) \in Nat
        /\ \A k \in 1..Len(l) : w[k] = l[k]
        /\ \A i \in 1..Len(t) : w[Len(l) + i] = t[i]
    BY Joined
  <1>2. /\ Keeps(w)
        /\ Len(d) = Len(c) + Len(t)
        /\ \A k \in 1..Len(c) : d[k] = c[k]
        /\ \A i \in 1..Len(t) : d[Len(c) + i] = Len(l) + i
    BY ContextGrows
  <1>3. c \in Seq(1..Len(l)) /\ Len(c) \in Nat /\ DOMAIN c = 1..Len(c)
    BY ContextIsPositions
  <1>4. DOMAIN d = 1..Len(d)
    BY <1>1, <1>2, ContextIsPositions
  <1>5. \A k \in 1..Len(c) : c[k] \in 1..Len(l)
    BY <1>3
  <1> HIDE DEF w, c, d
  <1>6. ASSUME NEW k \in 1..Len(d), k \notin 1..Len(c)
        PROVE  \E i \in 1..Len(t) : k = Len(c) + i
    <2>1. k - Len(c) \in 1..Len(t) /\ k = Len(c) + (k - Len(c))
      BY ONLY <1>1, <1>2, <1>3, <1>6
    <2>2. QED
      BY ONLY <2>1
  <1>7. QED
    BY ONLY <1>1, <1>2, <1>3, <1>4, <1>5, <1>6 DEF w, c, d

(* What is written after a ledger comes last in its context.               *)
LEMMA ForwardGrows ==
  ASSUME NEW l \in Seq(Record), Keeps(l), Forward(l), NEW t \in Seq(Record),
         \A i \in 1..Len(t) : t[i].kind # "summary"
  PROVE  Forward(l \o t)
  <1> DEFINE w == l \o t
             c == Context(l)
             d == Context(w)
  <1>1. /\ Len(c) \in Nat /\ Len(d) = Len(c) + Len(t)
        /\ DOMAIN c = 1..Len(c) /\ DOMAIN d = 1..Len(d)
        /\ \A k \in 1..Len(c) : d[k] = c[k] /\ c[k] \in 1..Len(l) /\ w[d[k]] = l[c[k]]
        /\ \A i \in 1..Len(t) : d[Len(c) + i] = Len(l) + i /\ w[d[Len(c) + i]] = t[i]
        /\ \A k \in 1..Len(d) : k \in 1..Len(c) \/ \E i \in 1..Len(t) : k = Len(c) + i
    BY Growth
  <1>2. \A i, j \in DOMAIN c : (i < j /\ (i # 1 \/ l[c[1]].kind # "summary")) => c[i] < c[j]
    BY DEF Forward
  <1>3. Len(l) \in Nat /\ Len(t) \in Nat
    OBVIOUS
  <1> HIDE DEF c, d, w
  <1>4. ASSUME NEW i \in 1..Len(d), NEW j \in 1..Len(d), i < j,
               i # 1 \/ w[d[1]].kind # "summary"
        PROVE  d[i] < d[j]
    <2>1. CASE j \in 1..Len(c)
      <3>1. i \in 1..Len(c) /\ 1 \in 1..Len(c)
        BY ONLY <1>1, <1>3, <1>4, <2>1
      <3>2. d[i] = c[i] /\ d[j] = c[j] /\ w[d[1]] = l[c[1]]
        BY ONLY <1>1, <2>1, <3>1
      <3>3. c[i] < c[j]
        BY ONLY <1>1, <1>2, <1>4, <2>1, <3>1, <3>2
      <3>4. QED
        BY ONLY <3>2, <3>3
    <2>2. CASE j \notin 1..Len(c) /\ i \in 1..Len(c)
      <3>1. PICK y \in 1..Len(t) : d[j] = Len(l) + y
        BY ONLY <1>1, <1>4, <2>2
      <3>2. d[i] \in 1..Len(l)
        BY ONLY <1>1, <2>2
      <3>3. QED
        BY ONLY <1>3, <3>1, <3>2, y \in 1..Len(t)
    <2>3. CASE j \notin 1..Len(c) /\ i \notin 1..Len(c)
      <3>1. PICK y \in 1..Len(t) : d[j] = Len(l) + y /\ j = Len(c) + y
        BY ONLY <1>1, <1>4, <2>3
      <3>2. PICK x \in 1..Len(t) : d[i] = Len(l) + x /\ i = Len(c) + x
        BY ONLY <1>1, <1>4, <2>3
      <3>3. QED
        BY ONLY <1>1, <1>3, <1>4, <3>1, <3>2, x \in 1..Len(t), y \in 1..Len(t)
    <2>4. QED
      BY ONLY <2>1, <2>2, <2>3
  <1>5. \A i, j \in DOMAIN d : (i < j /\ (i # 1 \/ w[d[1]].kind # "summary")) => d[i] < d[j]
    BY ONLY <1>1, <1>4
  <1>6. QED
    BY <1>5 DEF Forward, w, d

(* New words of the user are in the context, and old ones stay there.      *)
LEMMA HeardGrows ==
  ASSUME NEW l \in Seq(Record), Keeps(l), Heard(l), NEW t \in Seq(Record),
         \A i \in 1..Len(t) : t[i].kind # "summary"
  PROVE  Heard(l \o t)
  <1> DEFINE w == l \o t
             c == Context(l)
             d == Context(w)
             n == Len(l)
             r == Len(t)
  <1>1. /\ Len(c) \in Nat /\ Len(d) = Len(c) + Len(t)
        /\ DOMAIN c = 1..Len(c) /\ DOMAIN d = 1..Len(d)
        /\ \A k \in 1..Len(c) : d[k] = c[k] /\ c[k] \in 1..Len(l) /\ w[d[k]] = l[c[k]]
        /\ \A i \in 1..Len(t) : d[Len(c) + i] = Len(l) + i /\ w[d[Len(c) + i]] = t[i]
    BY Growth
  <1>2. /\ w \in Seq(Record) /\ n \in Nat /\ r \in Nat /\ Len(w) = n + r
        /\ DOMAIN l = 1..n /\ DOMAIN w = 1..(n + r)
        /\ \A k \in 1..n : w[k] = l[k]
        /\ \A i \in 1..r : w[n + i] = t[i]
        /\ \A k \in 1..(n + r) : k \in 1..n \/ \E i \in 1..r : k = n + i
    BY Joined
  <1>3. /\ Users(w) = {k \in 1..(n + r) : IsUser(w[k])}
        /\ Users(l) = {k \in 1..n : IsUser(l[k])}
    BY <1>2 DEF Users
  <1> DEFINE u == Latest(Users(w))
  <1>4. /\ u \in 0..(n + r)
        /\ u # 0 => u \in Users(w)
        /\ \A k \in Users(w) : k <= u
    <2>1. Users(w) \in SUBSET (1..(n + r)) /\ n + r \in Nat
      BY <1>2, <1>3
    <2> HIDE DEF n, r, w
    <2>2. /\ Latest(Users(w)) \in 0..(n + r)
          /\ Users(w) = {} <=> Latest(Users(w)) = 0
          /\ Users(w) # {} => Latest(Users(w)) \in Users(w)
          /\ \A k \in Users(w) : k <= Latest(Users(w))
      BY ONLY <2>1, LatestIs
    <2>3. QED
      BY ONLY <2>2
  <1>5. Latest(Users(l)) # 0 => Latest(Users(l)) \in ToSet(c)
    BY DEF Heard
  <1> HIDE DEF c, d, w, n, u
  <1>6. ASSUME u # 0
        PROVE  u \in ToSet(d)
    <2>1. CASE u \in 1..n
      <3>1. Users(w) = Users(l)
        <4>1. \A k \in Users(w) : k \in 1..n
          <5> TAKE k \in Users(w)
          <5>1. k \in 1..(n + r) /\ k <= u
            BY ONLY <1>3, <1>4, k \in Users(w)
          <5>2. QED
            BY ONLY <1>2, <2>1, <5>1
        <4>2. \A k \in 1..n : w[k] = l[k] /\ k \in 1..(n + r)
          BY ONLY <1>2
        <4>3. QED
          BY ONLY <1>3, <4>1, <4>2
      <3>2. u \in ToSet(c)
        BY <1>5, <1>6, <3>1 DEF u
      <3>3. PICK k \in 1..Len(c) : c[k] = u
        BY ONLY <1>1, <3>2 DEF ToSet
      <3>4. k \in 1..Len(d) /\ d[k] = u
        BY ONLY <1>1, <1>2, <3>3, k \in 1..Len(c) DEF r
      <3>5. QED
        BY ONLY <1>1, <3>4 DEF ToSet
    <2>2. CASE u \notin 1..n
      <3>1. PICK i \in 1..r : u = n + i
        BY ONLY <1>2, <1>3, <1>4, <1>6, <2>2
      <3>2. d[Len(c) + i] = u
        BY <1>1, <3>1 DEF n
      <3>3. Len(c) + i \in 1..Len(d)
        BY ONLY <1>1, <1>2, i \in 1..r DEF r
      <3>4. QED
        BY ONLY <1>1, <3>2, <3>3 DEF ToSet
    <2>3. QED
      BY <2>1, <2>2
  <1>7. QED
    BY <1>6 DEF Heard, u, d, w

(* Words of the user and answers of the model. *)
LEMMA WordsAreSound ==
  ASSUME NEW l, Sound(l), NEW t \in Seq(Record),
         \A i \in 1..Len(t) : t[i].kind \notin {"summary", "result"} /\ t[i].of = NoCall
  PROVE  Sound(l \o t)
  <1> DEFINE w == l \o t
             c == Context(l)
             d == Context(w)
             n == Len(l)
             r == Len(t)
  <1>0. l \in Seq(Record) /\ Keeps(l) /\ Once(l) /\ Forward(l) /\ Follow(l) /\ Paired(l) /\ Heard(l)
    BY DEF Sound
  <1>1. /\ Len(c) \in Nat /\ Len(d) = Len(c) + Len(t)
        /\ DOMAIN c = 1..Len(c) /\ DOMAIN d = 1..Len(d)
        /\ \A k \in 1..Len(c) : d[k] = c[k] /\ c[k] \in 1..Len(l) /\ w[d[k]] = l[c[k]]
        /\ \A i \in 1..Len(t) : d[Len(c) + i] = Len(l) + i /\ w[d[Len(c) + i]] = t[i]
        /\ \A k \in 1..Len(d) : k \in 1..Len(c) \/ \E i \in 1..Len(t) : k = Len(c) + i
    BY <1>0, Growth
  <1>2. /\ w \in Seq(Record) /\ n \in Nat /\ r \in Nat /\ Len(w) = n + r
        /\ DOMAIN l = 1..n /\ DOMAIN w = 1..(n + r)
        /\ \A k \in 1..n : w[k] = l[k]
        /\ \A i \in 1..r : w[n + i] = t[i]
        /\ \A k \in 1..(n + r) : k \in 1..n \/ \E i \in 1..r : k = n + i
    BY <1>0, Joined
  <1>3. Keeps(w) /\ Forward(w) /\ Heard(w)
    BY <1>0, ContextGrows, ForwardGrows, HeardGrows
  <1>4. Paired(l) <=> \A k \in DOMAIN c : l[c[k]].kind = "result" =>
                        \E j \in 1..(k - 1) : l[c[k]].of \in ToSet(l[c[j]].calls)
    BY DEF Paired
  <1>12. \A i \in 1..r : t[i].kind \notin {"summary", "result"} /\ t[i].of = NoCall
    OBVIOUS
  <1>6. \A k \in 1..(n + r) :
          (w[k].kind = "result" \/ w[k].of # NoCall) => (k \in 1..n /\ w[k] = l[k])
    <2> HIDE DEF w, n, r
    <2> TAKE k \in 1..(n + r)
    <2>1. CASE k \in 1..n
      BY ONLY <1>2, <2>1
    <2>2. CASE k \notin 1..n
      <3>1. PICK i \in 1..r : w[k] = t[i]
        BY ONLY <1>2, <2>2, k \in 1..(n + r)
      <3>2. QED
        BY ONLY <3>1, <1>12
    <2>3. QED
      BY ONLY <2>1, <2>2
  <1>7. \A k \in 1..Len(d) : w[d[k]].kind = "result" => k \in 1..Len(c)
    <2>1. r = Len(t)
      OBVIOUS
    <2> HIDE DEF w, c, d, n, r
    <2> SUFFICES ASSUME NEW k \in 1..Len(d), k \notin 1..Len(c)
                 PROVE  w[d[k]].kind # "result"
      OBVIOUS
    <2>2. PICK i \in 1..Len(t) : k = Len(c) + i
      BY ONLY <1>1, k \in 1..Len(d), k \notin 1..Len(c)
    <2>3. w[d[k]] = t[i]
      BY ONLY <1>1, <2>2, i \in 1..Len(t)
    <2>4. QED
      BY ONLY <1>12, <2>1, <2>3, i \in 1..Len(t)
  <1> HIDE DEF w, c, d, n, r
  <1>8. Once(w)
    <2>1. \A k \in 1..n : k \in 1..(n + r)
      BY ONLY <1>2
    <2>2. IssuedBy(l) \subseteq IssuedBy(w)
      BY ONLY <1>2, <2>1 DEF IssuedBy
    <2>3. \A k \in 1..(n + r) : w[k].of # NoCall <=> w[k].kind = "result"
      <3> TAKE k \in 1..(n + r)
      <3>1. CASE k \in 1..n
        BY ONLY <3>1, <1>0, <1>2 DEF Once
      <3>2. CASE k \notin 1..n
        BY ONLY <3>2, <1>6, k \in 1..(n + r)
      <3>3. QED
        BY ONLY <3>1, <3>2
    <2>4. \A k \in 1..(n + r) : w[k].of # NoCall => w[k].of \in IssuedBy(w)
      BY ONLY <1>0, <1>2, <1>6, <2>2 DEF Once
    <2>5. \A k, m \in 1..(n + r) : w[k].of # NoCall /\ w[k].of = w[m].of => k = m
      BY ONLY <1>0, <1>2, <1>6 DEF Once
    <2>6. QED
      BY ONLY <1>2, <2>3, <2>4, <2>5 DEF Once
  <1>9. Follow(w)
    <2> SUFFICES ASSUME NEW k \in 1..(n + r), w[k].kind = "result"
                 PROVE  \E j \in 1..(k - 1) :
                          /\ k - j \in DOMAIN w[j].calls
                          /\ w[j].calls[k - j] = w[k].of
                          /\ \A i \in (j + 1)..k : w[i].kind = "result"
      BY <1>2 DEF Follow
    <2>1. k \in 1..n /\ w[k] = l[k]
      BY <1>6
    <2>2. PICK j \in 1..(k - 1) :
            /\ k - j \in DOMAIN l[j].calls
            /\ l[j].calls[k - j] = l[k].of
            /\ \A i \in (j + 1)..k : l[i].kind = "result"
      BY ONLY <1>0, <1>2, <2>1, w[k].kind = "result" DEF Follow
    <2>3. j \in 1..n /\ w[j] = l[j]
      BY ONLY <1>2, <2>1, j \in 1..(k - 1)
    <2>4. \A i \in (j + 1)..k : w[i] = l[i]
      BY ONLY <1>2, <2>1, <2>3
    <2>5. QED
      BY ONLY <2>1, <2>2, <2>3, <2>4, j \in 1..(k - 1)
  <1>10. Paired(w)
    <2> SUFFICES ASSUME NEW k \in 1..Len(d), w[d[k]].kind = "result"
                 PROVE  \E j \in 1..(k - 1) : w[d[k]].of \in ToSet(w[d[j]].calls)
      BY <1>1 DEF Paired, d
    <2>1. k \in 1..Len(c) /\ w[d[k]] = l[c[k]]
      BY ONLY <1>1, <1>7, k \in 1..Len(d), w[d[k]].kind = "result"
    <2>2. PICK j \in 1..(k - 1) : l[c[k]].of \in ToSet(l[c[j]].calls)
      BY ONLY <1>0, <1>1, <1>4, <2>1, w[d[k]].kind = "result"
    <2>3. j \in 1..Len(c)
      BY ONLY <1>1, <2>1, j \in 1..(k - 1)
    <2>4. w[d[j]] = l[c[j]]
      BY ONLY <1>1, <2>3
    <2>5. QED
      BY ONLY <2>1, <2>2, <2>4
  <1>11. QED
    BY <1>2, <1>3, <1>8, <1>9, <1>10 DEF Sound, w

(* The result of the first call that is open. *)
LEMMA ResultsAreSound ==
  ASSUME NEW l, Sound(l), NEW b \in Seq(Calls), b # <<>>, Open(l, b)
  PROVE  /\ Sound(l \o <<Result(b[1])>>)
         /\ Open(l \o <<Result(b[1])>>, Tail(b))
  <1> DEFINE t == <<Result(b[1])>>
             w == l \o t
             c == Context(l)
             d == Context(w)
             n == Len(l)
  <1>0. l \in Seq(Record) /\ Keeps(l) /\ Once(l) /\ Forward(l) /\ Follow(l) /\ Paired(l) /\ Heard(l)
    BY DEF Sound
  <1>1. /\ b[1] \in Calls /\ b[1] # NoCall /\ Len(b) \in Nat /\ 1 \in 1..Len(b)
    BY ReactLoopAssumption
  <1>2. /\ t \in Seq(Record) /\ Len(t) = 1
        /\ t[1].kind = "result" /\ t[1].of = b[1] /\ t[1].calls = <<>>
    <2>1. /\ Result(b[1]) \in Record /\ Result(b[1]).kind = "result"
          /\ Result(b[1]).of = b[1] /\ Result(b[1]).calls = <<>>
      BY <1>1, EntriesAre
    <2>2. QED
      BY <2>1
  <1>3. \A i \in 1..Len(t) : t[i].kind # "summary"
    BY <1>2
  <1>4. /\ Len(c) \in Nat /\ Len(d) = Len(c) + Len(t)
        /\ DOMAIN c = 1..Len(c) /\ DOMAIN d = 1..Len(d)
        /\ \A k \in 1..Len(c) : d[k] = c[k] /\ c[k] \in 1..Len(l) /\ w[d[k]] = l[c[k]]
        /\ \A i \in 1..Len(t) : d[Len(c) + i] = Len(l) + i /\ w[d[Len(c) + i]] = t[i]
        /\ \A k \in 1..Len(d) : k \in 1..Len(c) \/ \E i \in 1..Len(t) : k = Len(c) + i
    <2> HIDE DEF t
    <2>1. QED
      BY <1>0, <1>2, <1>3, Growth
  <1>5. /\ w \in Seq(Record) /\ n \in Nat /\ Len(w) = n + 1
        /\ DOMAIN l = 1..n /\ DOMAIN w = 1..(n + 1)
        /\ \A k \in 1..n : w[k] = l[k]
        /\ w[n + 1] = t[1]
    <2> HIDE DEF t
    <2>1. /\ w \in Seq(Record) /\ n \in Nat /\ Len(w) = n + Len(t)
          /\ DOMAIN l = 1..n /\ DOMAIN w = 1..(n + Len(t))
          /\ \A k \in 1..n : w[k] = l[k]
          /\ \A i \in 1..Len(t) : w[n + i] = t[i]
      BY <1>0, <1>2, Joined
    <2> HIDE DEF w, n
    <2>2. Len(t) = 1 /\ 1 \in 1..Len(t)
      BY ONLY <1>2
    <2>3. w[n + 1] = t[1]
      BY ONLY <2>1, <2>2
    <2>4. QED
      BY ONLY <2>1, <2>2, <2>3
  <1>6. Keeps(w) /\ Forward(w) /\ Heard(w)
    <2> HIDE DEF t
    <2>1. QED
      BY <1>0, <1>2, <1>3, ContextGrows, ForwardGrows, HeardGrows
  <1>7. PICK a \in 1..n :
          /\ l[a].kind = "answer"
          /\ Len(l[a].calls) = n - a + Len(b)
          /\ \A i \in 1..Len(b) : b[i] = l[a].calls[n - a + i]
          /\ \A i \in (a + 1)..n : l[i].kind = "result"
    BY DEF Open
  <1>8. /\ \A i, k \in 1..Len(b) : b[i] = b[k] => i = k
        /\ \A i \in 1..Len(b), k \in 1..n : l[k].of # b[i]
    BY DEF Open
  <1>9. l[a].calls \in Seq(Calls) /\ DOMAIN l[a].calls = 1..Len(l[a].calls)
    <2>1. l[a] \in Record
      BY <1>0
    <2>2. l[a].calls \in Seq(Calls)
      BY <2>1 DEF Record
    <2>3. QED
      BY <2>2
  <1> HIDE DEF t, w, c, d, n
  <1>10. /\ n - a + 1 \in DOMAIN l[a].calls /\ l[a].calls[n - a + 1] = b[1]
         /\ w[a] = l[a] /\ a \in 1..(n + 1 - 1)
    BY ONLY <1>1, <1>5, <1>7, <1>9, a \in 1..n
  <1>11. \A i \in (a + 1)..(n + 1) : w[i].kind = "result"
    <2> TAKE i \in (a + 1)..(n + 1)
    <2>1. CASE i = n + 1
      BY ONLY <2>1, <1>2, <1>5
    <2>2. CASE i # n + 1
      <3>1. i \in (a + 1)..n /\ i \in 1..n
        BY ONLY <2>2, <1>5, a \in 1..n, i \in (a + 1)..(n + 1)
      <3>2. QED
        BY ONLY <3>1, <1>5, <1>7
    <2>3. QED
      BY ONLY <2>1, <2>2
  <1>12. \A k \in 1..(n + 1) : (k \in 1..n /\ w[k] = l[k]) \/ (k = n + 1 /\ w[k] = t[1])
    BY ONLY <1>5
  <1>13. Once(w)
    <2>1. \A k \in 1..n : k \in 1..(n + 1)
      BY ONLY <1>5
    <2>2. IssuedBy(l) \subseteq IssuedBy(w)
      BY ONLY <1>5, <2>1 DEF IssuedBy
    <2>3. b[1] \in IssuedBy(w)
      <3>1. b[1] \in ToSet(l[a].calls)
        BY ONLY <1>10 DEF ToSet
      <3>2. QED
        BY ONLY <1>5, <2>2, <3>1, a \in 1..n DEF IssuedBy
    <2>4. \A k \in 1..(n + 1) : w[k].of # NoCall <=> w[k].kind = "result"
      <3> TAKE k \in 1..(n + 1)
      <3>1. CASE k \in 1..n /\ w[k] = l[k]
        BY ONLY <3>1, <1>0, <1>5 DEF Once
      <3>2. CASE w[k] = t[1]
        BY ONLY <3>2, <1>1, <1>2
      <3>3. QED
        BY ONLY <3>1, <3>2, <1>12
    <2>5. \A k \in 1..(n + 1) : w[k].of # NoCall => w[k].of \in IssuedBy(w)
      <3> TAKE k \in 1..(n + 1)
      <3>1. CASE k \in 1..n /\ w[k] = l[k]
        BY ONLY <3>1, <1>0, <1>5, <2>2 DEF Once
      <3>2. CASE w[k] = t[1]
        BY ONLY <3>2, <1>2, <2>3
      <3>3. QED
        BY ONLY <3>1, <3>2, <1>12
    <2>6. ASSUME NEW k \in 1..(n + 1), NEW m \in 1..(n + 1), w[k].of # NoCall, w[k].of = w[m].of
          PROVE  k = m
      <3>1. CASE k \in 1..n /\ w[k] = l[k] /\ m \in 1..n /\ w[m] = l[m]
        BY ONLY <3>1, <1>0, <1>5, <2>6 DEF Once
      <3>2. CASE k \in 1..n /\ w[k] = l[k] /\ w[m] = t[1]
        BY ONLY <3>2, <1>1, <1>2, <1>8, <2>6
      <3>3. CASE w[k] = t[1] /\ m \in 1..n /\ w[m] = l[m]
        BY ONLY <3>3, <1>1, <1>2, <1>8, <2>6
      <3>4. CASE k = n + 1 /\ m = n + 1
        BY ONLY <3>4
      <3>5. QED
        BY ONLY <3>1, <3>2, <3>3, <3>4, <1>12, k \in 1..(n + 1), m \in 1..(n + 1)
    <2>7. QED
      BY ONLY <1>5, <2>4, <2>5, <2>6 DEF Once
  <1>14. Follow(w)
    <2> SUFFICES ASSUME NEW k \in 1..(n + 1), w[k].kind = "result"
                 PROVE  \E j \in 1..(k - 1) :
                          /\ k - j \in DOMAIN w[j].calls
                          /\ w[j].calls[k - j] = w[k].of
                          /\ \A i \in (j + 1)..k : w[i].kind = "result"
      BY <1>5 DEF Follow
    <2>1. CASE k \in 1..n /\ w[k] = l[k]
      <3>1. PICK j \in 1..(k - 1) :
              /\ k - j \in DOMAIN l[j].calls
              /\ l[j].calls[k - j] = l[k].of
              /\ \A i \in (j + 1)..k : l[i].kind = "result"
        BY ONLY <1>0, <1>5, <2>1, w[k].kind = "result" DEF Follow
      <3>2. j \in 1..n /\ w[j] = l[j]
        BY ONLY <1>5, <2>1, j \in 1..(k - 1)
      <3>3. \A i \in (j + 1)..k : w[i] = l[i]
        BY ONLY <1>5, <2>1, <3>2
      <3>4. QED
        BY ONLY <2>1, <3>1, <3>2, <3>3, j \in 1..(k - 1)
    <2>2. CASE k = n + 1 /\ w[k] = t[1]
      <3>1. k - a = n - a + 1
        BY ONLY <2>2, <1>5, a \in 1..n
      <3>2. a \in 1..(k - 1)
        BY ONLY <2>2, <1>10, <1>5
      <3>3. k - a \in DOMAIN w[a].calls /\ w[a].calls[k - a] = w[k].of
        BY ONLY <2>2, <3>1, <1>2, <1>10
      <3>4. QED
        BY ONLY <2>2, <3>2, <3>3, <1>11
    <2>3. QED
      BY ONLY <2>1, <2>2, <1>12
  <1>15. Latest(Summaries(l)) < a
    <2>1. Summaries(l) \in SUBSET (1..n) /\ n \in Nat
      BY ONLY <1>5 DEF Summaries
    <2>2. /\ Latest(Summaries(l)) \in 0..n
          /\ Latest(Summaries(l)) # 0 => Latest(Summaries(l)) \in Summaries(l)
      BY ONLY <2>1, LatestIs
    <2>3. \A k \in a..n : k \notin Summaries(l)
      BY ONLY <1>5, <1>7, a \in 1..n DEF Summaries
    <2>4. QED
      BY ONLY <2>2, <2>3, <1>5, a \in 1..n
  <1>16. PICK p \in 1..Len(c) : c[p] = a
    BY <1>0, <1>15, ContextHasTheRest DEF c, n
  <1>17. Paired(w)
    <2> SUFFICES ASSUME NEW k \in 1..Len(d), w[d[k]].kind = "result"
                 PROVE  \E j \in 1..(k - 1) : w[d[k]].of \in ToSet(w[d[j]].calls)
      BY <1>4 DEF Paired, d
    <2>1. CASE k \in 1..Len(c)
      <3>1. w[d[k]] = l[c[k]]
        BY ONLY <1>4, <2>1
      <3>2. PICK j \in 1..(k - 1) : l[c[k]].of \in ToSet(l[c[j]].calls)
        BY <1>0, <1>4, <2>1, <3>1 DEF Paired, c
      <3>3. j \in 1..Len(c)
        BY ONLY <1>4, <2>1, j \in 1..(k - 1)
      <3>4. w[d[j]] = l[c[j]]
        BY ONLY <1>4, <3>3
      <3>5. QED
        BY ONLY <3>1, <3>2, <3>4
    <2>2. CASE k \notin 1..Len(c)
      <3>1. PICK i \in 1..Len(t) : k = Len(c) + i
        BY ONLY <1>4, <2>2, k \in 1..Len(d)
      <3>2. w[d[k]] = t[i] /\ i = 1
        BY ONLY <1>2, <1>4, <3>1, i \in 1..Len(t)
      <3>3. w[d[k]].of = b[1]
        BY ONLY <1>2, <3>2
      <3>4. w[d[p]] = l[a]
        BY ONLY <1>4, <1>16, p \in 1..Len(c)
      <3>5. p \in 1..(k - 1)
        BY ONLY <1>4, <3>1, <3>2, p \in 1..Len(c)
      <3>6. b[1] \in ToSet(l[a].calls)
        BY ONLY <1>10 DEF ToSet
      <3>7. QED
        BY ONLY <3>3, <3>4, <3>5, <3>6
    <2>3. QED
      BY ONLY <2>1, <2>2
  <1>18. Sound(w)
    BY ONLY <1>5, <1>6, <1>13, <1>14, <1>17 DEF Sound
  <1>19. Open(w, Tail(b))
    <2>1. /\ Tail(b) \in Seq(Calls) /\ Len(Tail(b)) = Len(b) - 1
          /\ \A i \in 1..(Len(b) - 1) : Tail(b)[i] = b[i + 1]
      BY HeadTailProperties
    <2>2. \A i \in 1..(Len(b) - 1) : i + 1 \in 1..Len(b) /\ i + 1 # 1
      BY ONLY <1>1
    <2>3. /\ a \in 1..Len(w)
          /\ w[a].kind = "answer"
          /\ Len(w[a].calls) = Len(w) - a + Len(Tail(b))
      <3>1. a \in 1..Len(w) /\ w[a] = l[a]
        BY ONLY <1>5, <1>10, a \in 1..n
      <3>2. Len(l[a].calls) = n - a + Len(b) /\ l[a].kind = "answer"
        BY ONLY <1>7
      <3>3. n - a + Len(b) = Len(w) - a + Len(Tail(b))
        BY ONLY <1>1, <1>5, <2>1, a \in 1..n
      <3>4. QED
        BY ONLY <3>1, <3>2, <3>3
    <2>4. \A i \in 1..Len(Tail(b)) : Tail(b)[i] = w[a].calls[Len(w) - a + i]
      <3> TAKE i \in 1..Len(Tail(b))
      <3>1. i + 1 \in 1..Len(b) /\ Tail(b)[i] = b[i + 1]
        BY ONLY <2>1, <2>2, i \in 1..Len(Tail(b))
      <3>2. b[i + 1] = l[a].calls[n - a + (i + 1)]
        BY ONLY <1>7, <3>1
      <3>3. n - a + (i + 1) = Len(w) - a + i
        BY ONLY <1>1, <1>5, <2>1, a \in 1..n, i \in 1..Len(Tail(b))
      <3>4. QED
        BY ONLY <1>10, <3>1, <3>2, <3>3
    <2>5. \A i \in (a + 1)..Len(w) : w[i].kind = "result"
      BY ONLY <1>5, <1>11
    <2>6. ASSUME NEW i \in 1..Len(Tail(b)), NEW k \in 1..Len(Tail(b)), Tail(b)[i] = Tail(b)[k]
          PROVE  i = k
      <3>1. i + 1 \in 1..Len(b) /\ k + 1 \in 1..Len(b) /\ b[i + 1] = b[k + 1]
        BY ONLY <2>1, <2>2, <2>6
      <3>2. i + 1 = k + 1
        BY ONLY <3>1, <1>8
      <3>3. QED
        BY ONLY <3>2, <1>1, <2>1, i \in 1..Len(Tail(b)), k \in 1..Len(Tail(b))
    <2>7. ASSUME NEW i \in 1..Len(Tail(b)), NEW k \in 1..Len(w)
          PROVE  w[k].of # Tail(b)[i]
      <3>1. i + 1 \in 1..Len(b) /\ i + 1 # 1 /\ Tail(b)[i] = b[i + 1]
        BY ONLY <2>1, <2>2, <2>7
      <3>2. CASE k \in 1..n /\ w[k] = l[k]
        BY ONLY <3>1, <3>2, <1>8
      <3>3. CASE w[k] = t[1]
        <4>1. b[i + 1] # b[1]
          BY ONLY <3>1, <1>1, <1>8
        <4>2. QED
          BY ONLY <4>1, <3>1, <3>3, <1>2
      <3>4. QED
        BY ONLY <3>2, <3>3, <1>12, <1>5, k \in 1..Len(w)
    <2>8. QED
      BY ONLY <2>3, <2>4, <2>5, <2>6, <2>7 DEF Open
  <1>20. QED
    BY <1>18, <1>19 DEF w, t

(* A summary: compactSelection cuts where every call has its result, and   *)
(* keeps the last words of the user.                                       *)
LEMMA SummariesAreSound ==
  ASSUME Sound(ledger), NEW cut \in Boundaries(Context(ledger))
  PROVE  /\ Kept(Context(ledger), cut) \in Seq(1..Len(ledger))
         /\ Sound(Append(ledger, Summary(Kept(Context(ledger), cut))))
  <1> DEFINE l == ledger
             n == Len(l)
             c == Context(l)
             heard == {k \in DOMAIN c : IsUser(l[c[k]])}
             user == Latest(heard)
             said == IF user \in 1..(cut - 1) THEN <<c[user]>> ELSE <<>>
             rest == SubSeq(c, cut, Len(c))
             kp == Kept(c, cut)
             w == Append(l, Summary(kp))
             d == Context(w)
  <1>0. l \in Seq(Record) /\ Keeps(l) /\ Once(l) /\ Forward(l) /\ Follow(l) /\ Paired(l) /\ Heard(l)
    BY DEF Sound
  <1>1. /\ c \in Seq(1..n) /\ Len(c) \in Nat /\ DOMAIN c = 1..Len(c) /\ n \in Nat
        /\ \A k \in 1..Len(c) : c[k] \in 1..n
    BY <1>0, ContextIsPositions
  <1>2. /\ cut \in 2..Len(c)
        /\ OpenCalls(c, cut - 1) = {}
    BY DEF Boundaries
  <1>3. /\ user \in 0..Len(c)
        /\ user # 0 => user \in heard
        /\ \A k \in heard : k <= user
    <2>1. heard \in SUBSET (1..Len(c)) /\ Len(c) \in Nat
      BY <1>1
    <2> HIDE DEF heard
    <2>2. QED
      BY ONLY <2>1, LatestIs
  <1>4. kp = said \o rest
    BY DEF Kept
  <1>5. /\ said \in Seq(1..n)
        /\ said # <<>> => (user \in 1..(cut - 1) /\ Len(said) = 1 /\ said[1] = c[user])
        /\ said = <<>> => Len(said) = 0
        /\ Len(said) \in {0, 1}
        /\ (user \in 1..(cut - 1)) => said # <<>>
    <2>1. CASE user \in 1..(cut - 1)
      <3>1. user \in 1..Len(c)
        BY <1>1, <1>2, <2>1
      <3>2. c[user] \in 1..n
        BY <1>1, <3>1
      <3>3. said = <<c[user]>>
        BY <2>1
      <3> HIDE DEF user, c, n, said
      <3>4. QED
        BY <2>1, <3>2, <3>3
    <2>2. CASE user \notin 1..(cut - 1)
      <3>1. said = <<>>
        BY <2>2
      <3> HIDE DEF user, c, n, said
      <3>2. QED
        BY <2>2, <3>1
    <2>3. QED
      BY <2>1, <2>2
  <1>6. /\ rest \in Seq(1..n)
        /\ Len(rest) = Len(c) - cut + 1
        /\ \A i \in 1..(Len(c) - cut + 1) : rest[i] = c[cut + i - 1]
    <2>1. \A i \in cut..Len(c) : c[i] \in 1..n
      BY <1>1, <1>2
    <2>2. cut \in Int /\ Len(c) \in Int /\ cut <= Len(c)
      BY <1>1, <1>2
    <2> HIDE DEF c, n
    <2>3. QED
      BY <2>1, <2>2, SubSeqProperties
  <1> HIDE DEF c, n, said, rest, user, heard
  <1>7. /\ kp \in Seq(1..n) /\ Len(kp) = Len(said) + Len(rest)
        /\ \A i \in 1..(Len(said) + Len(rest)) :
             kp[i] = IF i <= Len(said) THEN said[i] ELSE rest[i - Len(said)]
    <2> HIDE DEF kp
    <2>1. QED
      BY ONLY <1>4, <1>5, <1>6, ConcatProperties
  <1>8. /\ w \in Seq(Record) /\ Keeps(w)
        /\ Len(w) = n + 1
        /\ \A k \in 1..n : w[k] = l[k]
        /\ w[n + 1] = Summary(kp)
        /\ Len(d) = 1 + Len(kp)
        /\ d[1] = n + 1
        /\ \A k \in 1..Len(kp) : d[k + 1] = kp[k]
    <2> HIDE DEF kp
    <2>1. QED
      BY <1>0, <1>7, ContextRestarts DEF n
  <1>9. /\ Summary(kp).kind = "summary" /\ Summary(kp).of = NoCall
        /\ Summary(kp).calls = <<>>
    <2>1. 1..n \subseteq Nat
      BY <1>1
    <2>2. kp \in Seq(Nat)
      BY ONLY <1>7, <2>1, SeqMonotonic
    <2>3. QED
      BY <2>2, EntriesAre
  <1>10. d \in Seq(1..Len(w)) /\ DOMAIN d = 1..Len(d) /\ DOMAIN w = 1..(n + 1) /\ DOMAIN l = 1..n
    <2> HIDE DEF kp, w
    <2>1. QED
      BY <1>0, <1>8, ContextIsPositions DEF n
  <1> HIDE DEF kp, w, d
  <1>24. /\ cut \in 2..Len(c) /\ Len(c) \in Nat /\ cut \in Nat /\ Len(said) \in {0, 1}
         /\ Len(rest) = Len(c) - cut + 1 /\ Len(kp) = Len(said) + Len(rest)
         /\ Len(d) = 1 + Len(kp) /\ Len(kp) \in Nat /\ Len(d) \in Nat
    <2>1. cut \in 2..Len(c) /\ Len(c) \in Nat /\ Len(said) \in {0, 1}
      BY ONLY <1>1, <1>2, <1>5
    <2>2. cut \in Nat
      BY ONLY <2>1
    <2>3. Len(rest) = Len(c) - cut + 1
      BY ONLY <1>6
    <2>4. Len(kp) = Len(said) + Len(rest)
      BY ONLY <1>7
    <2>5. Len(d) = 1 + Len(kp)
      BY ONLY <1>8
    <2>6. Len(kp) \in Nat /\ Len(d) \in Nat
      BY ONLY <2>1, <2>2, <2>3, <2>4, <2>5
    <2>7. QED
      BY ONLY <2>1, <2>2, <2>3, <2>4, <2>5, <2>6
  (* An entry of the new context is the summary, the last words of the     *)
  (* user, or one of those from the cut on.                                *)
  <1>11. \A k \in 2..Len(d) :
           \/ k = 2 /\ said # <<>> /\ d[k] = c[user] /\ user \in 1..(cut - 1)
           \/ \E i \in cut..Len(c) : i = k - 2 - Len(said) + cut /\ d[k] = c[i]
    <2> TAKE k \in 2..Len(d)
    <2>1. k - 1 \in 1..Len(kp) /\ d[k] = kp[k - 1]
      <3>1. k - 1 \in 1..Len(kp) /\ k - 1 + 1 = k
        BY ONLY <1>5, <1>6, <1>7, <1>8, <1>1, <1>2, k \in 2..Len(d)
      <3>2. QED
        BY ONLY <1>8, <3>1
    <2>2. CASE k - 1 <= Len(said)
      <3>1. k = 2 /\ Len(said) = 1
        <4>1. PICK z \in {0, 1} : z = Len(said)
          BY ONLY <1>24
        <4>2. PICK y \in Nat : y = Len(d)
          BY ONLY <1>24
        <4>3. k - 1 <= z /\ k \in 2..y
          BY ONLY <2>2, <4>1, <4>2, k \in 2..Len(d)
        <4>4. k = 2 /\ z = 1
          BY ONLY <4>3, z \in {0, 1}, y \in Nat
        <4>5. QED
          BY ONLY <4>1, <4>4
      <3>2. kp[1] = said[1]
        BY ONLY <1>7, <2>1, <3>1
      <3>3. said # <<>>
        BY ONLY <1>5, <3>1
      <3>4. QED
        BY ONLY <1>5, <2>1, <3>1, <3>2, <3>3
    <2>3. CASE ~(k - 1 <= Len(said))
      <3>1. k - 1 - Len(said) \in 1..(Len(c) - cut + 1)
        BY ONLY <1>1, <1>2, <1>5, <1>6, <1>7, <2>1, <2>3, k \in 2..Len(d)
      <3>2. kp[k - 1] = rest[k - 1 - Len(said)]
        BY ONLY <1>7, <2>1, <2>3
      <3>3. rest[k - 1 - Len(said)] = c[cut + (k - 1 - Len(said)) - 1]
        BY ONLY <1>6, <3>1
      <3>4. /\ cut + (k - 1 - Len(said)) - 1 = k - 2 - Len(said) + cut
            /\ k - 2 - Len(said) + cut \in cut..Len(c)
        BY ONLY <1>1, <1>2, <1>5, <3>1, k \in 2..Len(d)
      <3>5. QED
        BY ONLY <2>1, <3>2, <3>3, <3>4
    <2>4. QED
      BY ONLY <2>2, <2>3
  (* And each of those from the cut on is there. *)
  <1>12. \A i \in cut..Len(c) :
           i + 2 + Len(said) - cut \in 2..Len(d) /\ d[i + 2 + Len(said) - cut] = c[i]
    <2> TAKE i \in cut..Len(c)
    <2>1. PICK q \in 1..Len(kp) : q = i + 1 + Len(said) - cut
      <3>1. i + 1 + Len(said) - cut \in 1..Len(kp)
        BY ONLY <1>24, i \in cut..Len(c)
      <3>2. QED
        BY ONLY <3>1
    <2>2. ~(q <= Len(said)) /\ q - Len(said) \in 1..(Len(c) - cut + 1) /\ q \in Nat
      BY ONLY <1>24, <2>1, i \in cut..Len(c)
    <2>3. kp[q] = rest[q - Len(said)]
      BY ONLY <1>7, <1>24, <2>2, q \in 1..Len(kp)
    <2>4. rest[q - Len(said)] = c[cut + (q - Len(said)) - 1]
      BY ONLY <1>6, <2>2
    <2>5. cut + (q - Len(said)) - 1 = i
      BY ONLY <1>24, <2>1, i \in cut..Len(c)
    <2>6. d[q + 1] = c[i]
      BY ONLY <1>8, <2>3, <2>4, <2>5, q \in 1..Len(kp)
    <2>7. q + 1 = i + 2 + Len(said) - cut /\ q + 1 \in 2..Len(d)
      BY ONLY <1>24, <2>1, q \in 1..Len(kp), i \in cut..Len(c)
    <2>8. QED
      BY ONLY <2>6, <2>7
  <1>13. \A i, j \in 1..Len(c) : (i < j /\ (i # 1 \/ l[c[1]].kind # "summary")) => c[i] < c[j]
    BY <1>0, <1>1 DEF Forward, c
  <1>14. user # 0 => (user \in 1..Len(c) /\ IsUser(l[c[user]]))
    BY <1>1, <1>3 DEF heard
  <1>15. \A e : IsUser(e) => e.kind # "summary" /\ e.kind # "result"
    BY DEF IsUser
  <1>16. \A k \in 1..(n + 1) : (k \in 1..n /\ w[k] = l[k]) \/ (k = n + 1 /\ w[k] = Summary(kp))
    BY ONLY <1>1, <1>8
  <1>17. \A k \in 1..Len(c) : w[c[k]] = l[c[k]]
    BY ONLY <1>1, <1>8
  <1>18. Forward(w)
    <2> SUFFICES ASSUME NEW i \in 1..Len(d), NEW j \in 1..Len(d), i < j,
                        i # 1 \/ w[d[1]].kind # "summary"
                 PROVE  d[i] < d[j]
      BY <1>10 DEF Forward, d
    <2>1. i # 1
      BY ONLY <1>8, <1>9, i # 1 \/ w[d[1]].kind # "summary"
    <2>2. i \in 2..Len(d) /\ j \in 2..Len(d) /\ j # 2
      BY ONLY <2>1, <1>7, <1>8, i \in 1..Len(d), j \in 1..Len(d), i < j
    <2>3. PICK y \in cut..Len(c) : y = j - 2 - Len(said) + cut /\ d[j] = c[y]
      BY ONLY <1>11, <2>2
    <2>4. CASE i = 2 /\ d[i] = c[user] /\ user \in 1..(cut - 1)
      <3>1. user \in 1..Len(c) /\ y \in 1..Len(c) /\ user < y
        BY ONLY <1>1, <1>2, <2>4, y \in cut..Len(c)
      <3>2. user # 1 \/ l[c[1]].kind # "summary"
        BY ONLY <1>14, <1>15, <2>4, <1>2
      <3>3. c[user] < c[y]
        BY ONLY <1>13, <3>1, <3>2
      <3>4. QED
        BY ONLY <2>3, <2>4, <3>3
    <2>5. ASSUME NEW x \in cut..Len(c), x = i - 2 - Len(said) + cut, d[i] = c[x]
          PROVE  d[i] < d[j]
      <3>1. x \in 1..Len(c) /\ y \in 1..Len(c) /\ x # 1
        BY ONLY <1>1, <1>2, x \in cut..Len(c), y \in cut..Len(c)
      <3>2. x < y
        BY ONLY <1>2, <1>5, <2>2, <2>3, <2>5, i < j, x \in cut..Len(c), y \in cut..Len(c)
      <3>3. c[x] < c[y]
        BY ONLY <1>13, <3>1, <3>2
      <3>4. QED
        BY ONLY <2>3, <2>5, <3>3
    <2>6. QED
      BY ONLY <1>11, <2>2, <2>4, <2>5
  <1>19. Once(w)
    <2>1. \A k \in 1..n : k \in 1..(n + 1)
      BY ONLY <1>1
    <2>2. IssuedBy(l) \subseteq IssuedBy(w)
      BY ONLY <1>8, <1>10, <2>1 DEF IssuedBy
    <2>3. \A k \in 1..(n + 1) : w[k].of # NoCall <=> w[k].kind = "result"
      <3> TAKE k \in 1..(n + 1)
      <3>1. CASE k \in 1..n /\ w[k] = l[k]
        BY ONLY <3>1, <1>0, <1>10 DEF Once
      <3>2. CASE w[k] = Summary(kp)
        BY ONLY <3>2, <1>9
      <3>3. QED
        BY ONLY <3>1, <3>2, <1>16
    <2>4. \A k \in 1..(n + 1) : w[k].of # NoCall => (k \in 1..n /\ w[k] = l[k])
      BY ONLY <1>9, <1>16
    <2>5. \A k \in 1..(n + 1) : w[k].of # NoCall => w[k].of \in IssuedBy(w)
      BY ONLY <1>0, <1>10, <2>2, <2>4 DEF Once
    <2>6. \A k, m \in 1..(n + 1) : w[k].of # NoCall /\ w[k].of = w[m].of => k = m
      BY ONLY <1>0, <1>10, <2>4 DEF Once
    <2>7. QED
      BY ONLY <1>10, <2>3, <2>5, <2>6 DEF Once
  <1>20. Follow(w)
    <2> SUFFICES ASSUME NEW k \in 1..(n + 1), w[k].kind = "result"
                 PROVE  \E j \in 1..(k - 1) :
                          /\ k - j \in DOMAIN w[j].calls
                          /\ w[j].calls[k - j] = w[k].of
                          /\ \A i \in (j + 1)..k : w[i].kind = "result"
      BY <1>10 DEF Follow
    <2>1. k \in 1..n /\ w[k] = l[k]
      BY ONLY <1>9, <1>16, k \in 1..(n + 1), w[k].kind = "result"
    <2>2. PICK j \in 1..(k - 1) :
            /\ k - j \in DOMAIN l[j].calls
            /\ l[j].calls[k - j] = l[k].of
            /\ \A i \in (j + 1)..k : l[i].kind = "result"
      BY ONLY <1>0, <1>10, <2>1, w[k].kind = "result" DEF Follow
    <2>3. j \in 1..n /\ w[j] = l[j]
      BY ONLY <1>1, <1>8, <2>1, j \in 1..(k - 1)
    <2>4. \A i \in (j + 1)..k : w[i] = l[i]
      BY ONLY <1>1, <1>8, <2>1, <2>3
    <2>5. QED
      BY ONLY <2>1, <2>2, <2>3, <2>4, j \in 1..(k - 1)
  <1>21. Paired(w)
    <2> SUFFICES ASSUME NEW k \in 1..Len(d), w[d[k]].kind = "result"
                 PROVE  \E j \in 1..(k - 1) : w[d[k]].of \in ToSet(w[d[j]].calls)
      BY <1>10 DEF Paired, d
    <2>1. k # 1
      BY ONLY <1>8, <1>9, w[d[k]].kind = "result"
    <2>2. k \in 2..Len(d)
      BY ONLY <1>7, <1>8, <2>1, k \in 1..Len(d)
    <2>3. ~(d[k] = c[user] /\ user \in 1..(cut - 1))
      BY ONLY <1>2, <1>14, <1>15, <1>17, w[d[k]].kind = "result"
    <2>4. PICK i \in cut..Len(c) : i = k - 2 - Len(said) + cut /\ d[k] = c[i]
      BY ONLY <1>11, <2>2, <2>3
    <2>5. i \in 1..Len(c) /\ w[d[k]] = l[c[i]] /\ l[c[i]].kind = "result"
      BY ONLY <1>1, <1>2, <1>17, <2>4, i \in cut..Len(c), w[d[k]].kind = "result"
    <2>6. PICK j \in 1..(i - 1) : l[c[i]].of \in ToSet(l[c[j]].calls)
      BY <1>0, <1>1, <2>5 DEF Paired, c
    <2>7. j \in 1..Len(c)
      BY ONLY <1>1, <2>5, j \in 1..(i - 1)
    <2>8. CASE j \in cut..Len(c)
      <3> DEFINE q == j + 2 + Len(said) - cut
      <3>1. q \in 2..Len(d) /\ d[q] = c[j]
        BY ONLY <1>12, <2>8
      <3>2. q \in 1..(k - 1)
        BY ONLY <1>1, <1>2, <1>5, <2>2, <2>4, <2>5, <2>7, <3>1, j \in 1..(i - 1)
      <3>3. w[d[q]] = l[c[j]]
        BY ONLY <1>17, <2>7, <3>1
      <3>4. QED
        BY ONLY <2>5, <2>6, <3>2, <3>3
    <2>9. CASE j \in 1..(cut - 1)
      <3>1. l[c[i]].of \in UNION {ToSet(l[c[k1]].calls) : k1 \in 1..(cut - 1)}
        BY ONLY <2>6, <2>9
      <3>2. l[c[i]].of \in {l[c[k1]].of : k1 \in 1..(cut - 1)}
        <4>1. OpenCalls(c, cut - 1) = (UNION {ToSet(l[c[k1]].calls) : k1 \in 1..(cut - 1)})
                                        \ {l[c[k1]].of : k1 \in 1..(cut - 1)}
          BY DEF OpenCalls
        <4>2. QED
          BY ONLY <4>1, <1>2, <3>1
      <3>3. PICK m \in 1..(cut - 1) : l[c[m]].of = l[c[i]].of
        BY ONLY <3>2
      <3>4. m \in 1..Len(c) /\ m < i
        BY ONLY <1>1, <1>2, m \in 1..(cut - 1), i \in cut..Len(c)
      <3>5. c[m] \in 1..n /\ c[i] \in 1..n
        BY ONLY <1>1, <2>5, <3>4
      <3>6. l[c[i]].of # NoCall /\ l[c[m]].of # NoCall
        BY ONLY <1>0, <1>10, <2>5, <3>3, <3>5 DEF Once
      <3>7. c[m] = c[i]
        BY ONLY <1>0, <1>10, <3>3, <3>5, <3>6 DEF Once
      <3>8. l[c[m]].kind = "result"
        BY ONLY <2>5, <3>7
      <3>9. c[m] < c[i]
        BY ONLY <1>13, <2>5, <3>4, <3>8
      <3>10. QED
        BY ONLY <3>5, <3>7, <3>9
    <2>10. QED
      BY ONLY <1>1, <1>2, <2>7, <2>8, <2>9
  <1>22. Heard(w)
    <2>1. Users(w) = Users(l)
      <3>1. \A k \in 1..(n + 1) : IsUser(w[k]) => (k \in 1..n /\ w[k] = l[k])
        BY ONLY <1>9, <1>15, <1>16
      <3>2. \A k \in 1..n : k \in 1..(n + 1) /\ w[k] = l[k]
        BY ONLY <1>1, <1>8
      <3>3. /\ Users(w) = {k \in 1..(n + 1) : IsUser(w[k])}
            /\ Users(l) = {k \in 1..n : IsUser(l[k])}
        BY <1>10 DEF Users
      <3> HIDE DEF l
      <3>4. QED
        BY ONLY <3>1, <3>2, <3>3
    <2> DEFINE u == Latest(Users(l))
    <2>2. /\ u # 0 => u \in Users(l)
          /\ \A k \in Users(l) : k <= u
          /\ u \in 0..n
      <3>1. Users(l) \in SUBSET (1..n) /\ n \in Nat
        BY <1>1, <1>10 DEF Users
      <3>2. QED
        BY <3>1, LatestIs
    <2> SUFFICES ASSUME u # 0 PROVE u \in ToSet(d)
      BY <2>1 DEF Heard, d
    <2>3. u \in ToSet(c)
      BY <1>0 DEF Heard, c
    <2> HIDE DEF u
    <2>4. PICK i \in 1..Len(c) : c[i] = u
      BY ONLY <1>1, <2>3 DEF ToSet
    <2>5. IsUser(l[c[i]]) /\ i \in heard
      BY <1>1, <2>2, <2>4 DEF Users, heard
    <2>6. i <= user /\ user # 0
      BY ONLY <1>3, <2>5, i \in 1..Len(c)
    <2>7. user \in 1..Len(c) /\ IsUser(l[c[user]])
      BY ONLY <1>14, <2>6
    <2>8. c[user] <= u
      <3>1. c[user] \in 1..n
        BY ONLY <1>1, <2>7
      <3>2. c[user] \in Users(l)
        BY <1>10, <2>7, <3>1 DEF Users
      <3>3. QED
        BY ONLY <2>2, <3>2
    <2>9. user = i
      <3>1. SUFFICES ASSUME i # user PROVE FALSE
        OBVIOUS
      <3>5. i < user
        BY ONLY <1>1, <2>6, <2>7, <3>1, i \in 1..Len(c)
      <3>2. l[c[i]].kind # "summary"
        BY ONLY <1>15, <2>5
      <3>3. c[i] < c[user]
        BY ONLY <1>13, <2>7, <3>5, <3>2, i \in 1..Len(c)
      <3>4. QED
        BY ONLY <1>1, <2>2, <2>4, <2>7, <2>8, <3>3
    <2>10. CASE i \in cut..Len(c)
      <3>1. i + 2 + Len(said) - cut \in 1..Len(d) /\ d[i + 2 + Len(said) - cut] = u
        BY ONLY <1>12, <2>4, <2>10, <1>8, <1>7
      <3>2. QED
        BY ONLY <1>10, <3>1 DEF ToSet
    <2>11. CASE i \in 1..(cut - 1)
      <3>1. said # <<>> /\ Len(said) = 1 /\ said[1] = u
        BY ONLY <1>5, <2>4, <2>9, <2>11
      <3>2. 1 \in 1..(Len(said) + Len(rest)) /\ 1 \in 1..Len(kp)
        BY ONLY <1>1, <1>2, <1>6, <1>7, <3>1
      <3>3. kp[1] = u
        BY ONLY <1>7, <3>1, <3>2
      <3>4. d[2] = u /\ 2 \in 1..Len(d)
        <4>1. d[1 + 1] = kp[1]
          BY ONLY <1>8, <3>2
        <4>2. QED
          BY ONLY <1>24, <3>1, <3>2, <3>3, <4>1
      <3>5. QED
        BY ONLY <1>10, <3>4 DEF ToSet
    <2>12. QED
      BY ONLY <1>1, <1>2, <2>10, <2>11, i \in 1..Len(c)
  <1>23. QED
    BY <1>7, <1>8, <1>18, <1>19, <1>20, <1>21, <1>22 DEF Sound, kp, w, c, n

-----------------------------------------------------------------------------
(* One entry more *)

(* A ledger and one more entry.                                            *)
LEMMA OneMore ==
  ASSUME NEW l \in Seq(Record), NEW e \in Record
  PROVE  /\ Append(l, e) = l \o <<e>>
         /\ <<e>> \in Seq(Record) /\ Len(<<e>>) = 1 /\ <<e>>[1] = e
         /\ Append(l, e) \in Seq(Record)
         /\ Len(l) \in Nat /\ Len(Append(l, e)) = Len(l) + 1
         /\ DOMAIN l = 1..Len(l) /\ DOMAIN Append(l, e) = 1..(Len(l) + 1)
         /\ \A k \in 1..Len(l) : Append(l, e)[k] = l[k]
         /\ Append(l, e)[Len(l) + 1] = e
         /\ \A k \in 1..(Len(l) + 1) : k \in 1..Len(l) \/ k = Len(l) + 1
  <1>1. Append(l, e) = l \o <<e>>
    BY AppendIsConcat
  <1>2. /\ Append(l, e) \in Seq(Record)
        /\ Len(Append(l, e)) = Len(l) + 1
        /\ \A k \in 1..Len(l) : Append(l, e)[k] = l[k]
        /\ Append(l, e)[Len(l) + 1] = e
    BY AppendProperties
  <1>3. DOMAIN l = 1..Len(l) /\ Len(l) \in Nat
    OBVIOUS
  <1>4. DOMAIN Append(l, e) = 1..(Len(l) + 1)
    BY <1>2
  <1>5. <<e>> \in Seq(Record) /\ Len(<<e>>) = 1 /\ <<e>>[1] = e
    OBVIOUS
  <1>6. \A k \in 1..(Len(l) + 1) : k \in 1..Len(l) \/ k = Len(l) + 1
    BY <1>3
  <1>7. QED
    BY ONLY <1>1, <1>2, <1>3, <1>4, <1>5, <1>6

(* The history of the loop grows as the context of the ledger does. *)
LEMMA ContextAppends ==
  ASSUME NEW l, Sound(l), NEW e \in Record, e.kind # "summary"
  PROVE  Context(Append(l, e)) = Append(Context(l), Len(l) + 1)
  <1> DEFINE t == <<e>>
  <1>1. /\ l \in Seq(Record) /\ Keeps(l)
        /\ Append(l, e) = l \o t /\ t \in Seq(Record) /\ Len(t) = 1 /\ t[1] = e
        /\ Len(l) \in Nat
    BY OneMore DEF Sound
  <1> HIDE DEF t
  <1>2. Context(Append(l, e)) = Context(l) \o Span(Len(l) + 1, Len(l) + 1)
    <2>1. \A i \in 1..Len(t) : t[i].kind # "summary"
      BY <1>1
    <2>2. Context(l \o t) = Context(l) \o Span(Len(l) + 1, Len(l) + Len(t))
      BY ONLY <1>1, <2>1, ContextGrows
    <2>3. QED
      BY ONLY <1>1, <2>2
  <1>3. Span(Len(l) + 1, Len(l) + 1) = <<Len(l) + 1>>
    <2>1. /\ Span(Len(l) + 1, Len(l) + 1) \in Seq(Nat)
          /\ Len(Span(Len(l) + 1, Len(l) + 1)) = 1
          /\ \A i \in 1..1 : Span(Len(l) + 1, Len(l) + 1)[i] = Len(l) + i
      BY ONLY <1>1, 1 \in Nat, SpanAfter
    <2>2. <<Len(l) + 1>> \in Seq(Nat) /\ Len(<<Len(l) + 1>>) = 1 /\ <<Len(l) + 1>>[1] = Len(l) + 1
      BY <1>1
    <2>3. \A i \in 1..1 : Span(Len(l) + 1, Len(l) + 1)[i] = <<Len(l) + 1>>[i]
      BY ONLY <2>1, <2>2
    <2> DEFINE a == Span(Len(l) + 1, Len(l) + 1)
               b == <<Len(l) + 1>>
    <2>4. a \in Seq(Nat) /\ b \in Seq(Nat) /\ Len(a) = Len(b) /\ \A i \in 1..Len(a) : a[i] = b[i]
      BY ONLY <2>1, <2>2, <2>3
    <2> HIDE DEF a, b
    <2>5. a = b
      BY ONLY <2>4, SeqEqual
    <2>6. QED
      BY ONLY <2>5 DEF a, b
  <1>4. Context(l) \in Seq(Nat)
    <2>1. Context(l) \in Seq(1..Len(l))
      BY <1>1, ContextIsPositions
    <2>2. 1..Len(l) \subseteq Nat
      BY <1>1
    <2>3. QED
      BY ONLY <2>1, <2>2, SeqMonotonic
  <1>5. Append(Context(l), Len(l) + 1) = Context(l) \o <<Len(l) + 1>>
    <2>1. Len(l) + 1 \in Nat
      BY <1>1
    <2>2. QED
      BY ONLY <1>4, <2>1, AppendIsConcat
  <1>6. QED
    BY ONLY <1>2, <1>3, <1>5

(* A prompt, a word of the user, an answer or a draft keeps a ledger sound. *)
LEMMA WordIsSound ==
  ASSUME NEW l, Sound(l), NEW e \in Record, e.kind \notin {"summary", "result"}, e.of = NoCall
  PROVE  Sound(Append(l, e))
  <1> DEFINE t == <<e>>
  <1>1. /\ Append(l, e) = l \o t /\ t \in Seq(Record) /\ Len(t) = 1 /\ t[1] = e
    BY OneMore DEF Sound
  <1> HIDE DEF t
  <1>2. \A i \in 1..Len(t) : t[i].kind \notin {"summary", "result"} /\ t[i].of = NoCall
    BY <1>1
  <1>3. Sound(l \o t)
    BY ONLY Sound(l), <1>1, <1>2, WordsAreSound
  <1>4. QED
    BY ONLY <1>1, <1>3

(* So does the result of the first call of the batch, which opens the rest. *)
LEMMA ResultIsSound ==
  ASSUME NEW l, Sound(l), NEW b \in Seq(Calls), b # <<>>, Open(l, b)
  PROVE  /\ Head(b) \in Calls /\ Result(Head(b)) \in Record /\ Result(Head(b)).kind = "result"
         /\ Tail(b) \in Seq(Calls) /\ Len(b) \in Nat /\ Len(Tail(b)) = Len(b) - 1
         /\ Sound(Append(l, Result(Head(b))))
         /\ Open(Append(l, Result(Head(b))), Tail(b))
  <1>1. /\ Head(b) \in Calls /\ Head(b) = b[1]
        /\ Tail(b) \in Seq(Calls) /\ Len(b) \in Nat /\ Len(Tail(b)) = Len(b) - 1
    BY HeadTailProperties
  <1>2. Result(Head(b)) \in Record /\ Result(Head(b)).kind = "result"
    BY <1>1, EntriesAre
  <1>3. Append(l, Result(Head(b))) = l \o <<Result(b[1])>>
    BY <1>1, <1>2, OneMore DEF Sound
  <1>4. QED
    BY <1>1, <1>2, <1>3, ResultsAreSound

(* The calls of a new answer are open. *)
LEMMA AnswerOpens ==
  ASSUME NEW l, Sound(l), NEW cs \in Seq(Calls),
         \A i \in 1..Len(cs) : cs[i] \notin IssuedBy(l),
         \A i, k \in 1..Len(cs) : cs[i] = cs[k] => i = k
  PROVE  Open(Append(l, Answer(cs)), cs)
  <1> DEFINE w == Append(l, Answer(cs))
             n == Len(l)
  <1>1. /\ Answer(cs) \in Record /\ Answer(cs).kind = "answer"
        /\ Answer(cs).calls = cs /\ Answer(cs).of = NoCall
    BY EntriesAre
  <1>2. /\ w \in Seq(Record) /\ n \in Nat /\ Len(w) = n + 1
        /\ DOMAIN l = 1..n
        /\ \A k \in 1..n : w[k] = l[k]
        /\ w[n + 1] = Answer(cs)
        /\ \A k \in 1..(n + 1) : k \in 1..n \/ k = n + 1
    BY <1>1, OneMore DEF Sound
  <1>3. Once(l)
    BY DEF Sound
  <1>4. \A i \in 1..Len(cs) : cs[i] \in Calls /\ cs[i] # NoCall
    BY ReactLoopAssumption
  <1>5. Len(cs) \in Nat
    OBVIOUS
  <1> HIDE DEF w, n
  <1>6. \A i \in 1..Len(cs), k \in 1..Len(w) : w[k].of # cs[i]
    <2> TAKE i \in 1..Len(cs), k \in 1..Len(w)
    <2>1. CASE k \in 1..n
      BY <2>1, <1>2, <1>3, <1>4 DEF Once
    <2>2. CASE k = n + 1
      BY <2>2, <1>1, <1>2, <1>4
    <2>3. QED
      BY ONLY <2>1, <2>2, <1>2, k \in 1..Len(w)
  <1>7. /\ n + 1 \in 1..Len(w)
        /\ w[n + 1].kind = "answer"
        /\ Len(w[n + 1].calls) = Len(w) - (n + 1) + Len(cs)
        /\ \A i \in 1..Len(cs) : cs[i] = w[n + 1].calls[Len(w) - (n + 1) + i]
        /\ \A i \in (n + 1 + 1)..Len(w) : w[i].kind = "result"
    <2>1. \A i \in 1..Len(cs) : Len(w) - (n + 1) + i = i
      BY ONLY <1>2, <1>5
    <2>2. Len(w) - (n + 1) + Len(cs) = Len(cs)
      BY ONLY <1>2, <1>5
    <2>3. (n + 1 + 1)..Len(w) = {} /\ n + 1 \in 1..Len(w)
      BY ONLY <1>2
    <2>4. QED
      BY ONLY <1>1, <1>2, <2>1, <2>2, <2>3
  <1>8. Open(w, cs)
    BY ONLY <1>6, <1>7, \A i, k \in 1..Len(cs) : cs[i] = cs[k] => i = k DEF Open
  <1>9. QED
    BY <1>8 DEF w

(* A summary comes only after an entry that is none.                       *)
LEMMA StaysApart ==
  ASSUME NEW l \in Seq(Record), Apart(l), NEW e \in Record,
         (e.kind = "summary" /\ l # <<>>) => l[Len(l)].kind # "summary"
  PROVE  Apart(Append(l, e))
  <1> DEFINE w == Append(l, e)
  <1>1. /\ Len(l) \in Nat
        /\ DOMAIN l = 1..Len(l) /\ DOMAIN w = 1..(Len(l) + 1)
        /\ \A k \in 1..Len(l) : w[k] = l[k]
        /\ w[Len(l) + 1] = e
        /\ \A k \in 1..(Len(l) + 1) : k \in 1..Len(l) \/ k = Len(l) + 1
    BY OneMore
  <1> HIDE DEF w
  <1>2. ASSUME NEW k \in 1..(Len(l) + 1), k > 1, w[k].kind = "summary"
        PROVE  w[k - 1].kind # "summary"
    <2>1. k - 1 \in 1..Len(l) /\ w[k - 1] = l[k - 1]
      BY ONLY <1>1, <1>2
    <2>2. CASE k \in 1..Len(l)
      BY <2>1, <2>2, <1>1, <1>2 DEF Apart
    <2>3. CASE k = Len(l) + 1
      <3>1. k - 1 = Len(l) /\ w[k] = e /\ l # <<>>
        BY <1>1, <2>1, <2>3
      <3>2. QED
        BY <2>1, <3>1, <1>2
    <2>4. QED
      BY <2>2, <2>3, <1>1
  <1>3. QED
    BY <1>1, <1>2 DEF Apart, w

(* A sequence of positions stays one in a ledger that has grown. *)
LEMMA PositionsStay ==
  ASSUME NEW a \in Nat, NEW b \in Nat, a <= b, NEW h \in Seq(1..a)
  PROVE  h \in Seq(1..b)
  <1>1. 1..a \subseteq 1..b
    OBVIOUS
  <1>2. QED
    BY ONLY <1>1, h \in Seq(1..a), SeqMonotonic

-----------------------------------------------------------------------------
(* Every step keeps the invariant *)

(* What the parts of the invariant say of the ledger and the history. *)
LEMMA Parts ==
  ASSUME IInv
  PROVE  /\ ledger \in Seq(Record) /\ Len(ledger) \in Nat
         /\ Sound(ledger) /\ Keeps(ledger) /\ Apart(ledger)
         /\ history \in Seq(1..Len(ledger)) /\ batch \in Seq(Calls) /\ lastHead \in 0..Len(ledger)
         /\ Context(ledger) \in Seq(1..Len(ledger))
  <1>1. ledger \in Seq(Record) /\ Sound(ledger) /\ Keeps(ledger) /\ Apart(ledger)
    BY DEF IInv, Sound
  <1>2. history \in Seq(1..Len(ledger)) /\ batch \in Seq(Calls) /\ lastHead \in 0..Len(ledger)
    BY DEF IInv, TypeOK
  <1>3. Context(ledger) \in Seq(1..Len(ledger))
    BY <1>1, ContextIsPositions
  <1>4. Len(ledger) \in Nat
    BY <1>1
  <1>5. QED
    BY ONLY <1>1, <1>2, <1>3, <1>4

(* A step that leaves the ledger alone has only its place in the loop and  *)
(* what the loop remembers to keep right.                                  *)
LEMMA LedgerUntouched ==
  ASSUME IInv, ledger' = ledger, TypeOK', (waiting <= offered)', Batch', Sending', Headed'
  PROVE  IInv'
  BY DEF IInv

(* A step that appends an entry, other than a summary. *)
LEMMA EntryWritten ==
  ASSUME IInv, NEW e \in Record, ledger' = Append(ledger, e), e.kind # "summary",
         Sound(ledger')
  PROVE  /\ Apart(ledger')
         /\ ledger' \in Seq(Record) /\ Len(ledger') = Len(ledger) + 1
         /\ ledger'[Len(ledger')] = e
         /\ Context(ledger') = Append(Context(ledger), Len(ledger'))
         /\ Context(ledger') \in Seq(1..Len(ledger'))
         /\ history \in Seq(1..Len(ledger'))
         /\ Append(history, Len(ledger')) \in Seq(1..Len(ledger'))
         /\ lastHead \in 0..Len(ledger')
  <1>0. /\ ledger \in Seq(Record) /\ Len(ledger) \in Nat
        /\ Sound(ledger) /\ Keeps(ledger) /\ Apart(ledger)
        /\ history \in Seq(1..Len(ledger)) /\ lastHead \in 0..Len(ledger)
    BY Parts
  <1>1. /\ ledger' \in Seq(Record) /\ Len(ledger') = Len(ledger) + 1
        /\ ledger'[Len(ledger) + 1] = e
    BY <1>0, OneMore
  <1>2. Apart(ledger')
    BY <1>0, StaysApart
  <1>3. Context(ledger') = Append(Context(ledger), Len(ledger'))
    BY <1>0, <1>1, ContextAppends
  <1>4. Context(ledger') \in Seq(1..Len(ledger'))
    BY <1>1, ContextIsPositions DEF Sound
  <1>5. history \in Seq(1..Len(ledger'))
    BY <1>0, <1>1, PositionsStay
  <1>6. Append(history, Len(ledger')) \in Seq(1..Len(ledger'))
    <2>1. Len(ledger') \in 1..Len(ledger')
      BY <1>0, <1>1
    <2>2. QED
      BY ONLY <1>5, <2>1, AppendProperties
  <1>7. lastHead \in 0..Len(ledger')
    BY <1>0, <1>1
  <1>8. QED
    BY <1>1, <1>2, <1>3, <1>4, <1>5, <1>6, <1>7

(* The prompt opens a turn, with the history the ledger gives it. *)
LEMMA TurnKeeps == ASSUME IInv, Turn PROVE IInv'
  <1> DEFINE e == Entry("prompt")
  <1>1. e \in Record /\ e.kind = "prompt" /\ e.of = NoCall
    BY EntriesAre DEF Kinds
  <1>2. ledger' = Append(ledger, e)
    BY DEF Turn, Write
  <1> HIDE DEF e
  <1>3. Sound(ledger')
    BY <1>1, <1>2, Parts, WordIsSound
  <1>4. /\ Apart(ledger') /\ ledger' \in Seq(Record)
        /\ ledger'[Len(ledger')] = e
        /\ Context(ledger') \in Seq(1..Len(ledger'))
        /\ lastHead \in 0..Len(ledger')
    BY <1>1, <1>2, <1>3, EntryWritten
  <1>5. TypeOK'
    BY <1>4, ReactLoopAssumption DEF IInv, TypeOK, Turn, Record
  <1>6. (waiting <= offered)'
    BY DEF IInv, Turn
  <1>7. Batch'
    BY DEF Turn, Batch
  <1>8. Sending'
    BY DEF Turn, Sending
  <1>9. Headed'
    BY <1>1, <1>4 DEF Headed
  <1>10. QED
    BY ONLY <1>3, <1>4, <1>5, <1>6, <1>7, <1>8, <1>9 DEF IInv

(* Compaction, wherever it is asked for: it appends a summary, and what is *)
(* sent next is the context it makes; or it ends the loop.                 *)
LEMMA CompactsRight ==
  ASSUME IInv, pc \notin {"idle", "finish"}, CompactHistory
  PROVE  /\ Sound(ledger') /\ Apart(ledger') /\ pc' \in {"request", "finish"}
         /\ history' \in Seq(1..Len(ledger')) /\ lastHead' \in 0..Len(ledger')
         /\ pc' = "request" => history' = Context(ledger') /\ lastHead' = Len(ledger')
  <1>0. /\ ledger \in Seq(Record) /\ Len(ledger) \in Nat
        /\ Sound(ledger) /\ Keeps(ledger) /\ Apart(ledger)
        /\ history \in Seq(1..Len(ledger)) /\ lastHead \in 0..Len(ledger)
    BY Parts
  <1>1. CASE Return /\ UNCHANGED <<ledger, lastHead, history>>
    <2>1. /\ pc' = "finish" /\ ledger' = ledger /\ lastHead' = lastHead /\ history' = history
      BY <1>1 DEF Return
    <2>2. QED
      BY ONLY <1>0, <2>1
  <1>2. CASE ~(Return /\ UNCHANGED <<ledger, lastHead, history>>)
    <2>1. PICK cut \in Boundaries(Context(ledger)) :
            ledger' = Append(ledger, Summary(Kept(Context(ledger), cut)))
      BY <1>2 DEF CompactHistory, Write
    <2> DEFINE e == Summary(Kept(Context(ledger), cut))
    <2>2. /\ Kept(Context(ledger), cut) \in Seq(1..Len(ledger))
          /\ Sound(ledger')
      BY <1>0, <2>1, SummariesAreSound
    <2>3. e \in Record /\ e.kind = "summary"
      <3>1. 1..Len(ledger) \subseteq Nat
        BY <1>0
      <3>2. Kept(Context(ledger), cut) \in Seq(Nat)
        BY ONLY <2>2, <3>1, SeqMonotonic
      <3>3. QED
        BY ONLY <3>2, EntriesAre
    <2>4. ledger' = Append(ledger, e)
      BY <2>1
    <2> HIDE DEF e
    <2>5. /\ ~NothingNew
          /\ lastHead' = Len(ledger') /\ history' = Context(ledger')
          /\ pc' \in {"request", "finish"}
      BY <1>2 DEF CompactHistory, Return
    <2>6. (ledger # <<>>) => ledger[Len(ledger)].kind # "summary"
      BY <2>5 DEF IInv, Headed, NothingNew
    <2>7. Apart(ledger')
      BY ONLY <1>0, <2>3, <2>4, <2>6, StaysApart
    <2>8. ledger' \in Seq(Record) /\ Len(ledger') = Len(ledger) + 1
      BY ONLY <1>0, <2>3, <2>4, OneMore
    <2>9. Context(ledger') \in Seq(1..Len(ledger'))
      BY ONLY <2>2, <2>8, ContextIsPositions DEF Sound
    <2>10. Len(ledger') \in 0..Len(ledger')
      BY ONLY <1>0, <2>8
    <2>11. QED
      BY ONLY <2>2, <2>5, <2>7, <2>9, <2>10
  <1>3. QED
    BY <1>1, <1>2

LEMMA ManageContextKeeps == ASSUME IInv, ManageContext PROVE IInv'
  <1>1. pc = "compact" /\ UNCHANGED <<batch, final, retried, draft, cancelled, waiting, offered, turns>>
    BY DEF ManageContext, outerVars
  <1>2. (waiting <= offered)'
    BY <1>1 DEF IInv
  <1>3. CASE pc' = "request" /\ UNCHANGED <<ledger, lastHead, history>>
    <2>1. TypeOK'
      BY <1>1, <1>3 DEF IInv, TypeOK
    <2>2. Batch' /\ Sending' /\ Headed'
      BY <1>1, <1>3 DEF IInv, Batch, Sending, Headed
    <2>3. QED
      BY <1>2, <1>3, <2>1, <2>2, LedgerUntouched
  <1>4. CASE CompactHistory
    <2>1. /\ Sound(ledger') /\ Apart(ledger') /\ pc' \in {"request", "finish"}
          /\ history' \in Seq(1..Len(ledger')) /\ lastHead' \in 0..Len(ledger')
          /\ pc' = "request" => history' = Context(ledger') /\ lastHead' = Len(ledger')
      BY <1>1, <1>4, CompactsRight
    <2>2. TypeOK'
      BY <1>1, <2>1 DEF IInv, TypeOK, Sound, Record
    <2>3. Batch' /\ Sending' /\ Headed'
      BY <2>1 DEF Batch, Sending, Headed
    <2>4. QED
      BY ONLY <1>2, <2>1, <2>2, <2>3 DEF IInv
  <1>5. QED
    BY <1>3, <1>4 DEF ManageContext

LEMMA RecoverKeeps == ASSUME IInv, Recover PROVE IInv'
  <1>1. /\ pc = "recover" /\ CompactHistory /\ retried' = TRUE
        /\ UNCHANGED <<batch, final, draft, cancelled, waiting, offered, turns>>
    BY DEF Recover, outerVars
  <1>2. (waiting <= offered)'
    BY <1>1 DEF IInv
  <1>3. /\ Sound(ledger') /\ Apart(ledger') /\ pc' \in {"request", "finish"}
        /\ history' \in Seq(1..Len(ledger')) /\ lastHead' \in 0..Len(ledger')
        /\ pc' = "request" => history' = Context(ledger') /\ lastHead' = Len(ledger')
    BY <1>1, CompactsRight
  <1>4. TypeOK'
    BY <1>1, <1>3 DEF IInv, TypeOK, Sound, Record
  <1>5. Batch' /\ Sending' /\ Headed'
    BY <1>3 DEF Batch, Sending, Headed
  <1>6. QED
    BY ONLY <1>2, <1>3, <1>4, <1>5 DEF IInv

(* The answer is recorded, sent with the next request, and opens its calls. *)
LEMMA RequestAnswerKeeps == ASSUME IInv, RequestAnswer PROVE IInv'
  <1>1. pc = "request" /\ UNCHANGED <<retried, lastHead, cancelled, waiting, offered, turns>>
    BY DEF RequestAnswer, outerVars
  <1>2. (waiting <= offered)'
    BY <1>1 DEF IInv
  <1>3. CASE WriteFails /\ draft' = TRUE /\ UNCHANGED <<history, batch, final>>
    <2>1. ledger' = ledger /\ pc' = "finish"
      BY <1>3 DEF WriteFails, Return
    <2>2. TypeOK'
      BY <1>1, <1>3, <2>1 DEF IInv, TypeOK
    <2>3. Batch' /\ Sending' /\ Headed'
      BY <2>1 DEF Batch, Sending, Headed
    <2>4. QED
      BY <1>2, <2>1, <2>2, <2>3, LedgerUntouched
  <1>4. CASE ~(WriteFails /\ draft' = TRUE /\ UNCHANGED <<history, batch, final>>)
    <2> DEFINE Asked(n, cs) ==
            /\ \A j, k \in 1..n : cs[j] = cs[k] => j = k
            /\ ledger' = Append(ledger, Answer(cs))
            /\ history' = Append(history, Len(ledger'))
            /\ batch' = cs
            /\ final' = (n = 0)
            /\ pc' = IF n = 0 THEN "checkpoint" ELSE "tools"
            /\ draft' = draft
    <2>0. PICK n \in 0..MaxBatch : \E cs \in [1..n -> Calls \ Issued] : Asked(n, cs)
      BY <1>4 DEF RequestAnswer, Write
    <2>1. PICK cs \in [1..n -> Calls \ Issued] : Asked(n, cs)
      BY <2>0
    <2>2. n \in Nat /\ cs \in Seq(Calls) /\ Len(cs) = n
      BY ReactLoopAssumption
    <2>3. /\ Answer(cs) \in Record /\ Answer(cs).kind = "answer" /\ Answer(cs).of = NoCall
      BY <2>2, EntriesAre
    <2>4. Sound(ledger')
      BY <2>1, <2>3, Parts, WordIsSound
    <2>5. /\ Apart(ledger') /\ ledger' \in Seq(Record)
          /\ ledger'[Len(ledger')] = Answer(cs)
          /\ Context(ledger') = Append(Context(ledger), Len(ledger'))
          /\ Append(history, Len(ledger')) \in Seq(1..Len(ledger'))
          /\ lastHead \in 0..Len(ledger')
      BY <2>1, <2>3, <2>4, EntryWritten
    <2>6. TypeOK'
      BY <1>1, <2>1, <2>2, <2>5 DEF IInv, TypeOK, Record
    <2>7. Open(ledger', batch')
      <3>1. \A i \in 1..Len(cs) : cs[i] \notin IssuedBy(ledger)
        BY <2>2 DEF Issued, IssuedBy
      <3>2. QED
        BY <2>1, <2>2, <3>1, Parts, AnswerOpens
    <2>8. Batch'
      BY <2>1, <2>2, <2>7 DEF Batch
    <2>9. Sending'
      BY <1>1, <2>1, <2>5 DEF IInv, Sending
    <2>10. Headed'
      BY <2>3, <2>5 DEF Headed
    <2>11. QED
      BY ONLY <1>2, <2>4, <2>5, <2>6, <2>8, <2>9, <2>10 DEF IInv
  <1>5. QED
    BY <1>3, <1>4

LEMMA RequestEmptyKeeps == ASSUME IInv, RequestEmpty PROVE IInv'
  <1>1. pc' = "finish" /\ UNCHANGED <<ledger, loopVars, outerVars>>
    BY DEF RequestEmpty, Return
  <1>2. TypeOK' /\ (waiting <= offered)'
    BY <1>1 DEF IInv, TypeOK, loopVars, outerVars
  <1>3. Batch' /\ Sending' /\ Headed'
    BY <1>1 DEF Batch, Sending, Headed
  <1>4. QED
    BY <1>1, <1>2, <1>3, LedgerUntouched

LEMMA RequestFailsKeeps == ASSUME IInv, RequestFails PROVE IInv'
  <1>1. /\ pc' = "finish" /\ draft' \in BOOLEAN
        /\ UNCHANGED <<history, batch, final, retried, lastHead, cancelled, waiting, offered, turns>>
    BY DEF RequestFails, Return, outerVars, IInv, TypeOK
  <1>2. (waiting <= offered)'
    BY <1>1 DEF IInv
  <1>3. Batch' /\ Sending' /\ Headed'
    BY <1>1 DEF Batch, Sending, Headed
  <1>4. CASE ledger' = ledger
    <2>1. TypeOK'
      BY <1>1, <1>4 DEF IInv, TypeOK
    <2>2. QED
      BY <1>2, <1>3, <1>4, <2>1, LedgerUntouched
  <1>5. CASE ledger' = Append(ledger, Entry("partial"))
    <2> DEFINE e == Entry("partial")
    <2>1. e \in Record /\ e.kind = "partial" /\ e.of = NoCall
      BY EntriesAre DEF Kinds
    <2>2. ledger' = Append(ledger, e)
      BY <1>5
    <2> HIDE DEF e
    <2>3. Sound(ledger')
      BY <2>1, <2>2, Parts, WordIsSound
    <2>4. /\ Apart(ledger') /\ ledger' \in Seq(Record)
          /\ history \in Seq(1..Len(ledger'))
          /\ lastHead \in 0..Len(ledger')
      BY <2>1, <2>2, <2>3, EntryWritten
    <2>5. TypeOK'
      BY <1>1, <2>4 DEF IInv, TypeOK, Record
    <2>6. QED
      BY ONLY <1>2, <1>3, <2>3, <2>4, <2>5 DEF IInv
  <1>6. QED
    BY <1>4, <1>5 DEF RequestFails, Write

LEMMA RequestTooLargeKeeps == ASSUME IInv, RequestTooLarge PROVE IInv'
  <1>1. /\ pc = "request" /\ pc' \in {"finish", "recover"} /\ UNCHANGED <<ledger, loopVars, outerVars>>
    BY DEF RequestTooLarge
  <1>2. TypeOK' /\ (waiting <= offered)'
    BY <1>1 DEF IInv, TypeOK, loopVars, outerVars
  <1>3. Batch' /\ Sending' /\ Headed'
    BY <1>1 DEF IInv, Batch, Sending, Headed, loopVars
  <1>4. QED
    BY <1>1, <1>2, <1>3, LedgerUntouched

LEMMA ToolStartKeeps == ASSUME IInv, ToolStart PROVE IInv'
  <1>1. /\ pc = "tools" /\ pc' \in {"unexecuted", "running"} /\ UNCHANGED <<ledger, loopVars, outerVars>>
    BY DEF ToolStart, StartNext
  <1>2. TypeOK' /\ (waiting <= offered)'
    BY <1>1 DEF IInv, TypeOK, loopVars, outerVars
  <1>3. Batch' /\ Sending' /\ Headed'
    BY <1>1 DEF IInv, Batch, Sending, Headed, loopVars
  <1>4. QED
    BY <1>1, <1>2, <1>3, LedgerUntouched

(* A result is recorded for the first call that is open, and sent. *)
LEMMA ToolReturnKeeps == ASSUME IInv, ToolReturn PROVE IInv'
  <1>1. /\ pc = "running"
        /\ UNCHANGED <<final, retried, lastHead, draft, cancelled, waiting, offered, turns>>
    BY DEF ToolReturn, outerVars
  <1>2. (waiting <= offered)'
    BY <1>1 DEF IInv
  <1>3. CASE WriteFails /\ UNCHANGED <<batch, history>>
    <2>1. ledger' = ledger /\ pc' = "finish"
      BY <1>3 DEF WriteFails, Return
    <2>2. TypeOK'
      BY <1>1, <1>3, <2>1 DEF IInv, TypeOK
    <2>3. Batch' /\ Sending' /\ Headed'
      BY <2>1 DEF Batch, Sending, Headed
    <2>4. QED
      BY <1>2, <2>1, <2>2, <2>3, LedgerUntouched
  <1>4. CASE ~(WriteFails /\ UNCHANGED <<batch, history>>)
    <2> DEFINE e == Result(Head(batch))
    <2>1. /\ ledger' = Append(ledger, e)
          /\ batch' = Tail(batch)
          /\ history' = Append(history, Len(ledger'))
          /\ pc' \in {"checkpoint", "tools", "unexecuted", "finish"}
          /\ pc' = "tools" => Len(batch) # 1
      BY <1>4 DEF ToolReturn, Write, AfterResult, Return
    <2>2. batch \in Seq(Calls) /\ batch # <<>> /\ Open(ledger, batch)
      BY <1>1, Parts DEF IInv, Batch
    <2>3. /\ e \in Record /\ e.kind = "result"
          /\ Tail(batch) \in Seq(Calls) /\ Len(batch) \in Nat /\ Len(Tail(batch)) = Len(batch) - 1
          /\ Sound(ledger')
          /\ Open(ledger', Tail(batch))
      BY <2>1, <2>2, Parts, ResultIsSound
    <2> HIDE DEF e
    <2>4. /\ Apart(ledger') /\ ledger' \in Seq(Record)
          /\ ledger'[Len(ledger')] = e
          /\ Context(ledger') = Append(Context(ledger), Len(ledger'))
          /\ Append(history, Len(ledger')) \in Seq(1..Len(ledger'))
          /\ lastHead \in 0..Len(ledger')
      BY <2>1, <2>3, EntryWritten
    <2>5. TypeOK'
      BY <1>1, <2>1, <2>3, <2>4 DEF IInv, TypeOK, Record
    <2>6. Batch'
      <3>1. pc' = "tools" => Tail(batch) # <<>>
        BY <2>1, <2>2, <2>3
      <3>2. QED
        BY <2>1, <2>3, <3>1 DEF Batch
    <2>7. Sending'
      BY <1>1, <2>1, <2>4 DEF IInv, Sending
    <2>8. Headed'
      BY <2>3, <2>4 DEF Headed
    <2>9. QED
      BY ONLY <1>2, <2>3, <2>4, <2>5, <2>6, <2>7, <2>8 DEF IInv
  <1>5. QED
    BY <1>3, <1>4

(* After the stop each open call gets its result, one after the other. *)
LEMMA UnexecutedKeeps == ASSUME IInv, Unexecuted PROVE IInv'
  <1>1. /\ pc = "unexecuted"
        /\ UNCHANGED <<history, final, retried, lastHead, draft, cancelled, waiting, offered, turns>>
    BY DEF Unexecuted, outerVars
  <1>2. (waiting <= offered)'
    BY <1>1 DEF IInv
  <1>3. CASE pc' = "finish" /\ UNCHANGED <<ledger, batch>>
    <2>1. TypeOK'
      BY <1>1, <1>3 DEF IInv, TypeOK
    <2>2. Batch' /\ Sending' /\ Headed'
      BY <1>3 DEF Batch, Sending, Headed
    <2>3. QED
      BY <1>2, <1>3, <2>1, <2>2, LedgerUntouched
  <1>4. CASE ~(pc' = "finish" /\ UNCHANGED <<ledger, batch>>)
    <2> DEFINE e == Result(Head(batch))
    <2>1. /\ ledger' = Append(ledger, e)
          /\ batch' = Tail(batch) /\ batch # <<>> /\ pc' = pc
      BY <1>4 DEF Unexecuted, Write, WriteFails, Return
    <2>2. batch \in Seq(Calls) /\ Open(ledger, batch)
      BY <1>1, Parts DEF IInv, Batch
    <2>3. /\ e \in Record /\ e.kind = "result"
          /\ Tail(batch) \in Seq(Calls)
          /\ Sound(ledger')
          /\ Open(ledger', Tail(batch))
      BY <2>1, <2>2, Parts, ResultIsSound
    <2> HIDE DEF e
    <2>4. /\ Apart(ledger') /\ ledger' \in Seq(Record)
          /\ ledger'[Len(ledger')] = e
          /\ history \in Seq(1..Len(ledger'))
          /\ lastHead \in 0..Len(ledger')
      BY <2>1, <2>3, EntryWritten
    <2>5. TypeOK'
      BY <1>1, <2>1, <2>3, <2>4 DEF IInv, TypeOK, Record
    <2>6. Batch' /\ Sending'
      BY <1>1, <2>1, <2>3 DEF Batch, Sending
    <2>7. Headed'
      BY <2>3, <2>4 DEF Headed
    <2>8. QED
      BY ONLY <1>2, <2>3, <2>4, <2>5, <2>6, <2>7 DEF IInv
  <1>5. QED
    BY <1>3, <1>4

(* Inputs a checkpoint may record. *)
LEMMA SteersWritten ==
  ASSUME IInv, NEW n \in Nat, ledger' = ledger \o [k \in 1..n |-> Entry("steer")]
  PROVE  /\ Sound(ledger') /\ Apart(ledger')
         /\ ledger' \in Seq(Record) /\ Len(ledger') = Len(ledger) + n
         /\ Context(ledger') = Context(ledger) \o Span(Len(ledger) + 1, Len(ledger) + n)
         /\ Context(ledger') \in Seq(1..Len(ledger'))
         /\ history \in Seq(1..Len(ledger'))
         /\ lastHead \in 0..Len(ledger')
         /\ n # 0 => ledger'[Len(ledger')].kind = "steer"
         /\ n = 0 => ledger' = ledger
  <1> DEFINE t == [k \in 1..n |-> Entry("steer")]
  <1>0. /\ ledger \in Seq(Record) /\ Len(ledger) \in Nat
        /\ Sound(ledger) /\ Keeps(ledger) /\ Apart(ledger)
        /\ history \in Seq(1..Len(ledger)) /\ lastHead \in 0..Len(ledger)
    BY Parts
  <1>1. Entry("steer") \in Record /\ Entry("steer").kind = "steer" /\ Entry("steer").of = NoCall
    BY EntriesAre DEF Kinds
  <1>2. /\ t \in Seq(Record) /\ Len(t) = n
        /\ \A i \in 1..Len(t) : t[i].kind = "steer" /\ t[i].of = NoCall
    <2>1. PICK e \in Record : e = Entry("steer")
      BY <1>1
    <2>2. t = [k \in 1..n |-> e]
      BY <2>1
    <2>3. [k \in 1..n |-> e] \in Seq(Record) /\ Len([k \in 1..n |-> e]) = n
      OBVIOUS
    <2>4. QED
      BY <1>1, <2>1, <2>2, <2>3
  <1>3. ledger' = ledger \o t
    OBVIOUS
  <1> HIDE DEF t
  <1>4. \A i \in 1..Len(t) : t[i].kind # "summary"
    BY <1>2
  <1>5. Sound(ledger')
    BY <1>0, <1>2, <1>3, WordsAreSound
  <1>6. Context(ledger') = Context(ledger) \o Span(Len(ledger) + 1, Len(ledger) + n)
    BY <1>0, <1>2, <1>3, <1>4, ContextGrows
  <1>7. /\ ledger' \in Seq(Record) /\ Len(ledger') = Len(ledger) + n
        /\ DOMAIN ledger = 1..Len(ledger) /\ DOMAIN ledger' = 1..(Len(ledger) + n)
        /\ \A k \in 1..Len(ledger) : ledger'[k] = ledger[k]
        /\ \A i \in 1..n : ledger'[Len(ledger) + i] = t[i]
        /\ \A k \in 1..(Len(ledger) + n) :
             k \in 1..Len(ledger) \/ \E i \in 1..n : k = Len(ledger) + i
    <2>1. Len(t) = n
      BY <1>2
    <2>2. /\ ledger \o t \in Seq(Record)
          /\ Len(ledger \o t) = Len(ledger) + Len(t)
          /\ DOMAIN ledger = 1..Len(ledger) /\ DOMAIN (ledger \o t) = 1..(Len(ledger) + Len(t))
          /\ \A k \in 1..Len(ledger) : (ledger \o t)[k] = ledger[k]
          /\ \A i \in 1..Len(t) : (ledger \o t)[Len(ledger) + i] = t[i]
          /\ \A k \in 1..(Len(ledger) + Len(t)) :
               k \in 1..Len(ledger) \/ \E i \in 1..Len(t) : k = Len(ledger) + i
      BY ONLY <1>0, <1>2, Joined
    <2>3. QED
      BY ONLY <1>3, <2>1, <2>2
  <1>8. Context(ledger') \in Seq(1..Len(ledger'))
    BY <1>5, <1>7, ContextIsPositions DEF Sound
  <1>9. history \in Seq(1..Len(ledger'))
    BY <1>0, <1>7, PositionsStay
  <1>10. Apart(ledger')
    <2> SUFFICES ASSUME NEW k \in 1..(Len(ledger) + n), k > 1, ledger'[k].kind = "summary"
                 PROVE  ledger'[k - 1].kind # "summary"
      BY <1>7 DEF Apart
    <2>1. k \in 1..Len(ledger)
      BY <1>2, <1>7
    <2>2. k - 1 \in 1..Len(ledger)
      BY <1>0, <2>1
    <2>3. QED
      BY <1>0, <1>7, <2>1, <2>2 DEF Apart
  <1>11. n # 0 => ledger'[Len(ledger')].kind = "steer"
    BY <1>0, <1>2, <1>7
  <1>12. n = 0 => ledger' = ledger
    <2> HAVE n = 0
    <2>1. t = <<>>
      BY <1>2
    <2>2. QED
      BY ONLY <2>1, <1>0, <1>3, ConcatEmptySeq
  <1>13. lastHead \in 0..Len(ledger')
    BY <1>0, <1>7
  <1>14. QED
    BY ONLY <1>5, <1>6, <1>7, <1>8, <1>9, <1>10, <1>11, <1>12, <1>13

LEMMA CheckpointKeeps == ASSUME IInv, Checkpoint PROVE IInv'
  <1>1. /\ pc \in {"initial", "checkpoint"}
        /\ waiting' = 0 /\ retried' = FALSE
        /\ UNCHANGED <<batch, final, lastHead, draft, cancelled, offered, turns>>
    BY DEF Checkpoint
  <1>2. waiting \in Nat /\ offered \in Nat /\ waiting' \in 0..MaxInputs /\ (waiting <= offered)'
    BY <1>1, ReactLoopAssumption DEF IInv, TypeOK
  <1>3. CASE /\ ledger' = ledger \o [k \in 1..waiting |-> Entry("steer")]
             /\ CheckpointInputs(waiting)
             /\ pc' = IF final /\ waiting = 0 THEN "finish" ELSE "compact"
    <2>1. /\ Sound(ledger') /\ Apart(ledger')
          /\ ledger' \in Seq(Record) /\ Len(ledger') = Len(ledger) + waiting
          /\ Context(ledger') = Context(ledger) \o Span(Len(ledger) + 1, Len(ledger) + waiting)
          /\ Context(ledger') \in Seq(1..Len(ledger'))
          /\ lastHead \in 0..Len(ledger')
          /\ waiting # 0 => ledger'[Len(ledger')].kind = "steer"
          /\ waiting = 0 => ledger' = ledger
      BY <1>2, <1>3, SteersWritten
    <2>2. history' = Context(ledger')
      BY <1>1, <1>3, <2>1 DEF IInv, Sending, CheckpointInputs
    <2>3. TypeOK'
      BY <1>1, <1>2, <1>3, <2>1, <2>2 DEF IInv, TypeOK, Record
    <2>4. Batch' /\ Sending'
      BY <1>3, <2>2 DEF Batch, Sending
    <2>5. Headed'
      BY <1>1, <1>3, <2>1 DEF IInv, Headed
    <2>6. QED
      BY ONLY <1>2, <2>1, <2>3, <2>4, <2>5 DEF IInv
  <1>4. CASE \E n \in 0..(waiting - 1) :
               /\ ledger' = ledger \o [k \in 1..n |-> Entry("steer")]
               /\ pc' = "finish" /\ history' = history
    <2>1. PICK n \in 0..(waiting - 1) :
               /\ ledger' = ledger \o [k \in 1..n |-> Entry("steer")]
               /\ pc' = "finish" /\ history' = history
      BY <1>4
    <2>2. n \in Nat
      OBVIOUS
    <2>3. /\ Sound(ledger') /\ Apart(ledger') /\ ledger' \in Seq(Record)
          /\ history \in Seq(1..Len(ledger'))
          /\ lastHead \in 0..Len(ledger')
      BY <2>1, <2>2, SteersWritten
    <2>4. TypeOK'
      BY <1>1, <1>2, <2>1, <2>3 DEF IInv, TypeOK, Record
    <2>5. Batch' /\ Sending' /\ Headed'
      BY <2>1 DEF Batch, Sending, Headed
    <2>6. QED
      BY ONLY <1>2, <2>3, <2>4, <2>5 DEF IInv
  <1>5. CASE pc' = "finish" /\ UNCHANGED <<ledger, history>>
    <2>1. TypeOK'
      BY <1>1, <1>2, <1>5 DEF IInv, TypeOK
    <2>2. Batch' /\ Sending' /\ Headed'
      BY <1>5 DEF Batch, Sending, Headed
    <2>3. QED
      BY <1>2, <1>5, <2>1, <2>2, LedgerUntouched
  <1>6. QED
    BY <1>3, <1>4, <1>5 DEF Checkpoint, Return

LEMMA FinishKeeps == ASSUME IInv, Finish PROVE IInv'
  <1>1. /\ pc' = "idle" /\ history' = <<>> /\ batch' = <<>>
        /\ final' = FALSE /\ retried' = FALSE /\ lastHead' = 0 /\ draft' = FALSE
        /\ cancelled' = FALSE /\ waiting' = 0
        /\ UNCHANGED <<offered, turns>>
    BY DEF Finish, Forget
  <1>2. waiting' \in 0..MaxInputs /\ (waiting <= offered)'
    BY <1>1, ReactLoopAssumption DEF IInv, TypeOK
  <1>3. Batch' /\ Sending' /\ Headed'
    BY <1>1 DEF Batch, Sending, Headed
  <1>4. <<>> \in Seq(1..Len(ledger')) /\ <<>> \in Seq(Calls)
    OBVIOUS
  <1>5. CASE ledger' = ledger
    <2>1. TypeOK'
      <3>1. ledger' \in Seq(Record) /\ history' \in Seq(1..Len(ledger')) /\ lastHead' \in 0..Len(ledger')
        BY <1>1, <1>4, <1>5, Parts
      <3>2. QED
        BY <1>1, <1>2, <1>4, <3>1 DEF IInv, TypeOK, Record
    <2>2. QED
      BY <1>2, <1>3, <1>5, <2>1, LedgerUntouched
  <1>6. CASE ledger' = Append(ledger, Entry("partial"))
    <2> DEFINE e == Entry("partial")
    <2>1. e \in Record /\ e.kind = "partial" /\ e.of = NoCall
      BY EntriesAre DEF Kinds
    <2>2. ledger' = Append(ledger, e)
      BY <1>6
    <2> HIDE DEF e
    <2>3. Sound(ledger')
      BY <2>1, <2>2, Parts, WordIsSound
    <2>4. Apart(ledger') /\ ledger' \in Seq(Record) /\ lastHead \in 0..Len(ledger')
      BY <2>1, <2>2, <2>3, EntryWritten
    <2>5. TypeOK'
      <3>1. Len(ledger') \in Nat
        BY <2>4
      <3>2. history' \in Seq(1..Len(ledger')) /\ lastHead' \in 0..Len(ledger')
        BY <1>1, <1>4, <3>1
      <3>3. QED
        BY <1>1, <1>2, <1>4, <2>4, <3>2 DEF IInv, TypeOK, Record
    <2>6. QED
      BY ONLY <1>2, <1>3, <2>3, <2>4, <2>5 DEF IInv
  <1>7. QED
    BY <1>5, <1>6 DEF Finish, Write

LEMMA CrashKeeps == ASSUME IInv, Crash PROVE IInv'
  <1>1. /\ pc' = "idle" /\ history' = <<>> /\ batch' = <<>>
        /\ final' = FALSE /\ retried' = FALSE /\ lastHead' = 0 /\ draft' = FALSE
        /\ cancelled' = FALSE /\ waiting' = 0
        /\ UNCHANGED <<ledger, offered, turns>>
    BY DEF Crash, Forget
  <1>2. waiting' \in 0..MaxInputs /\ (waiting <= offered)'
    BY <1>1, ReactLoopAssumption DEF IInv, TypeOK
  <1>3. Batch' /\ Sending' /\ Headed'
    BY <1>1 DEF Batch, Sending, Headed
  <1>4. <<>> \in Seq(1..Len(ledger')) /\ <<>> \in Seq(Calls)
    OBVIOUS
  <1>5. TypeOK'
    <2>1. ledger' \in Seq(Record) /\ history' \in Seq(1..Len(ledger')) /\ lastHead' \in 0..Len(ledger')
      BY <1>1, <1>4, Parts
    <2>2. QED
      BY <1>1, <1>2, <1>4, <2>1 DEF IInv, TypeOK, Record
  <1>6. QED
    BY <1>1, <1>2, <1>3, <1>5, LedgerUntouched

LEMMA OfferKeeps == ASSUME IInv, Offer PROVE IInv'
  <1>1. /\ waiting' = waiting + 1 /\ offered' = offered + 1 /\ offered < MaxInputs
        /\ UNCHANGED <<ledger, pc, loopVars, cancelled, turns>>
    BY DEF Offer
  <1>2. (waiting <= offered)' /\ waiting' \in 0..MaxInputs /\ offered' \in 0..MaxInputs
    BY <1>1, ReactLoopAssumption DEF IInv, TypeOK
  <1>3. TypeOK'
    BY <1>1, <1>2 DEF IInv, TypeOK, loopVars
  <1>4. Batch' /\ Sending' /\ Headed'
    BY <1>1 DEF IInv, Batch, Sending, Headed, loopVars
  <1>5. QED
    BY <1>1, <1>2, <1>3, <1>4, LedgerUntouched

LEMMA CancelKeeps == ASSUME IInv, Cancel PROVE IInv'
  <1>1. /\ waiting' = 0 /\ cancelled' = TRUE
        /\ UNCHANGED <<ledger, pc, loopVars, offered, turns>>
    BY DEF Cancel
  <1>2. (waiting <= offered)' /\ waiting' \in 0..MaxInputs
    BY <1>1, ReactLoopAssumption DEF IInv, TypeOK
  <1>3. TypeOK'
    BY <1>1, <1>2 DEF IInv, TypeOK, loopVars
  <1>4. Batch' /\ Sending' /\ Headed'
    BY <1>1 DEF IInv, Batch, Sending, Headed, loopVars
  <1>5. QED
    BY <1>1, <1>2, <1>3, <1>4, LedgerUntouched

(* The empty ledger. *)
LEMMA InitIInv == Init => IInv
  <1> HAVE Init
  <1>1. <<>> \in Seq(Record) /\ DOMAIN <<>> = {} /\ Len(<<>>) = 0
    OBVIOUS
  <1>2. Summaries(<<>>) = {} /\ Users(<<>>) = {}
    BY <1>1 DEF Summaries, Users
  <1>3. Latest({}) = 0
    BY DEF Latest
  <1>4. Len(Context(<<>>)) = 0 /\ Context(<<>>) \in Seq(1..0)
    BY <1>1, <1>2, <1>3, ContextFromTheStart
  <1>5. DOMAIN Context(<<>>) = {}
    BY <1>4
  <1>6. Keeps(<<>>) /\ Once(<<>>) /\ Follow(<<>>) /\ Apart(<<>>)
    BY <1>1 DEF Keeps, Once, Follow, Apart
  <1>7. Forward(<<>>) /\ Paired(<<>>) /\ Heard(<<>>)
    BY <1>2, <1>3, <1>5 DEF Forward, Paired, Heard
  <1>8. Sound(ledger) /\ Apart(ledger)
    BY <1>1, <1>6, <1>7 DEF Init, Sound
  <1>9. TypeOK
    <2>1. <<>> \in Seq(1..0) /\ <<>> \in Seq(Calls)
      OBVIOUS
    <2>2. ledger = <<>> /\ history = <<>> /\ batch = <<>> /\ lastHead = 0
      BY DEF Init
    <2>3. ledger \in Seq(Record) /\ history \in Seq(1..Len(ledger)) /\ lastHead \in 0..Len(ledger)
      BY <1>1, <2>1, <2>2
    <2>4. batch \in Seq(Calls)
      BY <2>1, <2>2
    <2>5. waiting \in 0..MaxInputs /\ offered \in 0..MaxInputs /\ turns \in 0..MaxTurns
      <3>1. MaxInputs \in Nat /\ MaxTurns \in Nat
        BY ReactLoopAssumption
      <3>2. waiting = 0 /\ offered = 0 /\ turns = 0
        BY DEF Init
      <3>3. QED
        BY ONLY <3>1, <3>2
    <2>6. {final, retried, draft, cancelled} \subseteq BOOLEAN /\ pc = "idle"
      BY DEF Init
    <2>7. QED
      BY ONLY <2>3, <2>4, <2>5, <2>6 DEF TypeOK, Record
  <1>10. waiting <= offered /\ Batch /\ Sending /\ Headed
    BY DEF Init, Batch, Sending, Headed
  <1>11. QED
    BY <1>8, <1>9, <1>10 DEF IInv

LEMMA NextKeepsIInv == IInv /\ [Next]_vars => IInv'
  <1> HAVE IInv /\ [Next]_vars
  <1>1. CASE Next
    BY <1>1, TurnKeeps, ManageContextKeeps, RecoverKeeps, RequestAnswerKeeps, RequestEmptyKeeps,
       RequestFailsKeeps, RequestTooLargeKeeps, ToolStartKeeps, ToolReturnKeeps, UnexecutedKeeps,
       CheckpointKeeps, FinishKeeps, OfferKeeps, CancelKeeps, CrashKeeps DEF Next, LoopStep
  <1>2. CASE UNCHANGED vars
    <2>1. UNCHANGED <<ledger, pc, history, batch, final, retried, lastHead, draft,
                      cancelled, waiting, offered, turns>>
      BY <1>2 DEF vars, loopVars, outerVars
    <2>2. TypeOK' /\ (waiting <= offered)'
      BY <2>1 DEF IInv, TypeOK
    <2>3. Batch' /\ Sending' /\ Headed'
      BY <2>1 DEF IInv, Batch, Sending, Headed
    <2>4. QED
      BY <2>1, <2>2, <2>3, LedgerUntouched
  <1>3. QED
    BY <1>1, <1>2

LEMMA IInvHolds == Spec => []IInv
  BY InitIInv, NextKeepsIInv, PTL DEF Spec

-----------------------------------------------------------------------------
(* What is proved of the turns of a session *)

(* Types: the kinds of entries, the calls of answers and results, the      *)
(* positions a summary keeps and the loop remembers (session.go, react.go).*)
THEOREM TypeOKHolds == Spec => []TypeOK
  <1>1. IInv => TypeOK
    BY DEF IInv
  <1>2. QED
    BY <1>1, IInvHolds, PTL

(* The results of an answer follow it at once and in the order of its      *)
(* calls, whatever is steered in, stopped, compacted or lost in a crash    *)
(* (react.go, the loop over the calls of an answer and finishUnexecuted).  *)
THEOREM ResultsFollowCallsHolds == Spec => []ResultsFollowCalls
  <1>1. IInv => ResultsFollowCalls
    BY DEF IInv, Sound, Follow, ResultsFollowCalls
  <1>2. QED
    BY <1>1, IInvHolds, PTL

(* The history the loop has carried along through answers, results,        *)
(* checkpoints and compactions is, when it asks the model, the context the *)
(* ledger gives (react.go, emit.go, Session.ContextEntries).               *)
THEOREM RequestsTheLedgerHolds == Spec => []RequestsTheLedger
  <1>1. IInv => RequestsTheLedger
    BY DEF IInv, Sending, RequestsTheLedger
  <1>2. QED
    BY <1>1, IInvHolds, PTL

(* However often a session is compacted, a result in its context comes     *)
(* after its call, and the last words of the user are there                *)
(* (compactSelection).                                                     *)
THEOREM ContextIsWholeHolds == Spec => []ContextIsWhole
  <1>1. IInv => ContextIsWhole
    BY DEF IInv, Sound, Paired, Heard, ContextIsWhole
  <1>2. QED
    BY <1>1, IInvHolds, PTL

(* No summary follows another at once: what was compacted last is not      *)
(* compacted again (manageContext, lastCompactHead).                       *)
THEOREM CompactsWhatIsNewHolds == Spec => []CompactsWhatIsNew
  <1>1. IInv => CompactsWhatIsNew
    BY DEF IInv, Apart, CompactsWhatIsNew
  <1>2. QED
    BY <1>1, IInvHolds, PTL

-----------------------------------------------------------------------------
(* Where nothing fails no call stays open *)

(* An entry leaves the calls settled if those it issues are in the new     *)
(* batch and the old batch loses only the call it answers.                 *)
LEMMA SettlesEntry ==
  ASSUME NEW l \in Seq(Record), NEW e \in Record, NEW b, NEW d, Settled(l, b),
         ToSet(e.calls) \subseteq ToSet(d),
         \A c \in ToSet(b) : c = e.of \/ c \in ToSet(d)
  PROVE  Settled(Append(l, e), d)
  <1> DEFINE w == Append(l, e)
  <1>1. /\ DOMAIN l = 1..Len(l) /\ DOMAIN w = 1..(Len(l) + 1) /\ Len(l) \in Nat
        /\ \A k \in 1..Len(l) : w[k] = l[k]
        /\ w[Len(l) + 1] = e
        /\ \A k \in 1..(Len(l) + 1) : k \in 1..Len(l) \/ k = Len(l) + 1
    BY OneMore
  <1> HIDE DEF w
  <1>2. \A k \in DOMAIN l : k \in DOMAIN w /\ w[k] = l[k]
    BY <1>1
  <1>3. Len(l) + 1 \in DOMAIN w
    BY <1>1
  <1>4. ASSUME NEW c \in IssuedBy(w)
        PROVE  (\E k \in DOMAIN w : w[k].of = c) \/ c \in ToSet(d)
    <2>1. PICK k \in DOMAIN w : c \in ToSet(w[k].calls)
      BY DEF IssuedBy
    <2>2. CASE k \in DOMAIN l
      <3>1. c \in IssuedBy(l)
        BY <1>2, <2>1, <2>2 DEF IssuedBy
      <3>2. (\E j \in DOMAIN l : l[j].of = c) \/ c \in ToSet(b)
        BY <3>1 DEF Settled
      <3>3. CASE \E j \in DOMAIN l : l[j].of = c
        BY <1>2, <3>3
      <3>4. CASE c \in ToSet(b)
        BY <1>1, <1>3, <3>4
      <3>5. QED
        BY <3>2, <3>3, <3>4
    <2>3. CASE k = Len(l) + 1
      BY <1>1, <2>1, <2>3
    <2>4. QED
      BY <1>1, <2>2, <2>3
  <1>5. QED
    BY <1>4 DEF Settled, w

(* Words of the user issue no call.                                        *)
LEMMA SettlesSteers ==
  ASSUME NEW l \in Seq(Record), NEW n \in Nat, NEW b, Settled(l, b)
  PROVE  Settled(l \o [k \in 1..n |-> Entry("steer")], b)
  <1> DEFINE t == [k \in 1..n |-> Entry("steer")]
             w == l \o t
  <1>1. /\ t \in Seq(Record) /\ Len(t) = n
        /\ \A i \in 1..Len(t) : t[i].calls = <<>>
    <2>1. PICK e \in Record : e = Entry("steer") /\ e.calls = <<>>
      BY EntriesAre DEF Kinds
    <2>2. t = [k \in 1..n |-> e]
      BY <2>1
    <2>3. [k \in 1..n |-> e] \in Seq(Record) /\ Len([k \in 1..n |-> e]) = n
      OBVIOUS
    <2>4. QED
      BY <2>1, <2>2, <2>3
  <1> HIDE DEF t
  <1>2. /\ DOMAIN l = 1..Len(l) /\ DOMAIN w = 1..(Len(l) + Len(t))
        /\ \A k \in 1..Len(l) : w[k] = l[k]
        /\ \A i \in 1..Len(t) : w[Len(l) + i] = t[i]
        /\ \A k \in 1..(Len(l) + Len(t)) : k \in 1..Len(l) \/ \E i \in 1..Len(t) : k = Len(l) + i
        /\ Len(l) \in Nat /\ Len(t) \in Nat
    BY <1>1, Joined
  <1> HIDE DEF w
  <1>3. \A k \in DOMAIN l : k \in DOMAIN w /\ w[k] = l[k]
    BY <1>2
  <1>4. ToSet(<<>>) = {}
    BY DEF ToSet
  <1>5. \A k \in DOMAIN w : k \in DOMAIN l \/ ToSet(w[k].calls) = {}
    <2> TAKE k \in DOMAIN w
    <2>1. CASE k \in 1..Len(l)
      BY ONLY <1>2, <2>1
    <2>2. CASE \E i \in 1..Len(t) : k = Len(l) + i
      <3>1. PICK i \in 1..Len(t) : k = Len(l) + i
        BY ONLY <2>2
      <3>2. w[k] = t[i] /\ t[i].calls = <<>>
        BY ONLY <1>1, <1>2, <3>1
      <3>3. QED
        BY ONLY <1>4, <3>2
    <2>3. k \in 1..(Len(l) + Len(t))
      BY ONLY <1>2
    <2>4. QED
      BY ONLY <1>2, <2>1, <2>2, <2>3
  <1>6. IssuedBy(w) \subseteq IssuedBy(l)
    BY <1>3, <1>5 DEF IssuedBy
  <1>7. QED
    BY <1>3, <1>6 DEF Settled, w, t

(* The loop leaves a batch only when each of its calls has a result, unless *)
(* the turn ends around it: a write fails, or the process stops.           *)
GivesUp == batch # <<>> /\ pc' \in {"idle", "finish"}

LEMMA NextSettles ==
  ASSUME ~GivesUp, IInv, AllAnswered, Next
  PROVE  AllAnswered'
  <1>0. /\ ledger \in Seq(Record) /\ batch \in Seq(Calls)
        /\ Settled(ledger, batch)
    BY Parts DEF AllAnswered
  <1>1. ToSet(<<>>) = {}
    BY DEF ToSet
  <1>2. \A e \in Record : e.calls = <<>> => Settled(Append(ledger, e), batch)
    <2> TAKE e \in Record
    <2> HAVE e.calls = <<>>
    <2>1. ToSet(e.calls) \subseteq ToSet(batch)
      BY <1>1
    <2>2. QED
      BY <1>0, <2>1, SettlesEntry
  <1>3. \A k \in Kinds : Entry(k) \in Record /\ Entry(k).calls = <<>>
    BY EntriesAre
  <1>4. ASSUME Turn PROVE AllAnswered'
    <2>1. ledger' = Append(ledger, Entry("prompt")) /\ batch' = batch /\ pc = "idle"
      BY <1>4 DEF Turn, Write
    <2>2. Settled(ledger', batch')
      BY <1>2, <1>3, <2>1 DEF Kinds
    <2>3. batch' = <<>>
      BY <2>1 DEF AllAnswered
    <2>4. QED
      BY <2>2, <2>3 DEF AllAnswered
  <1>5. ASSUME CompactHistory, pc \in {"compact", "recover"}, batch' = batch
        PROVE  AllAnswered'
    <2>1. CASE ledger' = ledger
      BY <1>5, <2>1 DEF AllAnswered, CompactHistory, Return
    <2>2. CASE ledger' # ledger
      <3>1. PICK cut \in Boundaries(Context(ledger)) :
              ledger' = Append(ledger, Summary(Kept(Context(ledger), cut)))
        BY <1>5, <2>2 DEF CompactHistory, Write, Return
      <3>2. Kept(Context(ledger), cut) \in Seq(1..Len(ledger)) /\ 1..Len(ledger) \subseteq Nat
        BY Parts, SummariesAreSound
      <3>3. Kept(Context(ledger), cut) \in Seq(Nat)
        BY ONLY <3>2, SeqMonotonic
      <3>4. /\ Summary(Kept(Context(ledger), cut)) \in Record
            /\ Summary(Kept(Context(ledger), cut)).calls = <<>>
        BY ONLY <3>3, EntriesAre
      <3>5. Settled(ledger', batch')
        BY ONLY <1>2, <1>5, <3>1, <3>4
      <3>6. batch' = <<>>
        BY <1>5 DEF AllAnswered
      <3>7. QED
        BY <3>5, <3>6 DEF AllAnswered
    <2>3. QED
      BY <2>1, <2>2
  <1>6. ASSUME ManageContext PROVE AllAnswered'
    <2>1. CASE pc' = "request" /\ UNCHANGED <<ledger, lastHead, history>>
      BY <1>6, <2>1 DEF AllAnswered, ManageContext
    <2>2. CASE CompactHistory
      BY <1>5, <1>6, <2>2 DEF ManageContext
    <2>3. QED
      BY <1>6, <2>1, <2>2 DEF ManageContext
  <1>7. ASSUME Recover PROVE AllAnswered'
    BY <1>5, <1>7 DEF Recover
  <1>9. ASSUME pc = "request", pc' \in {"finish", "recover"}, UNCHANGED <<ledger, batch>>
        PROVE  AllAnswered'
    BY <1>9 DEF AllAnswered
  <1>8. ASSUME RequestAnswer PROVE AllAnswered'
    <2> DEFINE Asked(n, cs) ==
            /\ ledger' = Append(ledger, Answer(cs))
            /\ batch' = cs
            /\ pc' = IF n = 0 THEN "checkpoint" ELSE "tools"
    <2>0. CASE ledger' = ledger /\ batch' = batch /\ pc = "request" /\ pc' = "finish"
      BY <1>9, <2>0
    <2> SUFFICES ASSUME \E n \in 0..MaxBatch : \E cs \in [1..n -> Calls \ Issued] : Asked(n, cs)
                 PROVE  AllAnswered'
      BY <1>8, <2>0 DEF RequestAnswer, Write, WriteFails, Return
    <2>1. PICK n \in 0..MaxBatch : \E cs \in [1..n -> Calls \ Issued] : Asked(n, cs)
      OBVIOUS
    <2>2. PICK cs \in [1..n -> Calls \ Issued] : Asked(n, cs)
      BY <2>1
    <2>3. n \in Nat /\ cs \in Seq(Calls) /\ Len(cs) = n
      BY ReactLoopAssumption
    <2>4. Answer(cs) \in Record /\ Answer(cs).calls = cs
      BY <2>3, EntriesAre
    <2>5. batch = <<>>
      BY <1>8 DEF AllAnswered, RequestAnswer
    <2>6. Settled(ledger', batch')
      <3>1. /\ ToSet(Answer(cs).calls) \subseteq ToSet(cs)
            /\ \A c \in ToSet(batch) : c = Answer(cs).of \/ c \in ToSet(cs)
        BY <1>1, <2>4, <2>5
      <3>2. Settled(Append(ledger, Answer(cs)), cs)
        BY ONLY <1>0, <2>4, <3>1, SettlesEntry
      <3>3. QED
        BY <2>2, <3>2
    <2>7. n = 0 => cs = <<>>
      BY <2>3
    <2>8. QED
      BY <2>2, <2>6, <2>7 DEF AllAnswered
  <1>10. ASSUME RequestFails PROVE AllAnswered'
    <2>1. /\ pc = "request" /\ batch' = batch
          /\ ledger' = ledger \/ ledger' = Append(ledger, Entry("partial"))
      BY <1>10 DEF RequestFails, Write
    <2>2. Settled(ledger', batch')
      BY <1>0, <1>2, <1>3, <2>1 DEF Kinds
    <2>3. batch' = <<>>
      BY <2>1 DEF AllAnswered
    <2>4. QED
      BY <2>2, <2>3 DEF AllAnswered
  <1>11. ASSUME ToolStart PROVE AllAnswered'
    BY <1>11 DEF AllAnswered, ToolStart, StartNext, loopVars
  (* The result of the first of the batch. *)
  <1>12. ASSUME batch # <<>>, ledger' = Append(ledger, Result(Head(batch))), batch' = Tail(batch)
         PROVE  Settled(ledger', batch') /\ Len(batch') = Len(batch) - 1
    <2>1. /\ Head(batch) \in Calls /\ Head(batch) = batch[1]
          /\ Len(Tail(batch)) = Len(batch) - 1 /\ Len(batch) \in Nat
          /\ Tail(batch) \in Seq(Calls)
          /\ \A i \in 1..Len(Tail(batch)) : Tail(batch)[i] = batch[i + 1]
      BY <1>0, <1>12, HeadTailProperties
    <2>2. /\ Result(Head(batch)) \in Record /\ Result(Head(batch)).calls = <<>>
          /\ Result(Head(batch)).of = Head(batch)
      BY <2>1, EntriesAre
    <2>3. \A c \in ToSet(batch) : c = Head(batch) \/ c \in ToSet(Tail(batch))
      <3> TAKE c \in ToSet(batch)
      <3>1. PICK i \in 1..Len(batch) : c = batch[i]
        BY <1>0 DEF ToSet
      <3>2. CASE i # 1
        <4>1. i - 1 \in 1..Len(Tail(batch)) /\ i - 1 + 1 = i
          BY <2>1, <3>2
        <4>2. Tail(batch)[i - 1] = c /\ i - 1 \in DOMAIN Tail(batch)
          BY <2>1, <3>1, <4>1
        <4>3. QED
          BY <4>2 DEF ToSet
      <3>3. QED
        BY <2>1, <3>1, <3>2
    <2>4. Settled(Append(ledger, Result(Head(batch))), Tail(batch))
      BY <1>0, <1>1, <2>2, <2>3, SettlesEntry
    <2>5. QED
      BY <1>12, <2>1, <2>4
  <1>13. ASSUME ToolReturn PROVE AllAnswered'
    <2>1. /\ batch # <<>> /\ ledger' = Append(ledger, Result(Head(batch))) /\ batch' = Tail(batch)
          /\ \/ pc' = IF Len(batch) = 1 THEN "checkpoint" ELSE "tools"
             \/ pc' = "unexecuted"
      BY <1>13 DEF GivesUp, IInv, Batch, ToolReturn, Write, WriteFails, AfterResult, Return
    <2>2. Settled(ledger', batch') /\ Len(batch') = Len(batch) - 1
      BY <1>12, <2>1
    <2>3. batch' \in Seq(Calls)
      BY <1>0, <2>1, HeadTailProperties
    <2>4. Len(batch) = 1 => batch' = <<>>
      BY <2>2, <2>3
    <2>5. QED
      BY <2>1, <2>2, <2>4 DEF AllAnswered
  <1>14. ASSUME Unexecuted PROVE AllAnswered'
    <2>1. CASE batch = <<>>
      BY <1>14, <2>1 DEF AllAnswered, Unexecuted, Return
    <2>2. CASE batch # <<>>
      <3>1. ledger' = Append(ledger, Result(Head(batch))) /\ batch' = Tail(batch) /\ pc' = "unexecuted"
        BY <1>14, <2>2 DEF GivesUp, Unexecuted, Write, WriteFails, Return
      <3>2. QED
        BY <1>12, <2>2, <3>1 DEF AllAnswered
    <2>3. QED
      BY <2>1, <2>2
  <1>15. ASSUME Checkpoint PROVE AllAnswered'
    <2>1. PICK n \in Nat : \/ ledger' = ledger \o [k \in 1..n |-> Entry("steer")]
                           \/ ledger' = ledger
      <3>1. waiting \in Nat
        BY ReactLoopAssumption DEF IInv, TypeOK
      <3>2. CASE ledger' = ledger \o [k \in 1..waiting |-> Entry("steer")]
        BY ONLY <3>1, <3>2
      <3>3. CASE \E n \in 0..(waiting - 1) : ledger' = ledger \o [k \in 1..n |-> Entry("steer")]
        <4>1. PICK n \in 0..(waiting - 1) : ledger' = ledger \o [k \in 1..n |-> Entry("steer")]
          BY ONLY <3>3
        <4>2. n \in Nat
          BY ONLY <3>1, <4>1
        <4>3. QED
          BY ONLY <4>1, <4>2
      <3>4. CASE ledger' = ledger
        BY ONLY <3>4
      <3>5. QED
        BY <1>15, <3>2, <3>3, <3>4 DEF Checkpoint
    <2>2. Settled(ledger', batch)
      BY <1>0, <2>1, SettlesSteers
    <2>3. batch' = batch /\ batch = <<>>
      BY <1>15 DEF Checkpoint, AllAnswered
    <2>4. QED
      BY <2>2, <2>3 DEF AllAnswered
  <1>16. ASSUME Finish PROVE AllAnswered'
    <2>1. /\ pc = "finish" /\ batch' = <<>>
          /\ ledger' = ledger \/ ledger' = Append(ledger, Entry("partial"))
      BY <1>16 DEF Finish, Forget, Write
    <2>2. batch = <<>>
      BY <2>1 DEF AllAnswered
    <2>3. Settled(ledger', batch')
      BY <1>0, <1>2, <1>3, <2>1, <2>2 DEF Kinds
    <2>4. QED
      BY <2>1, <2>3 DEF AllAnswered
  <1>17. ASSUME UNCHANGED <<ledger, pc, batch>> PROVE AllAnswered'
    BY <1>17 DEF AllAnswered
  <1>18. CASE LoopStep
    <2>1. RequestEmpty => AllAnswered'
      BY <1>9 DEF RequestEmpty, Return, loopVars
    <2>2. RequestTooLarge => AllAnswered'
      BY <1>9 DEF RequestTooLarge, loopVars
    <2>3. QED
      BY <1>6, <1>7, <1>8, <1>10, <1>11, <1>13, <1>14, <1>15, <1>16, <1>18, <2>1, <2>2 DEF LoopStep
  <1>19. Offer => AllAnswered'
    BY <1>17 DEF Offer, loopVars
  <1>20. Cancel => AllAnswered'
    BY <1>17 DEF Cancel, loopVars
  <1>21. Crash => AllAnswered'
    <2> SUFFICES ASSUME Crash PROVE AllAnswered'
      OBVIOUS
    <2>1. ledger' = ledger /\ batch' = <<>> /\ pc' = "idle"
      BY DEF Crash, Forget
    <2>2. batch = <<>>
      BY <2>1 DEF GivesUp
    <2>3. QED
      BY <1>0, <2>1, <2>2 DEF AllAnswered
  <1>22. QED
    BY <1>4, <1>18, <1>19, <1>20, <1>21 DEF Next

(* Where nothing fails the loop works through its batch.                   *)
LEMMA NothingGivenUp ==
  ASSUME ~DiskFaults, ~Crashes, AllAnswered, Next
  PROVE  ~GivesUp
  <1> SUFFICES ASSUME batch # <<>>
               PROVE  pc' \notin {"idle", "finish"}
    BY DEF GivesUp
  <1>1. pc \in {"tools", "running", "unexecuted"}
    BY DEF AllAnswered
  <1>2. ToolStart \/ ToolReturn \/ Unexecuted \/ Offer \/ Cancel
    BY <1>1 DEF Next, Turn, LoopStep, ManageContext, Recover, RequestAnswer, RequestEmpty,
       RequestFails, RequestTooLarge, Checkpoint, Finish, Crash
  <1>3. ToolStart => pc' \notin {"idle", "finish"}
    BY DEF ToolStart, StartNext
  <1>4. ToolReturn => pc' \notin {"idle", "finish"}
    BY DEF ToolReturn, AfterResult, WriteFails
  <1>5. Unexecuted => pc' \notin {"idle", "finish"}
    BY DEF Unexecuted, WriteFails
  <1>6. Offer \/ Cancel => pc' \notin {"idle", "finish"}
    BY <1>1 DEF Offer, Cancel
  <1>7. QED
    BY <1>2, <1>3, <1>4, <1>5, <1>6

(* At rest there is no batch, so every call has its result.                *)
LEMMA AnsweredAtEnd == AllAnswered => CallsAreAnswered
  <1>1. ToSet(<<>>) = {}
    BY DEF ToSet
  <1>2. QED
    BY <1>1 DEF AllAnswered, Settled, IssuedBy, CallsAreAnswered, Issued, Answered

(* Where writes succeed and the process goes on, a turn that is over has   *)
(* left no call without its result, wherever the stop came (react.go,      *)
(* execute and finishUnexecuted).                                          *)
THEOREM CallsAreAnsweredHolds ==
  ASSUME ~DiskFaults, ~Crashes
  PROVE  Spec => []CallsAreAnswered
  <1>1. Init => AllAnswered
    BY DEF Init, AllAnswered, Settled, IssuedBy
  <1>2. IInv /\ AllAnswered /\ [Next]_vars => AllAnswered'
    <2>1. IInv /\ AllAnswered /\ Next => AllAnswered'
      BY NextSettles, NothingGivenUp
    <2>2. AllAnswered /\ UNCHANGED vars => AllAnswered'
      BY DEF AllAnswered, vars, loopVars
    <2>3. QED
      BY <2>1, <2>2
  <1>3. QED
    BY <1>1, <1>2, AnsweredAtEnd, IInvHolds, PTL DEF Spec

-----------------------------------------------------------------------------
(* The scene "turns": one turn in which nothing fails, of the same ledger. *)

(* Its operators are those of the module.                                  *)
LEMMA TurnOperators ==
  /\ \A l : T!Context(l) = Context(l)
  /\ \A c, n : T!OpenCalls(c, n) = OpenCalls(c, n)
  /\ \A c : T!Boundaries(c) = Boundaries(c)
  /\ \A c, n : T!Kept(c, n) = Kept(c, n)
  /\ \A k : T!Entry(k) = Entry(k)
  /\ \A b : T!Answer(b) = Answer(b)
  /\ \A x : T!Result(x) = Result(x)
  /\ \A k : T!Summary(k) = Summary(k)
  /\ T!Issued = Issued
  /\ \A n : T!CheckpointInputs(n) <=> CheckpointInputs(n)
  /\ T!Return <=> Return
  /\ T!Forget <=> Forget
  <1>1. \A a, b : T!Span(a, b) = Span(a, b)
    BY DEF T!Span, Span
  <1>2. \A p : T!Latest(p) = Latest(p)
    BY DEF T!Latest, Latest
  <1>3. \A s : T!ToSet(s) = ToSet(s)
    BY DEF T!ToSet, ToSet
  <1>4. \A e : T!IsUser(e) <=> IsUser(e)
    BY DEF T!IsUser, IsUser
  <1>5. \A l : T!Context(l) = Context(l)
    BY <1>1, <1>2 DEF T!Context, Context, T!Summaries, Summaries
  <1>6. \A c, n : T!OpenCalls(c, n) = OpenCalls(c, n)
    BY <1>3 DEF T!OpenCalls, OpenCalls
  <1>7. \A c : T!Boundaries(c) = Boundaries(c)
    BY <1>6 DEF T!Boundaries, Boundaries
  <1>8. \A c, n : T!Kept(c, n) = Kept(c, n)
    BY <1>2, <1>4 DEF T!Kept, Kept
  <1>9. T!Issued = Issued
    BY <1>3 DEF T!Issued, Issued
  <1>10. QED
    BY <1>1, <1>5, <1>6, <1>7, <1>8, <1>9 DEF T!Entry, Entry, T!Answer, Answer, T!Result, Result,
       T!Summary, Summary, T!CheckpointInputs, CheckpointInputs, T!Return, Return, T!Forget, Forget

(* A step of that turn is one of the module's, and gives up no batch.      *)
LEMMA TurnSteps ==
  ASSUME MaxTurns > 0, IInv, AllAnswered, T!Next
  PROVE  Next /\ ~GivesUp
  <1>1. ASSUME T!Turn PROVE Next /\ ~GivesUp
    <2>1. turns < MaxTurns
      BY <1>1, ReactLoopAssumption DEF T!Turn, IInv, TypeOK
    <2>2. Turn
      BY <1>1, <2>1, TurnOperators DEF T!Turn, Turn, T!Write, Write
    <2>3. QED
      BY <2>2 DEF Next, Turn, GivesUp
  <1>2. T!CompactHistory => CompactHistory
    BY TurnOperators DEF T!CompactHistory, CompactHistory, T!NothingNew, NothingNew, T!Write, Write
  <1>3. T!ManageContext => ManageContext
    BY <1>2 DEF T!ManageContext, ManageContext, T!outerVars, outerVars
  <1>4. T!Recover => Recover
    BY <1>2 DEF T!Recover, Recover, T!outerVars, outerVars
  <1>5. T!RequestAnswer => RequestAnswer
    BY TurnOperators DEF T!RequestAnswer, RequestAnswer, T!Write, Write, T!WriteFails, T!outerVars, outerVars
  <1>6. T!RequestEmpty => RequestEmpty
    BY TurnOperators DEF T!RequestEmpty, RequestEmpty, T!outerVars, outerVars, T!loopVars, loopVars
  <1>7. T!RequestFails => RequestFails
    BY TurnOperators DEF T!RequestFails, RequestFails, T!Write, Write, T!outerVars, outerVars
  <1>8. T!RequestTooLarge => RequestTooLarge
    BY DEF T!RequestTooLarge, RequestTooLarge, T!outerVars, outerVars, T!loopVars, loopVars
  <1>9. T!ToolStart => ToolStart
    BY DEF T!ToolStart, ToolStart, T!StartNext, StartNext, T!outerVars, outerVars, T!loopVars, loopVars
  <1>10. T!ToolReturn => ToolReturn /\ pc' \notin {"idle", "finish"}
    BY TurnOperators DEF T!ToolReturn, ToolReturn, T!Write, Write, T!WriteFails, T!AfterResult,
       AfterResult, T!outerVars, outerVars
  <1>11. T!Unexecuted => Unexecuted /\ (batch # <<>> => pc' \notin {"idle", "finish"})
    BY TurnOperators DEF T!Unexecuted, Unexecuted, T!Write, Write, T!WriteFails, T!outerVars, outerVars
  <1>12. T!Checkpoint => Checkpoint
    BY TurnOperators DEF T!Checkpoint, Checkpoint
  <1>13. T!Finish => Finish
    BY TurnOperators DEF T!Finish, Finish, T!Write, Write
  <1>14. T!Offer => Offer
    BY DEF T!Offer, Offer, T!loopVars, loopVars
  <1>15. T!Cancel => Cancel
    BY DEF T!Cancel, Cancel, T!loopVars, loopVars
  <1>16. ~T!Crash
    BY DEF T!Crash
  <1>17. Next
    BY <1>1, <1>3, <1>4, <1>5, <1>6, <1>7, <1>8, <1>9, <1>10, <1>11, <1>12, <1>13, <1>14, <1>15, <1>16
       DEF T!Next, T!LoopStep, Next, LoopStep
  <1>18. ASSUME batch # <<>>, ~T!ToolReturn, ~T!Unexecuted
         PROVE  pc' \notin {"idle", "finish"}
    <2>1. pc \in {"tools", "running", "unexecuted"}
      BY <1>18 DEF AllAnswered
    <2>2. T!ToolStart \/ T!Offer \/ T!Cancel
      BY <1>16, <1>18, <2>1 DEF T!Next, T!Turn, T!LoopStep, T!ManageContext, T!Recover,
         T!RequestAnswer, T!RequestEmpty, T!RequestFails, T!RequestTooLarge, T!Checkpoint, T!Finish
    <2>3. QED
      BY <1>9, <1>14, <1>15, <2>1, <2>2 DEF ToolStart, StartNext, Offer, Cancel
  <1>19. QED
    BY <1>10, <1>11, <1>17, <1>18 DEF GivesUp

(* The turn of the scene leaves no call open and compacts nothing twice,   *)
(* for every finite set of calls, every answer and every input             *)
(* (react.go, compact.go).                                                 *)
THEOREM TurnsAreWhole ==
  ASSUME MaxTurns > 0
  PROVE  ScenesSpec => []TurnsHold
  <1> DEFINE Turns == scene = "turns" => IInv /\ AllAnswered
  <1>1. ScenesInit => Turns
    <2>1. T!Init => Init /\ AllAnswered
      BY DEF T!Init, Init, AllAnswered, Settled, IssuedBy
    <2>2. QED
      BY <2>1, InitIInv DEF ScenesInit
  <1>2. Turns /\ [ScenesNext]_sceneVars => Turns'
    <2> SUFFICES ASSUME Turns, [ScenesNext]_sceneVars, (scene = "turns")'
                 PROVE  (IInv /\ AllAnswered)'
      OBVIOUS
    <2>1. CASE ScenesNext
      <3>1. scene = "turns" /\ T!Next
        BY <2>1 DEF ScenesNext
      <3>2. Next /\ ~GivesUp
        BY <3>1, TurnSteps
      <3>3. QED
        BY <3>1, <3>2, NextKeepsIInv, NextSettles
    <2>2. CASE UNCHANGED sceneVars
      <3>1. scene = "turns" /\ UNCHANGED vars /\ UNCHANGED <<ledger, pc, batch>>
        BY <2>2 DEF sceneVars, vars, loopVars, outerVars
      <3>2. QED
        BY <3>1, NextKeepsIInv DEF AllAnswered
    <2>3. QED
      BY <2>1, <2>2
  <1>3. Turns => TurnsHold
    <2>1. AllAnswered => CallsAreAnswered
      BY AnsweredAtEnd
    <2>2. IInv => CompactsWhatIsNew
      BY DEF IInv, Apart, CompactsWhatIsNew
    <2>3. QED
      BY <2>1, <2>2 DEF TurnsHold
  <1>4. QED
    BY <1>1, <1>2, <1>3, PTL DEF ScenesSpec
=============================================================================

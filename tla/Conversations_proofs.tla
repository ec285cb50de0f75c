------------------------ MODULE Conversations_proofs ------------------------
(***************************************************************************)
(* Theorems about Conversations, for every set of conversations, children  *)
(* and requests and all bounds: what a deletion has taken does not return, *)
(* what can be listed is whole, and a turn begins only in an open          *)
(* conversation that is there.                                             *)
(***************************************************************************)
EXTENDS Conversations, TLAPS

-----------------------------------------------------------------------------
(* The inductive invariant. *)

FileRecord == [meta : {"none", "open", "archived"}, edited : BOOLEAN, setup : 0..2,
               turns : 0..MaxTurns, runs : [Turns -> Statuses], position : 0..MaxTurns]
Items == [kind : {"task", "position", "directory"}, s : Sessions]
CallRecord == [op : Handlers \cup {"idle"},
               at : {"idle", "lock", "save", "start", "steer", "settings", "ledger", "meta",
                     "records", "reserve", "remove", "forget"},
               s : Sessions \cup {None}, scope : SUBSET Sessions, rest : SUBSET Items,
               dest : Roots \cup {None}, through : 0..MaxTurns, runs : [Turns -> Statuses]]

(* What a request carries, which TypeOK leaves open. *)
CallsOK == call \in [Callers -> CallRecord] /\ replay \in CallRecord

Sending(c) == call[c].op \in {"send", "settings", "compact"} /\ call[c].at \in {"save", "start"}
Copying(c) == call[c].op = "fork" /\ call[c].at \in {"settings", "ledger", "meta", "records"}
Making(c) == \/ call[c].op = "fork" /\ call[c].at \in {"settings", "ledger", "meta"}
             \/ call[c].op = "create" /\ call[c].at \in {"meta", "settings"}
Deleting(c, at) == call[c].op \in {"delete", "deleteAll"} /\ call[c].at = at

(* A process that replays deletions has no requests and no runs. *)
Down ==
  /\ process = "recovering" => /\ call = [c \in Callers |-> NoCall]
                              /\ stage = [s \in Sessions |-> "idle"]
                              /\ relations = {} /\ deleted = {}
  /\ process = "up" => replay = NoCall

(* Requests name sessions that are or were there. *)
Named(c) ==
  /\ call[c].op \notin {"idle", "create"} => call[c].s \in Sessions
  /\ call[c].s # None => call[c].s \in used \cup Kids
  /\ call[c].dest # None => call[c].dest \in used

(* The lock keeps the session of a Send or a fork, and the roots of a      *)
(* deletion, from everybody else.                                          *)
Kept(c, s) == holder[s] = c /\ Visible(s)
Locked(c) ==
  /\ Sending(c) => Kept(c, call[c].s) /\ files[call[c].s].meta = "open"
  /\ Copying(c) => Kept(c, call[c].s)
  /\ Deleting(c, "reserve") => \A s \in call[c].scope : Kept(c, s)

(* An identity that was not drawn has nothing, ... *)
Fresh(r) == files[r] = NoFiles /\ promised[r] = 0 /\ r \notin doomed

(* ... what is being made belongs to the one request that makes it, ...    *)
Apart(c, o) ==
  /\ call[c].dest # None /\ o # c => call[o].dest # call[c].dest
  /\ Making(c) => call[o].s # call[c].dest

(* ... and cannot be listed, or lacks its settings, until it is made.      *)
Unseen(c, d) ==
  /\ d \in Roots /\ d \notin doomed /\ files[d].runs = NoRuns
  /\ IF call[c].op = "create"
     THEN /\ files[d].turns = 0 /\ files[d].setup = 0 /\ promised[d] = 0
          /\ call[c].at = "meta" => files[d].meta = "none"
     ELSE /\ files[d].meta = "none" /\ promised[d] = call[c].through
          /\ call[c].at # "settings" => files[d].setup # 0
          /\ call[c].at = "meta" => files[d].turns = call[c].through
Made(c) ==
  /\ Making(c) => Unseen(c, call[c].dest)
  /\ call[c].op = "fork" /\ call[c].at = "records" =>
       /\ call[c].dest \in Roots
       /\ call[c].dest \notin doomed => files[call[c].dest].turns >= call[c].through

(* A run is of a session that is there, and has room for its turn. *)
AtWork(s) == IF s \in Kids THEN s \in relations ELSE Visible(s)
Running(s) == Active(s) =>
  AtWork(s) /\ (stage[s] = "prepare" => files[s].turns < MaxTurns)

(* Children are hidden by their relation, or there is nothing of them. *)
Hidden(k) ==
  /\ k \in tasks \/ k \in doomed \/ files[k].meta = "none"
  /\ process = "up" => k \in relations \/ k \in deleted \/ files[k].meta = "none"

(* A deletion: what is behind it is gone, what is before it is frozen. *)
Bare(s) == /\ files[s].meta = "none" /\ files[s].edited = FALSE
           /\ files[s].setup = 0 /\ files[s].turns = 0
Progress(family, rest) ==
  /\ rest \subseteq Work(family)
  /\ \A s \in family :
       /\ s \in tasks => Item("task", s) \in rest
       /\ files[s].position # 0 => Item("position", s) \in rest
       /\ ~Bare(s) => Item("directory", s) \in rest
Removing(c) == Deleting(c, "remove") =>
  /\ call[c].scope \subseteq deleted
  /\ Progress(call[c].scope, call[c].rest)
Replaying == replay = NoCall \/ (replay.scope \subseteq doomed /\ Progress(replay.scope, replay.rest))

Doom ==
  /\ \A family \in intents : family \subseteq doomed
  /\ deleted \subseteq doomed /\ relations \cap doomed = {}
  /\ doomed \subseteq used \cup Kids
  /\ process = "up" => \A s \in doomed : s \in deleted \/ ~Intended(s)
Buried(s) == Intended(s) \/ (Bare(s) /\ files[s].position = 0 /\ s \notin tasks)

(* What a view is about to save is of turns the ledger has. *)
Views(c) == call[c].op = "view" /\ call[c].at = "save" =>
  \A t \in Turns : call[c].s \notin doomed /\ call[c].runs[t] # "none" => t <= files[call[c].s].turns

(* A ledger holds what the records speak of, and a conversation that can   *)
(* be listed has what belongs to it.                                       *)
Tidy(s) ==
  /\ \A t \in Turns : files[s].runs[t] # "none" => t <= files[s].turns
  /\ s \in Roots /\ files[s].meta # "none" =>
       /\ files[s].turns > 0 => files[s].setup # 0
       /\ files[s].turns >= promised[s]

Own(c) == Named(c) /\ Locked(c) /\ Made(c) /\ Removing(c) /\ Views(c)
Files ==
  /\ \A r \in Roots \ used : Fresh(r)
  /\ \A s \in Sessions : Running(s)
  /\ \A x \in Kids : Hidden(x)
  /\ \A s \in doomed : Buried(s)
  /\ \A s \in Sessions \ doomed : Tidy(s)

IInv ==
  /\ TypeOK /\ CallsOK /\ Down /\ Doom /\ Replaying /\ Files
  /\ \A c \in Callers : Own(c)
  /\ \A c \in Callers, o \in Callers : Apart(c, o)

-----------------------------------------------------------------------------
(* What the step of one request, or of a run, may do to all the others     *)
(* (requests rely on it of each other): the step is of request c, or of a  *)
(* run when c is None.                                                     *)

Mine(c, s) == c \in Callers /\ Making(c) /\ s = call[c].dest

(* What is there grows; what is deleted shrinks; runs.json alone may be    *)
(* written at any time.                                                    *)
Grows(s) ==
  /\ AtWork(s) \/ Visible(s)
  /\ files'[s].meta = "none" <=> files[s].meta = "none"
  /\ files'[s].meta # files[s].meta => holder[s] = None
  /\ files[s].setup # 0 => files'[s].setup # 0
  /\ files'[s].turns >= files[s].turns
  /\ files'[s].turns = files[s].turns \/ stage'[s] # "prepare"
Shrinks(s) ==
  /\ s \in deleted
  /\ Bare(s) => Bare(s)'
  /\ files[s].position = 0 => files'[s].position = 0
  /\ files'[s].meta \in {files[s].meta, "none"}
Records(s) == files'[s] = [files[s] EXCEPT !.runs = files'[s].runs]

FilesStep(c) == \A s \in Sessions :
  \/ files'[s] = files[s]
  \/ Grows(s) /\ (s \notin doomed /\ Tidy(s) => Tidy(s)')
  \/ Mine(c, s) /\ Tidy(s)'
  \/ Shrinks(s)
  \/ /\ Records(s) /\ c \in Callers /\ (s = call[c].s \/ s = call[c].dest)
     /\ s \notin doomed /\ Tidy(s) => Tidy(s)'

FrozenBy(c, s) == /\ s \in deleted' /\ s \in doomed' /\ s \notin relations' /\ ~Active(s)
                  /\ s \in relations \/ (c \in Callers /\ Kept(c, s))
MemoryStep(c) ==
  /\ relations' \subseteq relations /\ deleted \subseteq deleted' /\ doomed \subseteq doomed'
  /\ used \subseteq used'
  /\ \A s \in Sessions :
       /\ s \in deleted' \ deleted \/ s \in doomed' \ doomed \/ s \in relations \ relations'
            => FrozenBy(c, s)
       /\ holder'[s] = holder[s] \/ holder[s] = None \/ holder[s] = c
       /\ promised'[s] = promised[s] \/ s \in used' \ used
  /\ tasks' \subseteq tasks /\ tasks \ tasks' \subseteq deleted

IntentsStep(c) ==
  /\ \A family \in intents' \ intents : family \subseteq deleted' /\ family \subseteq doomed'
  /\ \A family \in intents \ intents' :
       c \in Callers /\ Deleting(c, "remove") /\ family = call[c].scope /\ call[c].rest = {}
  /\ \A s \in doomed' \ doomed : Intended(s)'

StageStep == \A s \in Sessions :
  \/ stage'[s] = stage[s] \/ stage'[s] \in {"idle", "ended"}
  \/ Active(s) /\ stage'[s] = "on"
  \/ AtWork(s) /\ stage'[s] = "prepare" /\ files' = files /\ files[s].turns < MaxTurns
     /\ deleted' = deleted /\ relations' = relations

(* Where a request may turn to: what it can find, or a new identity.       *)
AimsStep(c) == c \in Callers =>
  /\ call'[c].dest \in {call[c].dest, None} \/ call'[c].dest \in Roots \ used
  /\ \/ call'[c].s \in {call[c].s, None}
     \/ call'[c].s \in Sessions /\ (Visible(call'[c].s) \/ call'[c].s \in relations)
  /\ Making(c)' => \/ Making(c) /\ call'[c].dest = call[c].dest
                   \/ call'[c].dest \in Roots \ used

Step(c) ==
  /\ process = "up" /\ process' = "up" /\ replay' = replay
  /\ \A o \in Callers \ {c} : call'[o] = call[o]
  /\ FilesStep(c) /\ MemoryStep(c) /\ IntentsStep(c) /\ StageStep /\ AimsStep(c)

(* A conversation in the making cannot be found, nor can what is deleted,  *)
(* nor a child.                                                            *)
LEMMA NotFound ==
  ASSUME IInv, process = "up"
  PROVE  /\ \A s \in doomed \cup Kids : ~Visible(s)
         /\ \A s \in doomed : ~AtWork(s)
         /\ \A c \in Callers : Making(c) =>
              ~Visible(call[c].dest) /\ ~AtWork(call[c].dest)
              /\ call[c].dest \in Roots /\ call[c].dest \notin doomed
  <1> USE DEF IInv
  <1>1. \A s \in doomed : ~Visible(s)
    BY DEF Doom, Buried, Bare, Visible, Files, TypeOK
  <1>2. \A s \in Kids : ~Visible(s)
    BY DEF Files, Hidden, Visible
  <1>3. \A s \in doomed : ~AtWork(s)
    BY <1>1 DEF AtWork, Doom
  <1>4. ASSUME NEW c \in Callers, Making(c)
        PROVE  /\ ~Visible(call[c].dest) /\ ~AtWork(call[c].dest)
               /\ call[c].dest \in Roots /\ call[c].dest \notin doomed
    <2>1. Unseen(c, call[c].dest)
      BY <1>4 DEF Own, Made
    <2>2. /\ call[c].dest \in Roots /\ call[c].dest \notin doomed
          /\ files[call[c].dest].meta = "none" \/ files[call[c].dest].setup = 0
      BY <2>1, <1>4 DEF Unseen, Making
    <2>3. call[c].dest \notin Kids
      BY <2>2, ConversationsAssumption
    <2> QED
      BY <2>2, <2>3 DEF Visible, AtWork
  <1> QED
    BY <1>1, <1>2, <1>3, <1>4

(* What is deleted only shrinks, its records apart. *)
LEMMA ShrinksOnly ==
  ASSUME IInv, NEW c \in Callers \cup {None}, Step(c), NEW s \in doomed
  PROVE  /\ files[s].position = 0 => files'[s].position = 0
         /\ Bare(s) => Bare(s)'
         /\ files'[s].meta \in {files[s].meta, "none"}
  <1>1. /\ s \in Sessions /\ ~AtWork(s) /\ ~Visible(s) /\ ~Mine(c, s) /\ files[s] \in FileRecord
    BY NotFound DEF IInv, TypeOK, FileRecord, Step, Mine
  <1>2. files'[s] = files[s] \/ Shrinks(s) \/ Records(s)
    BY <1>1 DEF Step, FilesStep, Grows
  <1>3. CASE Records(s)
    BY <1>1, <1>3 DEF Records, Bare, FileRecord
  <1> QED
    BY <1>2, <1>3 DEF Shrinks, Bare

(* What can be found, or is at work, is taken away only by a deletion that *)
(* holds its lock, or that finds it idle.                                  *)
LEMMA FoundStays ==
  ASSUME IInv, NEW c \in Callers \cup {None}, Step(c), NEW s \in Sessions,
         s \in deleted' => ~FrozenBy(c, s)
  PROVE  /\ Visible(s) => Visible(s)'
         /\ AtWork(s) => AtWork(s)'
         /\ Visible(s) /\ files'[s].meta # files[s].meta => holder[s] = None
  <1>1. Visible(s) => s \notin deleted' /\ s \notin relations'
    BY DEF Step, MemoryStep, Visible
  <1>2. s \in relations => s \in relations'
    BY DEF Step, MemoryStep, FrozenBy
  <1>3. Visible(s) => s \notin deleted /\ ~Mine(c, s) /\ s \notin doomed
    BY NotFound DEF Step, Mine, Visible
  <1>4. ASSUME Visible(s)
        PROVE  /\ files'[s].meta # "none" /\ files'[s].setup # 0
               /\ files'[s].meta # files[s].meta => holder[s] = None
    <2>1. \/ files'[s] = files[s] \/ Grows(s) \/ Records(s)
      BY <1>3, <1>4 DEF Step, FilesStep, Shrinks
    <2>2. files[s] \in FileRecord
      BY DEF IInv, TypeOK, FileRecord
    <2>3. Records(s) => files'[s].meta = files[s].meta /\ files'[s].setup = files[s].setup
      BY <2>2 DEF Records, FileRecord
    <2> QED
      BY <2>1, <2>3, <1>4 DEF Grows, Visible
  <1> QED
    BY <1>1, <1>2, <1>4 DEF Visible, AtWork

(* The requests that did not move keep what they rely on. *)
LEMMA OthersKeepTheirOwn ==
  ASSUME IInv, TypeOK', NEW c \in Callers \cup {None}, Step(c), NEW o \in Callers \ {c}
  PROVE  Own(o)'
  <1> USE DEF IInv
  <1>1. /\ call'[o] = call[o] /\ process = "up" /\ Own(o) /\ o # None
        /\ call[o] \in CallRecord /\ deleted \subseteq doomed
    BY ConversationsAssumption DEF Step, CallsOK, Doom
  <1>2. ASSUME NEW s \in Sessions
        PROVE  /\ files[s].turns \in Nat /\ files'[s].turns \in Nat
               /\ Records(s) => files'[s].turns = files[s].turns
    <2>1. files[s] \in FileRecord /\ files'[s] \in FileRecord
      BY DEF TypeOK, FileRecord
    <2> QED
      BY <2>1, ConversationsAssumption DEF Records, FileRecord
  <1>3. Named(o)'
    BY <1>1 DEF Own, Named, Step, MemoryStep
  <1>4. Locked(o)'
    <2>1. ASSUME NEW s \in Sessions, Kept(o, s)
          PROVE  Kept(o, s)' /\ files'[s].meta = files[s].meta
      <3>1. holder'[s] = o /\ ~FrozenBy(c, s) /\ holder[s] # None
        <4>1. holder[s] = o /\ holder[s] # c /\ holder[s] # None /\ s \notin relations
          BY <2>1, <1>1 DEF Kept, Visible
        <4> QED
          BY <4>1 DEF Step, MemoryStep, FrozenBy, Kept
      <3>2. Visible(s)' /\ files'[s].meta = files[s].meta
        BY FoundStays, <3>1, <2>1 DEF Kept
      <3> QED
        BY <3>1, <3>2 DEF Kept
    <2>2. Sending(o) \/ Copying(o) => call[o].s \in Sessions
      BY <1>1 DEF Own, Named, Sending, Copying
    <2>3. call[o].scope \subseteq Sessions
      BY <1>1 DEF CallRecord
    <2>4. /\ Sending(o)' = Sending(o) /\ Copying(o)' = Copying(o)
          /\ Deleting(o, "reserve")' = Deleting(o, "reserve")
      BY <1>1 DEF Sending, Copying, Deleting
    <2>5. Sending(o)' => Kept(o, call[o].s)' /\ files'[call[o].s].meta = "open"
      BY <2>1, <2>2, <2>4, <1>1 DEF Own, Locked
    <2>6. Copying(o)' => Kept(o, call[o].s)'
      BY <2>1, <2>2, <2>4, <1>1 DEF Own, Locked
    <2>7. Deleting(o, "reserve")' => \A s \in call[o].scope : Kept(o, s)'
      BY <2>1, <2>3, <2>4, <1>1 DEF Own, Locked
    <2> QED
      BY <2>5, <2>6, <2>7, <1>1 DEF Locked, Kept, Visible
  <1>5. Made(o)'
    <2> DEFINE d == call[o].dest
    <2>1. /\ Making(o)' = Making(o) /\ call'[o].dest = d
      BY <1>1 DEF Making
    <2>2. d # None => ~Mine(c, d)
      BY DEF Apart, Mine
    <2>3. d # None => d \in used
      BY <1>1 DEF Own, Named
    <2>4. ASSUME Making(o)
          PROVE  Unseen(o, d)'
      <3>1. /\ Unseen(o, d) /\ d \in Roots /\ ~Visible(d) /\ ~AtWork(d) /\ d \in Sessions /\ d # None
            /\ d \notin doomed /\ d \notin relations /\ d \notin deleted
        BY <2>4, <1>1, NotFound, ConversationsAssumption DEF Own, Made, Sessions, Doom, TypeOK
      <3>2. c \in Callers => call[c].s # d /\ call[c].dest # d
        BY <2>4, <3>1 DEF Apart
      <3>3. files'[d] = files[d]
        BY <3>1, <3>2 DEF Step, FilesStep, Grows, Mine, Shrinks
      <3>4. promised'[d] = promised[d] /\ d \notin doomed'
        BY <3>1, <2>3 DEF Step, MemoryStep, FrozenBy, Kept
      <3> QED
        BY <3>1, <3>3, <3>4, <1>1 DEF Unseen
    <2>5. ASSUME call[o].op = "fork", call[o].at = "records", d \notin doomed'
          PROVE  d \in Roots /\ files'[d].turns >= call[o].through
      <3>1. /\ d \in Roots /\ d # None /\ d \in Sessions /\ d \notin doomed /\ d \notin deleted
            /\ files[d].turns >= call[o].through
        BY <2>5, <1>1, ConversationsAssumption DEF Own, Made, Sessions, Doom, Step, MemoryStep
      <3>2. files'[d] = files[d] \/ Grows(d) \/ Records(d)
        BY <3>1, <2>2 DEF Step, FilesStep, Shrinks
      <3>3. files'[d].turns >= files[d].turns
        BY <3>1, <3>2, <1>2 DEF Grows
      <3>4. call[o].through \in Nat
        BY <1>1, ConversationsAssumption DEF CallRecord
      <3> QED
        BY <3>1, <3>3, <3>4, <1>2
    <2>6. call[o].op = "fork" /\ call[o].at = "records" => d \in Roots
      BY <1>1 DEF Own, Made
    <2>7. Making(o)' => Unseen(o, call[o].dest)'
      BY <2>1, <2>4
    <2> QED
      BY <2>1, <2>5, <2>6, <2>7, <1>1 DEF Made
  <1>6. Removing(o)'
    <2>1. SUFFICES ASSUME Deleting(o, "remove")
                   PROVE  /\ call[o].scope \subseteq deleted'
                          /\ Progress(call[o].scope, call[o].rest)'
      BY <1>1 DEF Removing, Deleting, Progress
    <2>2. /\ call[o].scope \subseteq deleted /\ Progress(call[o].scope, call[o].rest)
          /\ call[o].scope \subseteq Sessions
      BY <2>1, <1>1 DEF Own, Removing, CallRecord
    <2>3. call[o].scope \subseteq deleted' /\ tasks' \subseteq tasks
      BY <2>2 DEF Step, MemoryStep
    <2>4. ASSUME NEW s \in call[o].scope
          PROVE  /\ files[s].position = 0 => files'[s].position = 0
                 /\ Bare(s) => Bare(s)'
      BY <2>2, <1>1, ShrinksOnly
    <2>5. /\ call[o].rest \subseteq Work(call[o].scope)
          /\ \A s \in call[o].scope :
               /\ s \in tasks' => Item("task", s) \in call[o].rest
               /\ files'[s].position # 0 => Item("position", s) \in call[o].rest
               /\ ~Bare(s)' => Item("directory", s) \in call[o].rest
      BY <2>2, <2>3, <2>4 DEF Progress
    <2>6. call'[o].scope = call[o].scope /\ call'[o].rest = call[o].rest
      BY <1>1
    <2> QED
      BY <2>3, <2>5, <2>6 DEF Progress, Bare
  <1>7. Views(o)'
    <2>1. SUFFICES ASSUME call[o].op = "view", call[o].at = "save", NEW t \in Turns,
                          call[o].s \notin doomed', call[o].runs[t] # "none"
                   PROVE  t <= files'[call[o].s].turns
      BY <1>1 DEF Views
    <2> DEFINE s == call[o].s
    <2>2. s \in Sessions /\ s \notin doomed /\ s \notin deleted /\ t <= files[s].turns /\ t \in Nat
      BY <2>1, <1>1 DEF Own, Views, Named, Step, MemoryStep, Turns
    <2>3. ~Mine(c, s)
      BY DEF Apart, Mine
    <2>4. files'[s] = files[s] \/ Grows(s) \/ Records(s)
      BY <2>2, <2>3 DEF Step, FilesStep, Shrinks
    <2>5. files'[s].turns >= files[s].turns
      BY <2>2, <2>4, <1>2 DEF Grows
    <2> QED
      BY <2>2, <2>5, <1>2
  <1> QED
    BY <1>3, <1>4, <1>5, <1>6, <1>7 DEF Own

(* What can be found was drawn. *)
LEMMA FoundIsUsed ==
  ASSUME IInv, NEW s \in Sessions, Visible(s)
  PROVE  s \in used \cup Kids
  BY DEF IInv, Files, Fresh, Visible, NoFiles, Sessions

LEMMA StaysApart ==
  ASSUME IInv, NEW c \in Callers \cup {None}, Step(c), NEW o \in Callers, NEW p \in Callers
  PROVE  Apart(o, p)'
  <1> USE DEF IInv
  <1>1. \A q \in Callers : q # c => call'[q] = call[q]
    BY DEF Step
  <1>2. \A q \in Callers : q # c => Making(q)' = Making(q)
    BY <1>1 DEF Making
  <1>3. \A q \in Callers : /\ call[q].dest # None => call[q].dest \in used
                           /\ call[q].s # None => call[q].s \in used \cup Kids
                           /\ Making(q) => call[q].dest \in Roots /\ ~Visible(call[q].dest)
    BY NotFound DEF Own, Named, Step
  <1>4. Roots \cap Kids = {} /\ None \notin Roots /\ relations \subseteq Kids /\ used \subseteq Roots
    BY ConversationsAssumption DEF Sessions, TypeOK
  <1>5. \A s \in Sessions : Visible(s) => s \in used \cup Kids
    BY FoundIsUsed
  <1>6. c \in Callers => AimsStep(c)
    BY DEF Step
  <1>7. CASE o # c /\ p # c
    BY <1>1, <1>2, <1>7 DEF Apart
  <1>8. CASE o = c /\ p # c
    <2>1. call'[p] = call[p] /\ Apart(c, p)
      BY <1>1, <1>8
    <2>2. call'[c].dest # None => call[p].dest # call'[c].dest
      BY <1>3, <1>6, <1>8, <2>1 DEF AimsStep, Apart
    <2>3. Making(c)' => call[p].s # call'[c].dest
      BY <1>3, <1>4, <1>6, <1>8, <2>1 DEF AimsStep, Apart
    <2> QED
      BY <2>1, <2>2, <2>3, <1>8 DEF Apart
  <1>9. CASE o # c /\ p = c
    <2>1. call'[o] = call[o] /\ Apart(o, c) /\ Making(o)' = Making(o)
      BY <1>1, <1>2, <1>9
    <2>2. call[o].dest # None => call'[c].dest # call[o].dest
      BY <1>3, <1>6, <1>9, <2>1 DEF AimsStep, Apart
    <2>3. Making(o) => call'[c].s # call[o].dest
      BY <1>3, <1>4, <1>6, <1>9, <2>1 DEF AimsStep, Apart
    <2> QED
      BY <2>1, <2>2, <2>3, <1>9 DEF Apart
  <1>10. CASE o = c /\ p = c
    <2>1. Apart(c, c)
      BY <1>10
    <2>2. Making(c)' => call'[c].s # call'[c].dest
      BY <1>3, <1>4, <1>5, <1>6, <1>10, <2>1 DEF AimsStep, Apart
    <2> QED
      BY <2>2, <1>10 DEF Apart
  <1> QED
    BY <1>7, <1>8, <1>9, <1>10

LEMMA DoomGoesOn ==
  ASSUME IInv, TypeOK', NEW c \in Callers \cup {None}, Step(c)
  PROVE  Doom' /\ Replaying' /\ Down'
  <1> USE DEF IInv
  <1>1. /\ \A s \in Sessions : s \in doomed' \ doomed \/ s \in deleted' \ deleted
             \/ s \in relations \ relations' => FrozenBy(c, s)
        /\ relations' \subseteq relations /\ deleted \subseteq deleted' /\ doomed \subseteq doomed'
        /\ used \subseteq used'
    BY DEF Step, MemoryStep
  <1>2. /\ \A family \in intents' \ intents : family \subseteq deleted' /\ family \subseteq doomed'
    BY DEF Step, IntentsStep
  <1>3. /\ doomed' \subseteq Sessions /\ deleted' \subseteq Sessions /\ relations \subseteq Kids
        /\ Kids \subseteq Sessions
    BY DEF TypeOK, Sessions
  <1>4. \A family \in intents' : family \subseteq doomed'
    BY <1>1, <1>2 DEF Doom
  <1>5. deleted' \subseteq doomed'
    BY <1>1, <1>3 DEF Doom, FrozenBy
  <1>6. relations' \cap doomed' = {}
    BY <1>1, <1>3 DEF Doom, FrozenBy
  <1>7. doomed' \subseteq used' \cup Kids
    BY <1>1, <1>3, FoundIsUsed DEF Doom, FrozenBy, Kept
  <1>8. ASSUME NEW s \in doomed'
        PROVE  s \in deleted' \/ ~Intended(s)'
    <2>1. CASE s \notin doomed
      BY <1>1, <1>3, <2>1 DEF FrozenBy
    <2>2. CASE s \in doomed
      BY <1>1, <1>2, <2>2 DEF Doom, Intended, Step
    <2> QED
      BY <2>1, <2>2
  <1>9. Doom'
    BY <1>4, <1>5, <1>6, <1>7, <1>8 DEF Doom
  <1>10. replay' = NoCall /\ process' = "up"
    BY DEF Step, Down
  <1> QED
    BY <1>9, <1>10 DEF Replaying, Down

LEMMA FilesGoOn ==
  ASSUME IInv, TypeOK', NEW c \in Callers \cup {None}, Step(c)
  PROVE  Files'
  <1> USE DEF IInv
  <1>1. /\ \A s \in Sessions : s \in doomed' \ doomed \/ s \in deleted' \ deleted
             \/ s \in relations \ relations' => FrozenBy(c, s)
        /\ relations' \subseteq relations /\ deleted \subseteq deleted' /\ doomed \subseteq doomed'
        /\ used \subseteq used' /\ tasks' \subseteq tasks /\ tasks \ tasks' \subseteq deleted
        /\ \A s \in Sessions : promised'[s] = promised[s] \/ s \in used' \ used
    BY DEF Step, MemoryStep
  <1>2. ASSUME NEW s \in Sessions
        PROVE  \/ files'[s] = files[s]
               \/ Grows(s) /\ (s \notin doomed /\ Tidy(s) => Tidy(s)')
               \/ Mine(c, s) /\ Tidy(s)'
               \/ Shrinks(s)
               \/ /\ Records(s) /\ c \in Callers /\ (s = call[c].s \/ s = call[c].dest)
                  /\ s \notin doomed /\ Tidy(s) => Tidy(s)'
    BY DEF Step, FilesStep
  <1>3. /\ doomed' \subseteq Sessions /\ doomed \subseteq Sessions /\ relations \subseteq Kids
        /\ Kids \subseteq Sessions /\ Roots \subseteq Sessions /\ Roots \cap Kids = {}
        /\ deleted \subseteq doomed /\ relations \cap doomed = {}
        /\ None \notin Sessions /\ process = "up" /\ process' = "up"
    BY ConversationsAssumption DEF TypeOK, Sessions, Doom, Step
  <1>4. \A s \in Sessions : Mine(c, s) => s \in Roots /\ s \in used /\ s \notin doomed /\ ~AtWork(s)
    BY NotFound, <1>3 DEF Mine, Own, Named
  <1>5. \A s \in Sessions : files[s] \in FileRecord /\ files'[s] \in FileRecord
    BY DEF TypeOK, FileRecord
  <1>6. ASSUME NEW r \in Roots \ used'
        PROVE  Fresh(r)'
    <2>1. Fresh(r) /\ r \in Sessions /\ ~Visible(r) /\ ~AtWork(r) /\ r \notin used
      <3>1. r \in Sessions /\ r \notin used /\ r \notin Kids
        BY <1>1, <1>3
      <3>2. Fresh(r)
        BY <3>1 DEF Files
      <3>3. ~Visible(r)
        BY <3>2 DEF Fresh, Visible, NoFiles
      <3> QED
        BY <3>1, <3>2, <3>3 DEF AtWork
    <2>2. c \in Callers => r # call[c].s /\ r # call[c].dest
      BY <2>1, <1>3 DEF Own, Named
    <2>3. files'[r] = files[r]
      BY <1>2, <1>3, <1>4, <2>1, <2>2 DEF Grows, Shrinks, Fresh
    <2>4. r \notin doomed' /\ promised'[r] = promised[r]
      BY <1>1, <1>3, <2>1 DEF FrozenBy, Kept, Fresh
    <2> QED
      BY <2>1, <2>3, <2>4 DEF Fresh
  <1>7. ASSUME NEW s \in Sessions
        PROVE  Running(s)'
    <2>1. SUFFICES ASSUME Active(s)'
                   PROVE  AtWork(s)' /\ (stage'[s] = "prepare" => files'[s].turns < MaxTurns)
      BY DEF Running
    <2>2. stage'[s] \in {"prepare", "on"}
      BY <2>1 DEF Active
    <2>3. CASE Active(s)
      <3>1. AtWork(s) /\ (stage[s] = "prepare" => files[s].turns < MaxTurns)
        BY <2>3 DEF Files, Running
      <3>2. AtWork(s)'
        BY FoundStays, <2>3, <3>1 DEF FrozenBy
      <3>3. s \notin deleted /\ ~Mine(c, s)
        BY <1>3, <1>4, <3>1, NotFound
      <3>4. ASSUME stage'[s] = "prepare"
            PROVE  files'[s].turns < MaxTurns
        <4>1. stage[s] = "prepare" \/ (files' = files /\ files[s].turns < MaxTurns)
          BY <3>4 DEF Step, StageStep
        <4>2. files'[s] = files[s] \/ Grows(s) \/ Records(s)
          BY <1>2, <3>3 DEF Shrinks
        <4>3. Records(s) => files'[s].turns = files[s].turns
          BY <1>5 DEF Records, FileRecord
        <4>4. files'[s].turns = files[s].turns
          BY <4>2, <4>3, <3>4 DEF Grows
        <4> QED
          BY <3>1, <4>1, <4>4
      <3> QED
        BY <3>2, <3>4
    <2>4. CASE ~Active(s)
      <3>1. /\ AtWork(s) /\ files' = files /\ files[s].turns < MaxTurns
            /\ deleted' = deleted /\ relations' = relations
        BY <2>2, <2>4 DEF Step, StageStep, Active
      <3> QED
        BY <3>1 DEF AtWork, Visible
    <2> QED
      BY <2>3, <2>4
  <1>8. ASSUME NEW x \in Kids
        PROVE  Hidden(x)'
    <2>1. Hidden(x) /\ x \in Sessions
      BY <1>3 DEF Files
    <2>2. files[x].meta = "none" => files'[x].meta = "none"
      <3>1. ~Mine(c, x)
        BY <1>3, <1>4, <2>1
      <3>2. files'[x] = files[x] \/ Grows(x) \/ Shrinks(x) \/ Records(x)
        BY <1>2, <2>1, <3>1
      <3>3. Records(x) => files'[x].meta = files[x].meta
        BY <1>5, <2>1 DEF Records, FileRecord
      <3> QED
        BY <3>2, <3>3 DEF Grows, Shrinks
    <2> QED
      BY <1>1, <1>3, <2>1, <2>2 DEF Hidden, FrozenBy
  <1>9. ASSUME NEW s \in doomed'
        PROVE  Buried(s)'
    <2>1. CASE s \notin doomed
      BY <2>1 DEF Step, IntentsStep, Buried
    <2>2. CASE s \in doomed /\ Bare(s) /\ files[s].position = 0 /\ s \notin tasks
      BY <1>1, <2>2, ShrinksOnly DEF Buried
    <2>3. CASE s \in doomed /\ Intended(s)
      <3>1. PICK family \in intents : s \in family
        BY <2>3 DEF Intended
      <3>2. CASE family \in intents'
        BY <3>1, <3>2 DEF Buried, Intended
      <3>3. CASE family \notin intents'
        <4>1. /\ c \in Callers /\ Deleting(c, "remove") /\ family = call[c].scope
              /\ call[c].rest = {}
          BY <3>3 DEF Step, IntentsStep
        <4>2. Bare(s) /\ files[s].position = 0 /\ s \notin tasks
          BY <3>1, <4>1 DEF Own, Removing, Progress
        <4> QED
          BY <1>1, <2>3, <4>2, ShrinksOnly DEF Buried
      <3> QED
        BY <3>2, <3>3
    <2> QED
      BY <2>1, <2>2, <2>3 DEF Files, Buried
  <1>10. ASSUME NEW s \in Sessions \ doomed'
         PROVE  Tidy(s)'
    <2>1. Tidy(s) /\ s \in Sessions /\ s \notin doomed
      BY <1>1, <1>3 DEF Files
    <2>2. CASE files'[s] = files[s]
      <3>1. CASE promised'[s] = promised[s]
        BY <2>1, <2>2, <3>1 DEF Tidy
      <3>2. CASE s \in used' \ used
        BY <2>1, <2>2, <3>2 DEF Tidy, Files, Fresh, NoFiles
      <3> QED
        BY <1>1, <2>1, <3>1, <3>2
    <2> QED
      BY <1>2, <1>3, <2>1, <2>2 DEF Shrinks
  <1> QED
    BY <1>6, <1>7, <1>8, <1>9, <1>10 DEF Files

(* So a step keeps the invariant when it keeps to Step, and what is the    *)
(* business of its own request.                                            *)
LEMMA StepKeepsIInv ==
  ASSUME IInv, TypeOK', CallsOK', NEW c \in Callers \cup {None}, Step(c),
         c \in Callers => Own(c)'
  PROVE  IInv'
  <1>1. \A o \in Callers : Own(o)'
    BY OthersKeepTheirOwn
  <1>2. \A o \in Callers, p \in Callers : Apart(o, p)'
    BY StaysApart
  <1>3. Doom' /\ Replaying' /\ Down'
    BY DoomGoesOn
  <1>4. Files'
    BY FilesGoOn
  <1> QED
    BY <1>1, <1>2, <1>3, <1>4 DEF IInv

-----------------------------------------------------------------------------
(* The steps, one after the other. *)

USE DEF diskVars, memoryVars, lockVars, processVars, historyVars, Return, GoOn, Release, Acquire, Doing

LEMMA NoCallIsCall == NoCall \in CallRecord
  BY ConversationsAssumption DEF NoCall, CallRecord, NoRuns, Statuses, Turns

LEMMA Types ==
  ASSUME IInv
  PROVE  /\ files \in [Sessions -> FileRecord] /\ call \in [Callers -> CallRecord]
         /\ replay \in CallRecord /\ holder \in [Sessions -> Callers \cup {None}]
         /\ stage \in [Sessions -> {"idle", "prepare", "on", "ended"}]
         /\ promised \in [Sessions -> 0..MaxTurns] /\ used \subseteq Roots /\ doomed \subseteq Sessions
         /\ Roots \subseteq Sessions /\ Kids \subseteq Sessions /\ Roots \cap Kids = {}
         /\ None \notin Sessions /\ None \notin Callers /\ MaxTurns \in Nat /\ Turns \subseteq Nat
         /\ deleted \subseteq Sessions /\ relations \subseteq Kids
  BY ConversationsAssumption DEF IInv, TypeOK, CallsOK, FileRecord, Sessions, Turns

(* A request that is answered has nothing of its own left. *)
LEMMA AnsweredOwnsNothing ==
  ASSUME NEW c \in Callers, call'[c] = NoCall
  PROVE  Own(c)' /\ AimsStep(c)
  BY DEF NoCall, Own, Named, Locked, Made, Removing, Views, AimsStep,
         Making, Sending, Copying, Deleting

(* Most steps leave intents, tasks and what is known of a deletion alone. *)
LEMMA StepOfFiles ==
  ASSUME IInv, NEW c \in Callers \cup {None}, process = "up",
         UNCHANGED <<tasks, intents, relations, deleted, processVars, doomed>>,
         \A o \in Callers \ {c} : call'[o] = call[o],
         \A s \in Sessions : holder'[s] = holder[s] \/ holder[s] = None \/ holder[s] = c,
         used \subseteq used',
         \A s \in Sessions : promised'[s] = promised[s] \/ s \in used' \ used,
         FilesStep(c), StageStep, AimsStep(c)
  PROVE  Step(c)
  BY DEF Step, MemoryStep, IntentsStep

LEMMA StepOfCall ==
  ASSUME IInv, NEW c \in Callers \cup {None}, process = "up",
         UNCHANGED <<diskVars, relations, deleted, stage, processVars, historyVars>>,
         \A o \in Callers \ {c} : call'[o] = call[o],
         \A s \in Sessions : holder'[s] = holder[s] \/ holder[s] = None \/ holder[s] = c,
         AimsStep(c)
  PROVE  Step(c)
  BY StepOfFiles DEF FilesStep, StageStep

LEMMA RequestKeeps ==
  ASSUME IInv, NEW c \in Callers, Request(c)
  PROVE  IInv'
  <1> USE Types, NoCallIsCall DEF Request
  <1>1. PICK s \in Sessions, op \in Handlers :
          /\ (op = "view" /\ s \in relations) \/ op = "create" \/ Visible(s)
          /\ call' = [call EXCEPT ![c] = [NoCall EXCEPT !.op = op, !.at = "lock",
                                             !.s = IF op = "create" THEN None ELSE s]]
    OBVIOUS
  <1>2. /\ call'[c].op = op /\ call'[c].at = "lock" /\ call'[c].dest = None
        /\ call'[c].s = (IF op = "create" THEN None ELSE s)
        /\ call'[c] \in CallRecord
    <2>1. call'[c] = [NoCall EXCEPT !.op = op, !.at = "lock",
                                    !.s = IF op = "create" THEN None ELSE s]
      BY <1>1
    <2>2. call'[c] \in CallRecord
      BY <2>1 DEF CallRecord
    <2> QED
      BY <2>1, <2>2 DEF NoCall
  <1>3. CallsOK' /\ TypeOK'
    <2>1. call' \in [Callers -> CallRecord]
      BY <1>1, <1>2
    <2>2. \A x \in Callers : call'[x].op \in Handlers \cup {"idle"}
      BY <2>1 DEF CallRecord
    <2>3. calls' \in 0..MaxCalls
      BY ConversationsAssumption DEF IInv, TypeOK
    <2> QED
      BY <2>1, <2>2, <2>3 DEF CallsOK, TypeOK, IInv
  <1>4. AimsStep(c)
    BY <1>1, <1>2 DEF AimsStep, Making, Handlers
  <1>5. Step(c)
    BY <1>1, <1>4, StepOfCall
  <1>6. Own(c)'
    <2>1. Named(c)'
      BY <1>1, <1>2, FoundIsUsed DEF Named
    <2> QED
      BY <1>2, <2>1 DEF Own, Locked, Made, Removing, Views, Making, Sending, Copying, Deleting
  <1> QED
    BY <1>3, <1>5, <1>6, StepKeepsIInv

(* A step of a request gives its variables their types. *)
LEMMA CallTyped ==
  ASSUME IInv, NEW c \in Callers, NEW r \in CallRecord, call' = [call EXCEPT ![c] = r],
         replay' = replay
  PROVE  /\ CallsOK' /\ call'[c] = r
         /\ \A o \in Callers : call'[o].op \in Handlers \cup {"idle"}
         /\ \A o \in Callers \ {c} : call'[o] = call[o]
  <1>1. call' \in [Callers -> CallRecord]
    BY Types
  <1> QED
    BY <1>1, Types DEF CallsOK, CallRecord

LEMMA RefusedKeeps ==
  ASSUME IInv, NEW c \in Callers, Refused(c)
  PROVE  IInv'
  <1> USE Types, NoCallIsCall DEF Refused
  <1>1. CallsOK' /\ TypeOK' /\ call'[c] = NoCall
    BY CallTyped DEF TypeOK, IInv
  <1>2. Step(c)
    BY <1>1, CallTyped, StepOfCall, AnsweredOwnsNothing
  <1> QED
    BY <1>1, <1>2, AnsweredOwnsNothing, StepKeepsIInv

(* A step that writes the files of one session, or fails to. *)
LEMMA OneFile ==
  ASSUME IInv, NEW c \in Callers \cup {None}, NEW s \in Sessions, NEW f \in FileRecord,
         files' = files \/ files' = [files EXCEPT ![s] = f],
         files'[s] = f => \/ Grows(s) /\ (s \notin doomed /\ Tidy(s) => Tidy(s)')
                          \/ Mine(c, s) /\ Tidy(s)'
                          \/ Shrinks(s)
                          \/ /\ Records(s) /\ c \in Callers /\ (s = call[c].s \/ s = call[c].dest)
                             /\ s \notin doomed /\ Tidy(s) => Tidy(s)'
  PROVE  /\ FilesStep(c) /\ files' \in [Sessions -> FileRecord]
         /\ \A x \in Sessions \ {s} : files'[x] = files[x]
         /\ files'[s] \in {files[s], f}
  <1>1. /\ files' \in [Sessions -> FileRecord] /\ \A x \in Sessions \ {s} : files'[x] = files[x]
        /\ files'[s] \in {files[s], f}
    BY Types
  <1> QED
    BY <1>1 DEF FilesStep

LEMMA FileFields ==
  ASSUME NEW f \in FileRecord
  PROVE  /\ f.meta \in {"none", "open", "archived"} /\ f.edited \in BOOLEAN /\ f.setup \in 0..2
         /\ f.turns \in 0..MaxTurns /\ f.turns \in Nat /\ f.runs \in [Turns -> Statuses]
         /\ f.position \in 0..MaxTurns /\ f.position \in Nat
  BY ConversationsAssumption DEF FileRecord

(* The files of a session that is there, after a step of one of its own    *)
(* requests: it has the turns and the records it had.                      *)
LEMMA GrowingFile ==
  ASSUME IInv, NEW c \in Callers \cup {None}, NEW s \in Sessions, NEW f \in FileRecord,
         files' = files \/ files' = [files EXCEPT ![s] = f],
         promised' = promised, AtWork(s) \/ Visible(s),
         f.meta = "none" <=> files[s].meta = "none",
         f.meta # files[s].meta => holder[s] = None,
         f.setup = files[s].setup \/ f.setup # 0,
         f.turns = files[s].turns,
         \A t \in Turns : f.runs[t] = "none" <=> files[s].runs[t] = "none"
  PROVE  /\ FilesStep(c) /\ files' \in [Sessions -> FileRecord]
         /\ \A x \in Sessions \ {s} : files'[x] = files[x]
         /\ files'[s] \in {files[s], f}
  <1>1. files[s] \in FileRecord
    BY Types
  <1>2. files[s].turns \in Nat
    BY <1>1, FileFields
  <1>3. files'[s] = f => Grows(s)
    BY <1>2 DEF Grows
  <1>4. files'[s] = f /\ Tidy(s) => Tidy(s)'
    BY <1>2 DEF Tidy
  <1> QED
    BY <1>3, <1>4, OneFile

(* The outcome of a record that outlived its run is the only change. *)
LEMMA InterruptedKeeps ==
  ASSUME IInv, NEW s \in Sessions
  PROVE  /\ Interrupted(s) \in [Turns -> Statuses]
         /\ \A t \in Turns : Interrupted(s)[t] = "none" <=> files[s].runs[t] = "none"
  BY Types DEF Interrupted, Statuses, FileRecord

LEMMA ChangeMetaKeeps ==
  ASSUME IInv, NEW c \in Callers, ChangeMeta(c)
  PROVE  IInv'
  <1> USE Types, NoCallIsCall DEF ChangeMeta
  <1> DEFINE s == call[c].s
  <1>1. s \in Sessions
    BY DEF IInv, Own, Named
  <1>2. PICK f \in FileRecord :
          /\ files' = files \/ files' = [files EXCEPT ![s] = f]
          /\ f.meta # "none" /\ f.setup = files[s].setup /\ f.turns = files[s].turns
          /\ f.runs = files[s].runs
    <2>1. files[s] \in FileRecord
      BY <1>1
    <2>2. /\ [files[s] EXCEPT !.edited = TRUE] \in FileRecord
          /\ [files[s] EXCEPT !.meta = "archived"] \in FileRecord
          /\ [files[s] EXCEPT !.meta = "open"] \in FileRecord
      BY <2>1 DEF FileRecord
    <2>3. files[s].meta # "none"
      BY DEF Visible
    <2>4. CASE call[c].op = "rename"
      <3>1. Write(s, [files[s] EXCEPT !.edited = TRUE])
        BY <2>4
      <3> QED
        BY <2>1, <2>2, <2>3, <3>1 DEF Write, FileRecord
    <2>5. CASE call[c].op = "archive"
      <3>1. Write(s, [files[s] EXCEPT !.meta = "archived"])
        BY <2>5
      <3> QED
        BY <2>1, <2>2, <2>3, <3>1 DEF Write, FileRecord
    <2>6. CASE call[c].op = "restore"
      <3>1. Write(s, [files[s] EXCEPT !.meta = "open"])
        BY <2>6
      <3> QED
        BY <2>1, <2>2, <2>3, <3>1 DEF Write, FileRecord
    <2> QED
      BY <2>4, <2>5, <2>6
  <1>3. FilesStep(c) /\ files' \in [Sessions -> FileRecord]
    <2>1. /\ Visible(s) /\ holder[s] = None /\ promised' = promised
          /\ (f.meta = "none" <=> files[s].meta = "none")
      BY <1>2 DEF Visible
    <2>2. \A t \in Turns : f.runs[t] = "none" <=> files[s].runs[t] = "none"
      BY <1>2
    <2>3. f.setup = files[s].setup /\ f.turns = files[s].turns /\ f \in FileRecord
      BY <1>2
    <2>4. files' = files \/ files' = [files EXCEPT ![s] = f]
      BY <1>2
    <2> QED
      BY ONLY IInv, <1>1, <2>1, <2>2, <2>3, <2>4, GrowingFile
  <1>5. CallsOK' /\ TypeOK' /\ call'[c] = NoCall
    BY <1>3, CallTyped DEF TypeOK, IInv, FileRecord
  <1>6. Step(c)
    BY <1>3, <1>5, CallTyped, StepOfFiles, AnsweredOwnsNothing DEF StageStep
  <1> QED
    BY <1>5, <1>6, AnsweredOwnsNothing, StepKeepsIInv

LEMMA MarkReadKeeps ==
  ASSUME IInv, NEW c \in Callers, MarkRead(c)
  PROVE  IInv'
  <1> USE Types, NoCallIsCall DEF MarkRead
  <1> DEFINE s == call[c].s
  <1>1. s \in Sessions
    BY DEF IInv, Own, Named
  <1>2. PICK t \in Turns :
          Write(s, [files[s] EXCEPT !.runs = Interrupted(s),
                      !.position = IF Readable(Interrupted(s), t) THEN Advanced(@, t) ELSE @])
    OBVIOUS
  <1> DEFINE f == [files[s] EXCEPT !.runs = Interrupted(s),
                      !.position = IF Readable(Interrupted(s), t)
                                   THEN Advanced(files[s].position, t) ELSE files[s].position]
  <1>3. files' = files \/ files' = [files EXCEPT ![s] = f]
    BY <1>1, <1>2 DEF Write
  <1>4. /\ f \in FileRecord
        /\ f.meta = files[s].meta /\ f.setup = files[s].setup /\ f.turns = files[s].turns
        /\ f.runs = Interrupted(s)
    <2>1. files[s] \in FileRecord /\ t \in 0..MaxTurns
      BY <1>1 DEF Turns
    <2>2. (IF Readable(Interrupted(s), t) THEN Advanced(files[s].position, t)
           ELSE files[s].position) \in 0..MaxTurns
      BY <2>1, FileFields DEF Advanced
    <2> QED
      BY <1>1, <2>1, <2>2, InterruptedKeeps DEF FileRecord
  <1> HIDE DEF f
  <1>5. FilesStep(c) /\ files' \in [Sessions -> FileRecord]
    BY <1>1, <1>3, <1>4, InterruptedKeeps, GrowingFile
  <1>6. CallsOK' /\ TypeOK' /\ call'[c] = NoCall
    BY <1>5, CallTyped DEF TypeOK, IInv, FileRecord
  <1>7. Step(c)
    BY <1>5, <1>6, CallTyped, StepOfFiles, AnsweredOwnsNothing DEF StageStep
  <1> QED
    BY <1>6, <1>7, AnsweredOwnsNothing, StepKeepsIInv

LEMMA SendLockedKeeps ==
  ASSUME IInv, NEW c \in Callers, SendLocked(c)
  PROVE  IInv'
  <1> USE Types, NoCallIsCall DEF SendLocked
  <1> DEFINE s == call[c].s
  <1>1. s \in Sessions /\ call[c].op \in {"send", "compact", "settings"} /\ call[c] \in CallRecord
    BY DEF IInv, Own, Named
  <1>2. CASE call' = [call EXCEPT ![c] = NoCall] /\ holder' = holder
    <2>1. CallsOK' /\ TypeOK' /\ call'[c] = NoCall
      BY <1>2, CallTyped DEF TypeOK, IInv
    <2>2. Step(c)
      BY <1>2, <2>1, CallTyped, StepOfCall, AnsweredOwnsNothing
    <2> QED
      BY <2>1, <2>2, AnsweredOwnsNothing, StepKeepsIInv
  <1>3. CASE \E at \in {"start", "save", "steer"} :
               /\ call' = [call EXCEPT ![c].at = at]
               /\ \/ at = "steer" /\ holder' = holder
                  \/ MayStart(s) /\ holder' = [holder EXCEPT ![s] = c]
    <2>1. PICK at \in {"start", "save", "steer"} :
               /\ call' = [call EXCEPT ![c].at = at]
               /\ \/ at = "steer" /\ holder' = holder
                  \/ MayStart(s) /\ holder' = [holder EXCEPT ![s] = c]
      BY <1>3
    <2> DEFINE r == [call[c] EXCEPT !.at = at]
    <2>2. /\ r \in CallRecord /\ call' = [call EXCEPT ![c] = r] /\ r.op = call[c].op
          /\ r.s = call[c].s /\ r.dest = call[c].dest /\ r.at = at
      BY <2>1, <1>1 DEF CallRecord
    <2> HIDE DEF r
    <2>3. CallsOK' /\ TypeOK' /\ call'[c] = r
      <3>1. holder' \in [Sessions -> Callers \cup {None}]
        BY <1>1, <2>1
      <3>2. /\ CallsOK' /\ call'[c] = r
            /\ \A o \in Callers : call'[o].op \in Handlers \cup {"idle"}
        BY <2>2, CallTyped
      <3> QED
        BY <3>1, <3>2 DEF TypeOK, IInv
    <2>4. AimsStep(c)
      BY <1>1, <2>2, <2>3 DEF AimsStep, Making
    <2>5. Step(c)
      BY <1>1, <2>1, <2>2, <2>4, CallTyped, StepOfCall
    <2>6. Own(c)'
      <3>1. Named(c)'
        BY <2>2, <2>3 DEF IInv, Own, Named
      <3>2. Locked(c)'
        BY <1>1, <2>1, <2>2, <2>3
           DEF Locked, Sending, Copying, Deleting, Kept, Visible, MayStart
      <3> QED
        BY <1>1, <2>2, <2>3, <3>1, <3>2 DEF Own, Made, Making, Removing, Deleting, Views
    <2> QED
      BY <2>3, <2>5, <2>6, StepKeepsIInv
  <1> QED
    BY <1>2, <1>3

LEMMA SteerAnsweredKeeps ==
  ASSUME IInv, NEW c \in Callers, SteerAnswered(c)
  PROVE  IInv'
  <1> USE Types, NoCallIsCall DEF SteerAnswered
  <1>1. CallsOK' /\ TypeOK' /\ call'[c] = NoCall
    BY CallTyped DEF TypeOK, IInv
  <1>2. Step(c)
    BY <1>1, CallTyped, StepOfCall, AnsweredOwnsNothing
  <1> QED
    BY <1>1, <1>2, AnsweredOwnsNothing, StepKeepsIInv

LEMMA SaveSettingsKeeps ==
  ASSUME IInv, NEW c \in Callers, SaveSettings(c)
  PROVE  IInv'
  <1> USE Types, NoCallIsCall DEF SaveSettings
  <1> DEFINE s == call[c].s
             f == [files[s] EXCEPT !.setup = 2]
             r == [call[c] EXCEPT !.at = "start"]
  <1>1. /\ s \in Sessions /\ holder[s] = c /\ Visible(s) /\ files[s].meta = "open"
        /\ call[c] \in CallRecord
    BY DEF IInv, Own, Named, Locked, Sending, Kept
  <1>2. /\ f \in FileRecord
        /\ f.meta = files[s].meta /\ f.setup = 2 /\ f.turns = files[s].turns
        /\ f.runs = files[s].runs
    <2>1. files[s] \in FileRecord /\ 2 \in 0..2
      BY <1>1
    <2>2. /\ f.meta = files[s].meta /\ f.setup = 2 /\ f.turns = files[s].turns
          /\ f.runs = files[s].runs
      BY <2>1 DEF FileRecord
    <2>3. f \in FileRecord
      BY ONLY <2>1 DEF FileRecord
    <2> QED
      BY <2>2, <2>3
  <1>3. /\ r \in CallRecord /\ r.op = call[c].op /\ r.s = s /\ r.dest = call[c].dest
        /\ r.at = "start"
    BY <1>1 DEF CallRecord
  <1>4. /\ \/ call' = [call EXCEPT ![c] = r] /\ holder' = holder
           \/ call' = [call EXCEPT ![c] = NoCall] /\ holder' = [holder EXCEPT ![s] = None]
        /\ files' = files \/ files' = [files EXCEPT ![s] = f]
    BY <1>1
  <1> HIDE DEF f, r
  <1>6. /\ FilesStep(c) /\ files' \in [Sessions -> FileRecord]
        /\ files'[s] \in {files[s], f}
    BY <1>1, <1>2, <1>4, GrowingFile
  <1>7. CallsOK' /\ TypeOK' /\ call'[c] \in {r, NoCall}
    <2>1. holder' \in [Sessions -> Callers \cup {None}]
      BY <1>4
    <2>2. /\ CallsOK' /\ call'[c] \in {r, NoCall}
          /\ \A o \in Callers : call'[o].op \in Handlers \cup {"idle"}
      BY <1>3, <1>4, CallTyped
    <2> QED
      BY <1>6, <2>1, <2>2 DEF TypeOK, IInv, FileRecord
  <1>8. AimsStep(c)
    BY <1>3, <1>7, AnsweredOwnsNothing DEF AimsStep, Making
  <1>9. Step(c)
    BY <1>1, <1>3, <1>4, <1>6, <1>8, CallTyped, StepOfFiles DEF StageStep
  <1>10. Own(c)'
    <2>1. CASE call' = [call EXCEPT ![c] = r] /\ holder' = holder
      <3>1. call'[c] = r
        BY <2>1
      <3>2. Kept(c, s)' /\ files'[s].meta = "open"
        <4>1. files'[s].setup # 0 /\ files'[s].meta = "open"
          BY <1>1, <1>2, <1>6 DEF Visible
        <4>2. holder'[s] = c /\ s \notin relations' /\ s \notin deleted'
          BY <1>1, <2>1 DEF Visible
        <4>3. s' = s
          BY <1>3, <3>1
        <4> QED
          BY <4>1, <4>2, <4>3 DEF Kept, Visible
      <3> QED
        BY <1>3, <3>1, <3>2 DEF IInv, Own, Named, Locked, Made, Removing, Views, Making, Sending,
           Copying, Deleting, Kept, Visible
    <2>2. CASE call' = [call EXCEPT ![c] = NoCall]
      BY <2>2, AnsweredOwnsNothing
    <2> QED
      BY <1>4, <2>1, <2>2
  <1> QED
    BY <1>7, <1>9, <1>10, StepKeepsIInv

LEMMA StartRunKeeps ==
  ASSUME IInv, NEW c \in Callers, StartRun(c)
  PROVE  IInv'
  <1> USE Types, NoCallIsCall DEF StartRun
  <1> DEFINE s == call[c].s
  <1>1. /\ s \in Sessions /\ holder[s] = c /\ Visible(s)
    BY DEF IInv, Own, Named, Locked, Sending, Kept
  <1>2. AtWork(s) /\ s \notin Kids
    BY <1>1, NotFound DEF AtWork
  <1>3. CallsOK' /\ TypeOK' /\ call'[c] = NoCall
    <2>1. /\ holder' \in [Sessions -> Callers \cup {None}]
          /\ stage' \in [Sessions -> {"idle", "prepare", "on", "ended"}]
      BY <1>1
    <2> QED
      BY <2>1, CallTyped DEF TypeOK, IInv
  <1>4. StageStep
    BY <1>1, <1>2 DEF StageStep
  <1>5. \A x \in Sessions : holder'[x] = holder[x] \/ holder[x] = c
    BY <1>1
  <1>6. Step(c)
    BY <1>3, <1>4, <1>5, CallTyped, StepOfFiles, AnsweredOwnsNothing DEF FilesStep
  <1> QED
    BY <1>3, <1>6, AnsweredOwnsNothing, StepKeepsIInv

LEMMA ViewReadsKeeps ==
  ASSUME IInv, NEW c \in Callers, ViewReads(c)
  PROVE  IInv'
  <1> USE Types, NoCallIsCall DEF ViewReads
  <1> DEFINE s == call[c].s
             r == [call[c] EXCEPT !.at = "save", !.runs = Interrupted(s)]
  <1>1. s \in Sessions /\ call[c] \in CallRecord
    BY DEF IInv, Own, Named
  <1>2. CASE call' = [call EXCEPT ![c] = NoCall] /\ viewing' = viewing
    <2>1. CallsOK' /\ TypeOK' /\ call'[c] = NoCall
      BY <1>2, CallTyped DEF TypeOK, IInv
    <2>2. Step(c)
      BY <1>2, <2>1, CallTyped, StepOfCall, AnsweredOwnsNothing
    <2> QED
      BY <2>1, <2>2, AnsweredOwnsNothing, StepKeepsIInv
  <1>3. CASE call' = [call EXCEPT ![c] = r] /\ viewing' = c
    <2>1. /\ r \in CallRecord /\ r.op = "view" /\ r.at = "save" /\ r.s = s
          /\ r.dest = call[c].dest /\ r.runs = Interrupted(s)
      BY <1>1, InterruptedKeeps DEF CallRecord
    <2> HIDE DEF r
    <2>2. CallsOK' /\ TypeOK' /\ call'[c] = r
      <3>1. {creating', viewing'} \subseteq Callers \cup {None}
        BY <1>3 DEF IInv, TypeOK
      <3> QED
        BY <1>3, <2>1, <3>1, CallTyped DEF TypeOK, IInv
    <2>3. AimsStep(c)
      BY <2>1, <2>2 DEF AimsStep, Making
    <2>4. Step(c)
      BY <1>3, <2>1, <2>3, CallTyped, StepOfCall
    <2>5. Own(c)'
      <3>1. Named(c)'
        BY <2>1, <2>2 DEF IInv, Own, Named
      <3>2. Views(c)'
        <4>1. s \notin doomed => \A t \in Turns : files[s].runs[t] # "none" => t <= files[s].turns
          BY <1>1 DEF IInv, Files, Tidy
        <4>2. s \notin doomed => \A t \in Turns : Interrupted(s)[t] # "none" => t <= files[s].turns
          BY <1>1, <4>1, InterruptedKeeps
        <4> QED
          BY <2>1, <2>2, <4>2 DEF Views
      <3> QED
        BY <2>1, <2>2, <3>1, <3>2 DEF Own, Locked, Made, Removing, Making, Sending, Copying, Deleting
    <2> QED
      BY <2>2, <2>4, <2>5, StepKeepsIInv
  <1> QED
    BY <1>2, <1>3

LEMMA ViewSavesKeeps ==
  ASSUME IInv, NEW c \in Callers, ViewSaves(c)
  PROVE  IInv'
  <1> USE Types, NoCallIsCall DEF ViewSaves
  <1>0. PICK s \in Sessions : s = call[c].s
    BY DEF IInv, Own, Named
  <1> DEFINE f == [files[s] EXCEPT !.runs = call[c].runs]
  <1>1. call[c] \in CallRecord /\ files[s] \in FileRecord
    BY DEF IInv, Own, Named
  <1>2. /\ f \in FileRecord /\ f = [files[s] EXCEPT !.runs = f.runs]
        /\ f.meta = files[s].meta /\ f.setup = files[s].setup /\ f.turns = files[s].turns
        /\ f.runs = call[c].runs
    BY <1>1 DEF FileRecord, CallRecord
  <1>3. files' = files \/ files' = [files EXCEPT ![s] = f]
    BY <1>0 DEF Write
  <1> HIDE DEF f
  <1>4. s \notin doomed => \A t \in Turns : call[c].runs[t] # "none" => t <= files[s].turns
    BY <1>0 DEF IInv, Own, Views
  <1>5. files'[s] = f => Records(s) /\ (s \notin doomed /\ Tidy(s) => Tidy(s)')
    <2>1. files'[s] = f => Records(s)
      BY <1>2 DEF Records
    <2>2. files'[s] = f /\ s \notin doomed /\ Tidy(s) => Tidy(s)'
      BY <1>2, <1>4 DEF Tidy
    <2> QED
      BY <2>1, <2>2
  <1>6. FilesStep(c) /\ files' \in [Sessions -> FileRecord]
    BY <1>0, <1>1, <1>2, <1>3, <1>5, OneFile
  <1>7. CallsOK' /\ TypeOK' /\ call'[c] = NoCall
    <2>1. {creating', viewing'} \subseteq Callers \cup {None}
      BY DEF IInv, TypeOK
    <2> QED
      BY <1>6, <2>1, CallTyped DEF TypeOK, IInv, FileRecord
  <1>8. Step(c)
    BY <1>6, <1>7, CallTyped, StepOfFiles, AnsweredOwnsNothing DEF StageStep
  <1> QED
    BY <1>7, <1>8, AnsweredOwnsNothing, StepKeepsIInv

(* A request that goes on with the same session, destination and scope. *)
LEMMA OnwardTyped ==
  ASSUME IInv, NEW c \in Callers,
         NEW at \in {"save", "start", "steer", "settings", "ledger", "meta", "records", "forget"},
         call' = [call EXCEPT ![c].at = at], replay' = replay
  PROVE  /\ CallsOK' /\ \A o \in Callers : call'[o].op \in Handlers \cup {"idle"}
         /\ \A o \in Callers \ {c} : call'[o] = call[o]
         /\ call'[c].at = at /\ call'[c].op = call[c].op /\ call'[c].s = call[c].s
         /\ call'[c].dest = call[c].dest /\ call'[c].through = call[c].through
         /\ call'[c].scope = call[c].scope /\ call'[c].rest = call[c].rest
  <1> DEFINE r == [call[c] EXCEPT !.at = at]
  <1>1. call[c] \in CallRecord
    BY Types
  <1>2. /\ r \in CallRecord /\ r.at = at /\ r.op = call[c].op /\ r.s = call[c].s
        /\ r.dest = call[c].dest /\ r.through = call[c].through
        /\ r.scope = call[c].scope /\ r.rest = call[c].rest
    BY <1>1 DEF CallRecord
  <1>3. call' = [call EXCEPT ![c] = r]
    OBVIOUS
  <1> HIDE DEF r
  <1> QED
    BY <1>2, <1>3, CallTyped

LEMMA ForkNexts ==
  /\ ForkNext("settings") = "ledger" /\ ForkNext("ledger") = "meta" /\ ForkNext("meta") = "records"
  <1>1. /\ ForkOrder[1] = "settings" /\ ForkOrder[2] = "ledger"
        /\ ForkOrder[3] = "meta" /\ ForkOrder[4] = "records"
    BY DEF ForkOrder
  <1>2. \A i \in 2..4 : i = 2 \/ i = 3 \/ i = 4
    OBVIOUS
  <1>3. (CHOOSE i \in 2..4 : ForkOrder[i - 1] = "settings") = 2
    BY <1>1, <1>2
  <1>4. (CHOOSE i \in 2..4 : ForkOrder[i - 1] = "ledger") = 3
    BY <1>1, <1>2
  <1>5. (CHOOSE i \in 2..4 : ForkOrder[i - 1] = "meta") = 4
    BY <1>1, <1>2
  <1> QED
    BY <1>1, <1>3, <1>4, <1>5 DEF ForkNext

(* A step that writes a file of what its request is making. *)
LEMMA MakingFile ==
  ASSUME IInv, NEW c \in Callers, NEW d \in Roots, d = call[c].dest, Making(c), NEW f \in FileRecord,
         files' = files \/ files' = [files EXCEPT ![d] = f],
         promised' = promised, f.runs = NoRuns,
         f.meta # "none" => (f.turns > 0 => f.setup # 0) /\ f.turns >= promised[d]
  PROVE  /\ FilesStep(c) /\ files' \in [Sessions -> FileRecord]
         /\ \A x \in Sessions \ {d} : files'[x] = files[x]
         /\ files'[d] \in {files[d], f}
  <1>1. d \in Sessions /\ Mine(c, d)
    BY Types DEF Mine
  <1>2. files'[d] = f => Tidy(d)'
    BY DEF Tidy, NoRuns
  <1> QED
    BY <1>1, <1>2, OneFile

LEMMA NothingThere ==
  /\ NoFiles \in FileRecord /\ NoFiles.meta = "none" /\ NoFiles.edited = FALSE /\ NoFiles.setup = 0
  /\ NoFiles.turns = 0 /\ NoFiles.runs = NoRuns /\ NoFiles.position = 0
  BY ConversationsAssumption DEF NoFiles, FileRecord, NoRuns, Statuses

LEMMA ForkLockedKeeps ==
  ASSUME IInv, NEW c \in Callers, ForkLocked(c)
  PROVE  IInv'
  <1> USE Types, NoCallIsCall DEF ForkLocked
  <1>1. PICK s \in Sessions : s = call[c].s
    BY DEF IInv, Own, Named
  <1>2. CASE call' = [call EXCEPT ![c] = NoCall] /\ UNCHANGED <<holder, used, promised>>
    <2>1. CallsOK' /\ TypeOK' /\ call'[c] = NoCall
      BY <1>2, CallTyped DEF TypeOK, IInv
    <2>2. Step(c)
      BY <1>2, <2>1, CallTyped, StepOfCall, AnsweredOwnsNothing
    <2> QED
      BY <2>1, <2>2, AnsweredOwnsNothing, StepKeepsIInv
  <1>3. CASE \E t \in 1..files[s].turns, d \in Roots \ used :
               /\ used' = used \cup {d}
               /\ promised' = [promised EXCEPT ![d] = t]
               /\ call' = [call EXCEPT ![c].at = "settings", ![c].dest = d, ![c].through = t]
               /\ holder' = [holder EXCEPT ![s] = c]
    <2>1. PICK t \in 1..files[s].turns, d \in Roots \ used :
               /\ used' = used \cup {d}
               /\ promised' = [promised EXCEPT ![d] = t]
               /\ call' = [call EXCEPT ![c].at = "settings", ![c].dest = d, ![c].through = t]
               /\ holder' = [holder EXCEPT ![s] = c]
      BY <1>3
    <2> DEFINE r == [call[c] EXCEPT !.at = "settings", !.dest = d, !.through = t]
    <2>2. t \in 0..MaxTurns /\ call[c] \in CallRecord
      <3>1. files[s].turns \in 0..MaxTurns
        BY FileFields
      <3>2. t \in 0..MaxTurns
        BY ONLY t \in 1..files[s].turns, <3>1, MaxTurns \in Nat
      <3> QED
        BY <3>2
    <2>3. /\ r \in CallRecord /\ r.op = "fork" /\ r.at = "settings" /\ r.s = s
          /\ r.dest = d /\ r.through = t /\ call' = [call EXCEPT ![c] = r]
      <3>1. /\ r \in CallRecord /\ r.op = "fork" /\ r.at = "settings" /\ r.s = s
            /\ r.dest = d /\ r.through = t
        BY <1>1, <2>2 DEF CallRecord
      <3>2. call' = [call EXCEPT ![c] = r]
        BY <2>1
      <3> QED
        BY <3>1, <3>2
    <2> HIDE DEF r
    <2>4. CallsOK' /\ TypeOK' /\ call'[c] = r
      <3>1. /\ holder' \in [Sessions -> Callers \cup {None}] /\ promised' \in [Sessions -> 0..MaxTurns]
            /\ used' \subseteq Roots
        BY <2>1, <2>2
      <3>2. /\ CallsOK' /\ call'[c] = r
            /\ \A o \in Callers : call'[o].op \in Handlers \cup {"idle"}
        BY <2>3, CallTyped
      <3> QED
        BY <3>1, <3>2 DEF TypeOK, IInv
    <2>5. AimsStep(c)
      BY <1>1, <2>1, <2>3, <2>4 DEF AimsStep, Making
    <2>6. Step(c)
      <3>1. \A x \in Sessions : holder'[x] = holder[x] \/ holder[x] = None
        BY <1>1, <2>1
      <3>2. \A x \in Sessions : promised'[x] = promised[x] \/ x \in used' \ used
        BY <2>1
      <3> QED
        BY <2>1, <2>3, <2>5, <3>1, <3>2, CallTyped, StepOfFiles DEF FilesStep, StageStep
    <2>7. Own(c)'
      <3>1. Named(c)'
        BY <1>1, <2>1, <2>3, <2>4 DEF IInv, Own, Named
      <3>2. Locked(c)'
        <4>1. holder'[s] = c /\ Visible(s)'
          BY <1>1, <2>1 DEF Visible
        <4> QED
          BY <2>3, <2>4, <4>1 DEF Locked, Sending, Copying, Deleting, Kept, Visible
      <3>3. Unseen(c, d)'
        <4>1. files'[d] = NoFiles /\ promised'[d] = t /\ d \notin doomed'
          BY <2>1 DEF IInv, Files, Fresh
        <4>2. /\ files'[d].runs = NoRuns /\ files'[d].meta = "none"
          BY <4>1, NothingThere
        <4>3. call'[c].op = "fork" /\ call'[c].at = "settings" /\ call'[c].through = t
          BY <2>3, <2>4
        <4> QED
          BY <4>1, <4>2, <4>3 DEF Unseen
      <3>4. Made(c)'
        BY <2>3, <2>4, <3>3 DEF Made, Unseen
      <3> QED
        BY <2>3, <2>4, <3>1, <3>2, <3>4 DEF Own, Removing, Deleting, Views
    <2> QED
      BY <2>4, <2>6, <2>7, StepKeepsIInv
  <1> QED
    BY <1>1, <1>2, <1>3

(* The parts of a fork have a source that stays, and a copy of its own. *)
LEMMA ForkParts ==
  ASSUME IInv, NEW c \in Callers, Copying(c), process = "up"
  PROVE  \E s \in Sessions, d \in Roots :
           /\ s = call[c].s /\ d = call[c].dest /\ d \in used /\ d \in Sessions
           /\ holder[s] = c /\ Visible(s) /\ files[s].setup # 0
           /\ call[c].at # "records" => Unseen(c, d) /\ Making(c) /\ s # d
           /\ files[s] \in FileRecord /\ files[d] \in FileRecord /\ call[c].through \in 0..MaxTurns
  <1>1. /\ call[c].s \in Sessions /\ Kept(c, call[c].s) /\ call[c].dest \in Roots
        /\ call[c].at # "records" => Making(c)
    BY DEF IInv, Own, Named, Locked, Copying, Made, Making, Unseen
  <1>2. call[c].at # "records" => Unseen(c, call[c].dest) /\ call[c].s # call[c].dest
    BY <1>1 DEF IInv, Own, Made, Apart
  <1>3. call[c].dest \in used /\ call[c].dest # None
    BY <1>1, Types DEF IInv, Own, Named
  <1>4. call[c].through \in 0..MaxTurns
    BY Types DEF CallRecord
  <1> QED
    BY <1>1, <1>2, <1>3, <1>4, Types DEF Kept, Visible

(* One file of the copy is written, or the fork fails. *)
LEMMA ForkWriteKeeps ==
  ASSUME IInv, NEW c \in Callers, NEW at \in {"settings", "ledger", "meta"}, NEW f \in FileRecord,
         NEW s \in Sessions, NEW d \in Roots, s = call[c].s, d = call[c].dest,
         ForkWrite(c, at, f), cached' \subseteq Roots,
         f.runs = NoRuns,
         f.setup # 0, promised[d] = call[c].through,
         at # "meta" => f.meta = "none",
         at # "settings" => f.turns = call[c].through
  PROVE  IInv'
  <1> USE Types, NoCallIsCall DEF ForkWrite
  <1>0. Copying(c) /\ Making(c) /\ process = "up" /\ call[c].at = at /\ call[c].op = "fork"
    BY DEF Copying, Making
  <1>1. /\ d \in used /\ d \in Sessions /\ holder[s] = c /\ Visible(s) /\ s # d
        /\ Unseen(c, d) /\ call[c].through \in 0..MaxTurns
    BY <1>0, ForkParts
  <1>2. /\ FilesStep(c) /\ files' \in [Sessions -> FileRecord]
        /\ files'[s] = files[s] /\ files'[d] \in {files[d], f}
    <2>1. f.meta # "none" => (f.turns > 0 => f.setup # 0) /\ f.turns >= promised[d]
      BY <1>1, FileFields
    <2>2. files' = files \/ files' = [files EXCEPT ![d] = f]
      OBVIOUS
    <2> QED
      BY <1>0, <1>1, <2>1, <2>2, MakingFile
  <1>3. CASE call' = [call EXCEPT ![c] = NoCall] /\ holder' = [holder EXCEPT ![s] = None]
    <2>1. CallsOK' /\ TypeOK' /\ call'[c] = NoCall
      <3>1. holder' \in [Sessions -> Callers \cup {None}]
        BY <1>3
      <3>2. /\ CallsOK' /\ call'[c] = NoCall
            /\ \A o \in Callers : call'[o].op \in Handlers \cup {"idle"}
        BY <1>3, CallTyped
      <3> QED
        BY <1>2, <3>1, <3>2 DEF TypeOK, IInv, FileRecord
    <2>2. \A x \in Sessions : holder'[x] = holder[x] \/ holder[x] = c
      BY <1>1, <1>3
    <2>3. Step(c)
      BY <1>0, <1>2, <1>3, <2>1, <2>2, CallTyped, StepOfFiles, AnsweredOwnsNothing DEF StageStep
    <2> QED
      BY <2>1, <2>3, AnsweredOwnsNothing, StepKeepsIInv
  <1>4. CASE /\ files' = [files EXCEPT ![d] = f] /\ holder' = holder
             /\ call' = [call EXCEPT ![c].at = ForkNext(at)]
    <2>1. PICK n \in {"ledger", "meta", "records"} :
            /\ n = ForkNext(at) /\ (at = "settings" => n = "ledger")
            /\ (at = "ledger" => n = "meta") /\ (at = "meta" => n = "records")
      BY ForkNexts
    <2>2. /\ CallsOK' /\ \A o \in Callers : call'[o].op \in Handlers \cup {"idle"}
          /\ \A o \in Callers \ {c} : call'[o] = call[o]
          /\ call'[c].at = n /\ call'[c].op = "fork" /\ call'[c].s = s
          /\ call'[c].dest = d /\ call'[c].through = call[c].through
      BY <1>0, <1>4, <2>1, OnwardTyped
    <2>3. TypeOK'
      BY <1>2, <1>4, <2>2 DEF TypeOK, IInv, FileRecord
    <2>4. AimsStep(c)
      BY <1>0, <2>2 DEF AimsStep, Making
    <2>5. Step(c)
      BY <1>0, <1>2, <1>4, <2>2, <2>4, StepOfFiles DEF StageStep
    <2>6. Own(c)'
      <3>1. files'[d] = f
        BY <1>1, <1>4
      <3>2. Named(c)'
        BY <1>1, <2>2 DEF Named, IInv, Own
      <3>3. Locked(c)'
        BY <1>1, <1>2, <1>4, <2>2 DEF Locked, Sending, Copying, Deleting, Kept, Visible
      <3>4. n # "records" => Unseen(c, d)'
        BY <1>1, <2>1, <2>2, <3>1 DEF Unseen
      <3>5. n = "records" => files'[d].turns >= call[c].through
        BY <1>1, <2>1, <3>1, FileFields
      <3>6. Made(c)'
        BY <2>1, <2>2, <3>4, <3>5 DEF Made, Making, Unseen
      <3> QED
        BY <2>1, <2>2, <3>2, <3>3, <3>6 DEF Own, Removing, Deleting, Views
    <2> QED
      BY <2>2, <2>3, <2>5, <2>6, StepKeepsIInv
  <1> QED
    BY <1>0, <1>3, <1>4

LEMMA ForkSettingsKeeps ==
  ASSUME IInv, NEW c \in Callers, ForkSettings(c)
  PROVE  IInv'
  <1> USE DEF ForkSettings
  <1>1. Copying(c) /\ process = "up" /\ call[c].op = "fork" /\ call[c].at = "settings" /\ cached' \subseteq Roots
    BY DEF ForkWrite, Copying, IInv, TypeOK
  <1>2. PICK s \in Sessions, d \in Roots :
           /\ s = call[c].s /\ d = call[c].dest /\ files[s].setup # 0 /\ Unseen(c, d)
           /\ files[s] \in FileRecord /\ files[d] \in FileRecord
    BY <1>1, ForkParts
  <1> DEFINE f == [files[d] EXCEPT !.setup = files[s].setup]
  <1>3. /\ f \in FileRecord /\ f.setup # 0 /\ f.runs = NoRuns /\ f.meta = "none"
        /\ promised[d] = call[c].through
    BY <1>1, <1>2 DEF FileRecord, Unseen
  <1>4. ForkWrite(c, "settings", f)
    BY <1>2
  <1> HIDE DEF f
  <1> QED
    BY <1>1, <1>2, <1>3, <1>4, ForkWriteKeeps

LEMMA ForkLedgerKeeps ==
  ASSUME IInv, NEW c \in Callers, ForkLedger(c)
  PROVE  IInv'
  <1> USE DEF ForkLedger
  <1>1. Copying(c) /\ process = "up" /\ call[c].op = "fork" /\ call[c].at = "ledger" /\ cached' \subseteq Roots
    BY DEF ForkWrite, Copying, IInv, TypeOK
  <1>2. PICK s \in Sessions, d \in Roots :
           /\ s = call[c].s /\ d = call[c].dest /\ files[s].setup # 0 /\ Unseen(c, d)
           /\ files[s] \in FileRecord /\ files[d] \in FileRecord /\ call[c].through \in 0..MaxTurns
    BY <1>1, ForkParts
  <1> DEFINE f == [files[d] EXCEPT !.turns = call[c].through]
  <1>3. /\ f \in FileRecord /\ f.setup # 0 /\ f.runs = NoRuns /\ f.meta = "none"
        /\ promised[d] = call[c].through /\ f.turns = call[c].through
    BY <1>1, <1>2 DEF FileRecord, Unseen
  <1>4. ForkWrite(c, "ledger", f)
    BY <1>2
  <1> HIDE DEF f
  <1> QED
    BY <1>1, <1>2, <1>3, <1>4, ForkWriteKeeps

LEMMA ForkMetaKeeps ==
  ASSUME IInv, NEW c \in Callers, ForkMeta(c)
  PROVE  IInv'
  <1> USE DEF ForkMeta
  <1>1. Copying(c) /\ process = "up" /\ call[c].op = "fork" /\ call[c].at = "meta"
    BY DEF ForkWrite, Copying
  <1>2. PICK s \in Sessions, d \in Roots :
           /\ s = call[c].s /\ d = call[c].dest /\ files[s].setup # 0 /\ Unseen(c, d)
           /\ files[s] \in FileRecord /\ files[d] \in FileRecord /\ call[c].through \in 0..MaxTurns
    BY <1>1, ForkParts
  <1>3. cached' \subseteq Roots
    BY <1>2 DEF IInv, TypeOK
  <1> DEFINE f == [files[d] EXCEPT !.meta = "open"]
  <1>4. /\ f \in FileRecord /\ f.setup # 0 /\ f.runs = NoRuns
        /\ promised[d] = call[c].through /\ f.turns = call[c].through
    BY <1>1, <1>2 DEF FileRecord, Unseen
  <1>5. ForkWrite(c, "meta", f)
    BY <1>2
  <1> HIDE DEF f
  <1> QED
    BY <1>1, <1>2, <1>3, <1>4, <1>5, ForkWriteKeeps

LEMMA ForkRecordsKeeps ==
  ASSUME IInv, NEW c \in Callers, ForkRecords(c)
  PROVE  IInv'
  <1> USE Types, NoCallIsCall DEF ForkRecords
  <1>1. Copying(c) /\ process = "up" /\ call[c].op = "fork" /\ call[c].at = "records"
    BY DEF Copying
  <1>2. PICK s \in Sessions, d \in Roots :
           /\ s = call[c].s /\ d = call[c].dest /\ d \in Sessions /\ holder[s] = c
           /\ files[s] \in FileRecord /\ files[d] \in FileRecord /\ call[c].through \in 0..MaxTurns
    BY <1>1, ForkParts
  <1> DEFINE copied == CopyOf(s, call[c].through)
             f == [files[d] EXCEPT !.runs = copied]
  <1>3. /\ copied \in [Turns -> Statuses]
        /\ \A t \in Turns : copied[t] # "none" => t <= call[c].through
    <2>1. files[s].runs \in [Turns -> Statuses]
      BY <1>2, FileFields
    <2>2. \A t \in Turns : ~(t > call[c].through) => t <= call[c].through
      BY <1>2 DEF Turns
    <2> QED
      BY <2>1, <2>2 DEF CopyOf, Statuses
  <1> HIDE DEF copied
  <1>4. /\ f \in FileRecord /\ f = [files[d] EXCEPT !.runs = f.runs]
        /\ f.meta = files[d].meta /\ f.setup = files[d].setup /\ f.turns = files[d].turns
        /\ f.runs = copied
    BY <1>2, <1>3 DEF FileRecord
  <1>5. files' = files \/ files' = [files EXCEPT ![d] = f]
    BY <1>2 DEF copied
  <1>6. holder' = [holder EXCEPT ![s] = None]
    BY <1>2
  <1> HIDE DEF f
  <1>7. d \notin doomed => files[d].turns >= call[c].through
    BY <1>1, <1>2 DEF IInv, Own, Made
  <1>8. files'[d] = f => Records(d) /\ (d \notin doomed /\ Tidy(d) => Tidy(d)')
    <2>1. files'[d] = f => Records(d)
      BY <1>4 DEF Records
    <2>2. d \notin doomed => \A t \in Turns : copied[t] # "none" => t <= files[d].turns
      BY <1>2, <1>3, <1>7, FileFields DEF Turns
    <2>3. files'[d] = f /\ d \notin doomed /\ Tidy(d) => Tidy(d)'
      BY <1>4, <2>2 DEF Tidy
    <2> QED
      BY <2>1, <2>3
  <1>9. FilesStep(c) /\ files' \in [Sessions -> FileRecord]
    BY <1>2, <1>4, <1>5, <1>8, OneFile
  <1>10. CallsOK' /\ TypeOK' /\ call'[c] = NoCall
    <2>1. holder' \in [Sessions -> Callers \cup {None}]
      BY <1>6
    <2>2. /\ CallsOK' /\ call'[c] = NoCall
          /\ \A o \in Callers : call'[o].op \in Handlers \cup {"idle"}
      BY CallTyped
    <2> QED
      BY <1>9, <2>1, <2>2 DEF TypeOK, IInv, FileRecord
  <1>11. \A x \in Sessions : holder'[x] = holder[x] \/ holder[x] = c
    BY <1>2, <1>6
  <1>12. Step(c)
    BY <1>9, <1>10, <1>11, CallTyped, StepOfFiles, AnsweredOwnsNothing DEF StageStep
  <1> QED
    BY <1>10, <1>12, AnsweredOwnsNothing, StepKeepsIInv

LEMMA CreateListsKeeps ==
  ASSUME IInv, NEW c \in Callers, CreateLists(c)
  PROVE  IInv'
  <1> USE Types, NoCallIsCall DEF CreateLists
  <1>1. CASE call' = [call EXCEPT ![c] = NoCall] /\ UNCHANGED <<creating, used>>
    <2>1. CallsOK' /\ TypeOK' /\ call'[c] = NoCall
      BY <1>1, CallTyped DEF TypeOK, IInv
    <2>2. Step(c)
      BY <1>1, <2>1, CallTyped, StepOfCall, AnsweredOwnsNothing
    <2> QED
      BY <2>1, <2>2, AnsweredOwnsNothing, StepKeepsIInv
  <1>2. CASE \E d \in Roots \ used :
               /\ used' = used \cup {d} /\ creating' = c
               /\ call' = [call EXCEPT ![c].at = "meta", ![c].dest = d]
    <2>1. PICK d \in Roots \ used :
               /\ used' = used \cup {d} /\ creating' = c
               /\ call' = [call EXCEPT ![c].at = "meta", ![c].dest = d]
      BY <1>2
    <2> DEFINE r == [call[c] EXCEPT !.at = "meta", !.dest = d]
    <2>2. call[c] \in CallRecord
      OBVIOUS
    <2>3. /\ r \in CallRecord /\ r.op = "create" /\ r.at = "meta" /\ r.s = call[c].s
          /\ r.dest = d
      BY <2>2 DEF CallRecord
    <2>4. call' = [call EXCEPT ![c] = r]
      BY <2>1
    <2> HIDE DEF r
    <2>5. CallsOK' /\ TypeOK' /\ call'[c] = r
      <3>1. {creating', viewing'} \subseteq Callers \cup {None} /\ used' \subseteq Roots
        BY <2>1 DEF IInv, TypeOK
      <3>2. /\ CallsOK' /\ call'[c] = r
            /\ \A o \in Callers : call'[o].op \in Handlers \cup {"idle"}
        BY <2>3, <2>4, CallTyped
      <3> QED
        BY <3>1, <3>2 DEF TypeOK, IInv
    <2>6. AimsStep(c)
      BY <2>3, <2>5 DEF AimsStep, Making
    <2>7. Step(c)
      BY <2>1, <2>3, <2>4, <2>6, CallTyped, StepOfFiles DEF FilesStep, StageStep
    <2>8. Own(c)'
      <3>1. Named(c)'
        BY <2>1, <2>3, <2>5 DEF IInv, Own, Named
      <3>2. files'[d] = NoFiles /\ promised'[d] = 0 /\ d \notin doomed'
        BY <2>1 DEF IInv, Files, Fresh
      <3>3. Unseen(c, d)'
        BY <2>3, <2>5, <3>2, NothingThere DEF Unseen
      <3>4. Made(c)'
        BY <2>3, <2>5, <3>3 DEF Made, Unseen
      <3> QED
        BY <2>3, <2>5, <3>1, <3>4 DEF Own, Locked, Sending, Copying, Removing, Deleting, Views
    <2> QED
      BY <2>5, <2>7, <2>8, StepKeepsIInv
  <1> QED
    BY <1>1, <1>2

LEMMA CreateMetaKeeps ==
  ASSUME IInv, NEW c \in Callers, CreateMeta(c)
  PROVE  IInv'
  <1> USE Types, NoCallIsCall DEF CreateMeta
  <1>1. PICK d \in Roots :
          /\ d = call[c].dest /\ d \in Sessions /\ d \in used /\ Making(c) /\ Unseen(c, d)
          /\ files[d] \in FileRecord
    BY DEF IInv, Own, Made, Making, Unseen, Named
  <1> DEFINE f == [files[d] EXCEPT !.meta = "open"]
  <1>2. /\ f \in FileRecord /\ f.runs = NoRuns /\ f.turns = 0 /\ f.setup = 0
        /\ promised[d] = 0 /\ f.meta = "open"
    BY <1>1 DEF FileRecord, Unseen
  <1>3. files' = files \/ files' = [files EXCEPT ![d] = f]
    BY <1>1
  <1> HIDE DEF f
  <1>4. FilesStep(c) /\ files' \in [Sessions -> FileRecord]
    BY <1>1, <1>2, <1>3, MakingFile
  <1>5. CASE call' = [call EXCEPT ![c] = NoCall] /\ creating' = None
    <2>1. {creating', viewing'} \subseteq Callers \cup {None}
      BY <1>5 DEF IInv, TypeOK
    <2>2. CallsOK' /\ TypeOK' /\ call'[c] = NoCall
      BY <1>4, <1>5, <2>1, CallTyped DEF TypeOK, IInv, FileRecord
    <2>3. Step(c)
      BY <1>4, <1>5, <2>2, CallTyped, StepOfFiles, AnsweredOwnsNothing DEF StageStep
    <2> QED
      BY <2>2, <2>3, AnsweredOwnsNothing, StepKeepsIInv
  <1>6. CASE /\ files' = [files EXCEPT ![d] = f] /\ creating' = creating
             /\ call' = [call EXCEPT ![c].at = "settings"]
    <2>1. /\ CallsOK' /\ \A o \in Callers : call'[o].op \in Handlers \cup {"idle"}
          /\ \A o \in Callers \ {c} : call'[o] = call[o]
          /\ call'[c].at = "settings" /\ call'[c].op = "create" /\ call'[c].s = call[c].s
          /\ call'[c].dest = d
      BY <1>1, <1>6, OnwardTyped
    <2>2. TypeOK'
      BY <1>4, <1>6, <2>1 DEF TypeOK, IInv, FileRecord
    <2>3. AimsStep(c)
      BY <1>1, <2>1 DEF AimsStep, Making
    <2>4. Step(c)
      BY <1>4, <1>6, <2>1, <2>3, StepOfFiles DEF StageStep
    <2>5. Own(c)'
      <3>1. files'[d] = f
        BY <1>1, <1>6
      <3>2. Named(c)'
        BY <1>1, <2>1 DEF Named, IInv, Own
      <3>3. Unseen(c, d)'
        BY <1>1, <1>2, <2>1, <3>1 DEF Unseen
      <3>4. Made(c)'
        BY <2>1, <3>3 DEF Made, Unseen
      <3> QED
        BY <2>1, <3>2, <3>4 DEF Own, Locked, Sending, Copying, Removing, Deleting, Views
    <2> QED
      BY <2>1, <2>2, <2>4, <2>5, StepKeepsIInv
  <1> QED
    BY <1>1, <1>5, <1>6 DEF f

LEMMA CreateSettingsKeeps ==
  ASSUME IInv, NEW c \in Callers, CreateSettings(c)
  PROVE  IInv'
  <1> USE Types, NoCallIsCall DEF CreateSettings
  <1>1. PICK d \in Roots :
          /\ d = call[c].dest /\ d \in Sessions /\ Making(c) /\ Unseen(c, d)
          /\ files[d] \in FileRecord
    BY DEF IInv, Own, Made, Making, Unseen, Named
  <1>2. PICK f \in FileRecord :
          /\ files' = files \/ files' = [files EXCEPT ![d] = f]
          /\ f.turns = 0 /\ f.runs = NoRuns
    <2>1. files[d].turns = 0 /\ files[d].runs = NoRuns
      BY <1>1 DEF Unseen
    <2>2. /\ [files[d] EXCEPT !.setup = 1] \in FileRecord
          /\ [files[d] EXCEPT !.setup = 1].turns = 0
          /\ [files[d] EXCEPT !.setup = 1].runs = NoRuns
      <3>1. files[d] \in FileRecord /\ 1 \in 0..2
        BY <1>1
      <3>2. [files[d] EXCEPT !.setup = 1] \in FileRecord
        BY ONLY <3>1 DEF FileRecord
      <3> QED
        BY <2>1, <3>1, <3>2 DEF FileRecord
    <2>3. /\ [files[d] EXCEPT !.meta = "none"] \in FileRecord
          /\ [files[d] EXCEPT !.meta = "none"].turns = 0
          /\ [files[d] EXCEPT !.meta = "none"].runs = NoRuns
      BY <1>1, <2>1 DEF FileRecord
    <2>4. \/ files' = [files EXCEPT ![d] = [files[d] EXCEPT !.setup = 1]]
          \/ files' = [files EXCEPT ![d] = [files[d] EXCEPT !.meta = "none"]]
          \/ files' = files
      BY <1>1
    <2> QED
      BY <1>1, <2>1, <2>2, <2>3, <2>4
  <1>3. promised[d] = 0
    BY <1>1 DEF Unseen
  <1>4. FilesStep(c) /\ files' \in [Sessions -> FileRecord]
    BY <1>1, <1>2, <1>3, MakingFile
  <1>5. CallsOK' /\ TypeOK' /\ call'[c] = NoCall
    <2>1. {creating', viewing'} \subseteq Callers \cup {None}
      BY DEF IInv, TypeOK
    <2> QED
      BY <1>4, <2>1, CallTyped DEF TypeOK, IInv, FileRecord
  <1>6. Step(c)
    BY <1>4, <1>5, CallTyped, StepOfFiles, AnsweredOwnsNothing DEF StageStep
  <1> QED
    BY <1>5, <1>6, AnsweredOwnsNothing, StepKeepsIInv

LEMMA DeleteLocksKeeps ==
  ASSUME IInv, NEW c \in Callers, DeleteLocks(c)
  PROVE  IInv'
  <1> USE Types, NoCallIsCall DEF DeleteLocks
  <1>1. CASE call' = [call EXCEPT ![c] = NoCall] /\ UNCHANGED <<creating, holder>>
    <2>1. CallsOK' /\ TypeOK' /\ call'[c] = NoCall
      BY <1>1, CallTyped DEF TypeOK, IInv
    <2>2. Step(c)
      BY <1>1, <2>1, CallTyped, StepOfCall, AnsweredOwnsNothing
    <2> QED
      BY <2>1, <2>2, AnsweredOwnsNothing, StepKeepsIInv
  <1>2. CASE \E roots \in SUBSET Sessions :
               /\ \A s \in roots : Visible(s) /\ holder[s] = None
               /\ creating' = c
               /\ holder' = [s \in Sessions |-> IF s \in roots THEN c ELSE holder[s]]
               /\ call' = [call EXCEPT ![c].at = "reserve", ![c].scope = roots]
    <2>1. PICK roots \in SUBSET Sessions :
               /\ \A s \in roots : Visible(s) /\ holder[s] = None
               /\ creating' = c
               /\ holder' = [s \in Sessions |-> IF s \in roots THEN c ELSE holder[s]]
               /\ call' = [call EXCEPT ![c].at = "reserve", ![c].scope = roots]
      BY <1>2
    <2> DEFINE r == [call[c] EXCEPT !.at = "reserve", !.scope = roots]
    <2>2. call[c] \in CallRecord
      OBVIOUS
    <2>3. /\ r \in CallRecord /\ r.op \in {"delete", "deleteAll"} /\ r.at = "reserve"
          /\ r.s = call[c].s /\ r.dest = call[c].dest /\ r.scope = roots /\ r.op = call[c].op
      BY <2>2 DEF CallRecord
    <2>4. call' = [call EXCEPT ![c] = r]
      BY <2>1
    <2> HIDE DEF r
    <2>5. CallsOK' /\ TypeOK' /\ call'[c] = r
      <3>1. /\ {creating', viewing'} \subseteq Callers \cup {None}
            /\ holder' \in [Sessions -> Callers \cup {None}]
        BY <2>1 DEF IInv, TypeOK
      <3>2. /\ CallsOK' /\ call'[c] = r
            /\ \A o \in Callers : call'[o].op \in Handlers \cup {"idle"}
        BY <2>3, <2>4, CallTyped
      <3> QED
        BY <3>1, <3>2 DEF TypeOK, IInv
    <2>6. AimsStep(c)
      BY <2>3, <2>5 DEF AimsStep, Making
    <2>7. \A x \in Sessions : holder'[x] = holder[x] \/ holder[x] = None
      BY <2>1
    <2>8. Step(c)
      BY <2>3, <2>4, <2>6, <2>7, CallTyped, StepOfCall
    <2>9. Own(c)'
      <3>1. Named(c)'
        BY <2>3, <2>5 DEF IInv, Own, Named
      <3>2. \A s \in roots : Kept(c, s)'
        BY <2>1 DEF Kept, Visible
      <3>3. Locked(c)'
        BY <2>3, <2>5, <3>2 DEF Locked, Sending, Copying, Kept, Visible
      <3> QED
        BY <2>3, <2>5, <3>1, <3>3 DEF Own, Made, Making, Removing, Deleting, Views
    <2> QED
      BY <2>5, <2>8, <2>9, StepKeepsIInv
  <1>3. PICK roots \in SUBSET Sessions :
           roots = (IF call[c].op = "delete" THEN {call[c].s} ELSE Listed)
    BY DEF IInv, Own, Named, Listed
  <1>4. \/ call' = [call EXCEPT ![c] = NoCall] /\ UNCHANGED <<creating, holder>>
        \/ /\ \A s \in roots : Visible(s) /\ holder[s] = None
           /\ creating' = c
           /\ holder' = [s \in Sessions |-> IF s \in roots THEN c ELSE holder[s]]
           /\ call' = [call EXCEPT ![c].at = "reserve", ![c].scope = roots]
    BY <1>3
  <1> QED
    BY <1>1, <1>2, <1>4

(* The operation locks of a request that gives all of them up. *)
LEMMA UnlockedIsTyped ==
  ASSUME IInv, NEW c \in Callers, Unlocked(c)
  PROVE  /\ holder' \in [Sessions -> Callers \cup {None}] /\ creating' = None
         /\ \A x \in Sessions : holder'[x] = holder[x] \/ holder[x] = c
  BY Types DEF Unlocked

LEMMA DeleteForgetsKeeps ==
  ASSUME IInv, NEW c \in Callers, DeleteForgets(c)
  PROVE  IInv'
  <1> USE Types, NoCallIsCall DEF DeleteForgets
  <1>1. CallsOK' /\ TypeOK' /\ call'[c] = NoCall
    <2>1. {creating', viewing'} \subseteq Callers \cup {None}
      BY UnlockedIsTyped DEF IInv, TypeOK
    <2> QED
      BY <2>1, CallTyped, UnlockedIsTyped DEF TypeOK, IInv
  <1>2. Step(c)
    BY <1>1, CallTyped, UnlockedIsTyped, StepOfCall, AnsweredOwnsNothing
  <1> QED
    BY <1>1, <1>2, AnsweredOwnsNothing, StepKeepsIInv

LEMMA ItemFields ==
  ASSUME NEW kind, NEW s
  PROVE  Item(kind, s).kind = kind /\ Item(kind, s).s = s
  BY DEF Item

LEMMA WorkOf ==
  ASSUME NEW family, NEW item \in Work(family)
  PROVE  /\ item = Item(item.kind, item.s) /\ item.s \in family
         /\ item.kind \in {"task", "position", "directory"}
         /\ item.kind = "task" => item.s \in Kids
  BY DEF Work, Item

LEMMA WorkIsItems ==
  ASSUME NEW family \in SUBSET Sessions
  PROVE  Work(family) \subseteq Items
  BY DEF Work, Item, Items

(* One removal takes the item off the work, and nothing comes back. *)
LEMMA RemovalGoesOn ==
  ASSUME IInv, NEW family \in SUBSET Sessions, NEW rest, Progress(family, rest),
         NEW item \in rest, Removed(item)
  PROVE  /\ item.s \in family
         /\ files' \in [Sessions -> FileRecord] /\ \A x \in Sessions \ {item.s} : files'[x] = files[x]
         /\ tasks' \subseteq tasks /\ tasks \ tasks' \subseteq {item.s}
         /\ \A x \in Sessions :
              /\ Bare(x) => Bare(x)'
              /\ files[x].position = 0 => files'[x].position = 0
              /\ files'[x].meta \in {files[x].meta, "none"}
         /\ rest \ {item} \subseteq Work(family)
         /\ \A x \in family :
              /\ x \in tasks' => Item("task", x) \in rest \ {item}
              /\ files'[x].position # 0 => Item("position", x) \in rest \ {item}
              /\ ~Bare(x)' => Item("directory", x) \in rest \ {item}
  <1> USE Types
  <1>1. /\ rest \subseteq Work(family)
        /\ \A x \in family : /\ x \in tasks => Item("task", x) \in rest
                             /\ files[x].position # 0 => Item("position", x) \in rest
                             /\ ~Bare(x) => Item("directory", x) \in rest
    BY DEF Progress
  <1>2. PICK s \in family : /\ s = item.s /\ item = Item(item.kind, s) /\ s \in Sessions
                            /\ item.kind \in {"task", "position", "directory"}
    BY <1>1, WorkOf
  <1>3. files[s] \in FileRecord
    BY <1>2
  <1>4. CASE item.kind = "task"
    <2>1. tasks' = tasks \ {s} /\ files' = files /\ item = Item("task", s)
      BY <1>2, <1>4 DEF Removed
    <2>2. \A x \in family : /\ Item("position", x) # item /\ Item("directory", x) # item
                            /\ Item("task", x) = item => x = s
      BY <2>1, ItemFields
    <2>3. \A x \in Sessions : Bare(x)' = Bare(x)
      BY <2>1 DEF Bare
    <2> QED
      BY <1>1, <1>2, <2>1, <2>2, <2>3
  <1>5. CASE item.kind = "position"
    <2> DEFINE f == [files[s] EXCEPT !.position = 0]
    <2>1. tasks' = tasks /\ files' = [files EXCEPT ![s] = f] /\ item = Item("position", s)
      BY <1>2, <1>5 DEF Removed
    <2>2. /\ f \in FileRecord /\ f.position = 0 /\ f.meta = files[s].meta /\ f.turns = files[s].turns
          /\ f.setup = files[s].setup /\ f.edited = files[s].edited
      <3>1. files[s] \in FileRecord /\ 0 \in 0..MaxTurns
        BY <1>3, ConversationsAssumption
      <3> QED
        BY ONLY <3>1 DEF FileRecord
    <2> HIDE DEF f
    <2>3. \A x \in family : /\ Item("task", x) # item /\ Item("directory", x) # item
                            /\ Item("position", x) = item => x = s
      BY <2>1, ItemFields
    <2>4. /\ files' \in [Sessions -> FileRecord] /\ \A x \in Sessions \ {s} : files'[x] = files[x]
          /\ files'[s] = f
      BY <1>2, <2>1, <2>2
    <2>5. \A x \in Sessions : Bare(x)' = Bare(x)
      BY <1>2, <2>2, <2>4 DEF Bare
    <2>6. \A x \in Sessions : /\ files'[x].position # 0 => files[x].position # 0 /\ x # s
                              /\ files'[x].meta = files[x].meta
      BY <1>2, <2>2, <2>4
    <2> QED
      BY <1>1, <1>2, <2>1, <2>3, <2>4, <2>5, <2>6
  <1>6. CASE item.kind = "directory"
    <2> DEFINE f == [NoFiles EXCEPT !.position = files[s].position]
    <2>1. tasks' = tasks /\ files' = [files EXCEPT ![s] = f] /\ item = Item("directory", s)
      BY <1>2, <1>6 DEF Removed
    <2>2. /\ f \in FileRecord /\ f.position = files[s].position /\ f.meta = "none" /\ f.turns = 0
          /\ f.setup = 0 /\ f.edited = FALSE
      <3>1. files[s].position \in 0..MaxTurns /\ NoFiles \in FileRecord
        BY <1>3, FileFields, NothingThere
      <3>2. f \in FileRecord /\ f.position = files[s].position /\ f.meta = NoFiles.meta
            /\ f.turns = NoFiles.turns /\ f.setup = NoFiles.setup /\ f.edited = NoFiles.edited
        BY ONLY <3>1 DEF FileRecord
      <3> QED
        BY <3>2, NothingThere
    <2> HIDE DEF f
    <2>3. \A x \in family : /\ Item("task", x) # item /\ Item("position", x) # item
                            /\ Item("directory", x) = item => x = s
      BY <2>1, ItemFields
    <2>4. /\ files' \in [Sessions -> FileRecord] /\ \A x \in Sessions \ {s} : files'[x] = files[x]
          /\ files'[s] = f
      BY <1>2, <2>1, <2>2
    <2>5. Bare(s)' /\ \A x \in Sessions \ {s} : Bare(x)' = Bare(x)
      BY <1>2, <2>2, <2>4 DEF Bare
    <2>6. \A x \in Sessions : /\ files'[x].position = files[x].position
                              /\ files'[x].meta \in {files[x].meta, "none"}
      BY <1>2, <2>2, <2>4
    <2> QED
      BY <1>1, <1>2, <2>1, <2>3, <2>4, <2>5, <2>6
  <1> QED
    BY <1>2, <1>4, <1>5, <1>6

LEMMA HalfRemovalGoesOn ==
  ASSUME IInv, NEW family \in SUBSET Sessions, NEW rest, Progress(family, rest),
         NEW item \in rest, HalfRemoved(item)
  PROVE  /\ item.s \in family
         /\ files' \in [Sessions -> FileRecord] /\ \A x \in Sessions \ {item.s} : files'[x] = files[x]
         /\ tasks' = tasks
         /\ \A x \in Sessions :
              /\ Bare(x) => Bare(x)'
              /\ files[x].position = 0 => files'[x].position = 0
              /\ files'[x].meta \in {files[x].meta, "none"}
  <1> USE Types
  <1>1. PICK s \in family : s = item.s /\ s \in Sessions
    BY WorkOf DEF Progress
  <1>2. PICK f \in FileRecord :
          /\ files' = files \/ files' = [files EXCEPT ![s] = f]
          /\ f.edited = files[s].edited /\ f.turns = files[s].turns /\ f.position = files[s].position
          /\ f.meta \in {files[s].meta, "none"} /\ f.setup \in {files[s].setup, 0}
    <2> DEFINE g == [files[s] EXCEPT !.meta = "none"]
               h == [files[s] EXCEPT !.setup = 0]
    <2>1. files' = files \/ files' = [files EXCEPT ![s] = g] \/ files' = [files EXCEPT ![s] = h]
      BY <1>1 DEF HalfRemoved
    <2>2. files[s] \in FileRecord /\ 0 \in 0..2
      BY <1>1
    <2>3. g \in FileRecord /\ h \in FileRecord
      BY ONLY <2>2 DEF FileRecord
    <2>4. /\ g.edited = files[s].edited /\ g.turns = files[s].turns /\ g.position = files[s].position
          /\ g.meta = "none" /\ g.setup = files[s].setup
          /\ h.edited = files[s].edited /\ h.turns = files[s].turns /\ h.position = files[s].position
          /\ h.meta = files[s].meta /\ h.setup = 0
      BY <2>2 DEF FileRecord
    <2> HIDE DEF g, h
    <2> QED
      BY <2>1, <2>2, <2>3, <2>4
  <1>3. /\ files' \in [Sessions -> FileRecord] /\ \A x \in Sessions \ {s} : files'[x] = files[x]
        /\ files'[s] \in {files[s], f}
    BY <1>1, <1>2
  <1> QED
    BY <1>1, <1>2, <1>3 DEF Bare, HalfRemoved

LEMMA ReserveKeeps ==
  ASSUME IInv, NEW c \in Callers, Reserve(c)
  PROVE  IInv'
  <1> USE Types, NoCallIsCall DEF Reserve
  <1> DEFINE scope == call[c].scope
  <1>1. CASE call' = [call EXCEPT ![c] = NoCall] /\ Unlocked(c)
             /\ UNCHANGED <<intents, doomed, deleted, relations>>
    <2>1. CallsOK' /\ TypeOK' /\ call'[c] = NoCall
      <3>1. {creating', viewing'} \subseteq Callers \cup {None}
        BY <1>1, UnlockedIsTyped DEF IInv, TypeOK
      <3> QED
        BY <1>1, <3>1, CallTyped, UnlockedIsTyped DEF TypeOK, IInv
    <2>2. Step(c)
      BY <1>1, <2>1, CallTyped, UnlockedIsTyped, StepOfCall, AnsweredOwnsNothing
    <2> QED
      BY <2>1, <2>2, AnsweredOwnsNothing, StepKeepsIInv
  <1>2. CASE \E family \in SUBSET Sessions :
               /\ family = WithKids(scope) /\ MayReserve(family)
               /\ intents' = intents \cup {family}
               /\ doomed' = doomed \cup family
               /\ deleted' = deleted \cup family
               /\ relations' = relations \ family
               /\ \/ /\ call' = [call EXCEPT ![c].at = "remove", ![c].scope = family, ![c].rest = Work(family)]
                     /\ UNCHANGED <<creating, holder>>
                  \/ call' = [call EXCEPT ![c] = NoCall] /\ Unlocked(c)
    <2>1. PICK family \in SUBSET Sessions :
               /\ family = WithKids(scope) /\ MayReserve(family)
               /\ intents' = intents \cup {family}
               /\ doomed' = doomed \cup family
               /\ deleted' = deleted \cup family
               /\ relations' = relations \ family
               /\ \/ /\ call' = [call EXCEPT ![c].at = "remove", ![c].scope = family, ![c].rest = Work(family)]
                     /\ UNCHANGED <<creating, holder>>
                  \/ call' = [call EXCEPT ![c] = NoCall] /\ Unlocked(c)
      BY <1>2
    <2> DEFINE r == [call[c] EXCEPT !.at = "remove", !.scope = family, !.rest = Work(family)]
    <2>2. call[c] \in CallRecord /\ Work(family) \subseteq Items
      BY WorkIsItems
    <2>3. /\ r \in CallRecord /\ r.op \in {"delete", "deleteAll"} /\ r.at = "remove"
          /\ r.s = call[c].s /\ r.dest = call[c].dest /\ r.scope = family /\ r.rest = Work(family)
          /\ r.op = call[c].op
      BY <2>2 DEF CallRecord
    <2>4. \/ call' = [call EXCEPT ![c] = r] /\ UNCHANGED <<creating, holder>>
          \/ call' = [call EXCEPT ![c] = NoCall] /\ Unlocked(c)
      BY <2>1
    <2> HIDE DEF r
    <2>5. /\ CallsOK' /\ call'[c] \in {r, NoCall} /\ replay' = replay
          /\ \A o \in Callers : call'[o].op \in Handlers \cup {"idle"}
          /\ \A o \in Callers \ {c} : call'[o] = call[o]
      BY <2>3, <2>4, CallTyped
    <2>6. /\ holder' \in [Sessions -> Callers \cup {None}]
          /\ {creating', viewing'} \subseteq Callers \cup {None}
          /\ \A x \in Sessions : holder'[x] = holder[x] \/ holder[x] = c
      BY <2>4, UnlockedIsTyped DEF IInv, TypeOK
    <2>7. TypeOK'
      BY <2>1, <2>5, <2>6 DEF TypeOK, IInv
    <2>8. AimsStep(c)
      BY <2>3, <2>5, AnsweredOwnsNothing DEF AimsStep, Making
    <2>9. \A s \in family : s \in relations \/ Kept(c, s)
      BY <2>1 DEF WithKids, IInv, Own, Locked, Deleting
    <2>10. \A s \in family : FrozenBy(c, s)
      BY <2>1, <2>9 DEF MayReserve, FrozenBy
    <2>11. MemoryStep(c)
      BY <2>1, <2>6, <2>10 DEF MemoryStep
    <2>12. IntentsStep(c)
      BY <2>1 DEF IntentsStep, Intended
    <2>13. Step(c)
      BY <2>5, <2>8, <2>11, <2>12 DEF Step, FilesStep, StageStep
    <2>14. Own(c)'
      <3>1. CASE call'[c] = NoCall
        BY <3>1, AnsweredOwnsNothing
      <3>2. CASE call'[c] = r
        <4>1. Named(c)'
          BY <2>3, <3>2 DEF IInv, Own, Named
        <4>2. family \subseteq deleted' /\ tasks' = tasks /\ files' = files /\ tasks \subseteq Kids
          BY <2>1 DEF IInv, TypeOK
        <4>3. Progress(family, Work(family))'
          BY <4>2 DEF Progress, Work
        <4>4. Removing(c)'
          BY <2>3, <3>2, <4>2, <4>3 DEF Removing, Progress
        <4> QED
          BY <2>3, <3>2, <4>1, <4>4 DEF Own, Locked, Made, Making, Sending, Copying, Deleting, Views
      <3> QED
        BY <2>5, <3>1, <3>2
    <2> QED
      BY <2>5, <2>7, <2>13, <2>14, StepKeepsIInv
  <1>3. WithKids(scope) \in SUBSET Sessions
    BY DEF WithKids, CallRecord
  <1>4. PICK family \in SUBSET Sessions : family = WithKids(scope)
    BY <1>3
  <1>5. \/ /\ MayReserve(family)
           /\ intents' = intents \cup {family}
           /\ doomed' = doomed \cup family
           /\ deleted' = deleted \cup family
           /\ relations' = relations \ family
           /\ \/ /\ call' = [call EXCEPT ![c].at = "remove", ![c].scope = family, ![c].rest = Work(family)]
                 /\ UNCHANGED <<creating, holder>>
              \/ call' = [call EXCEPT ![c] = NoCall] /\ Unlocked(c)
        \/ /\ call' = [call EXCEPT ![c] = NoCall] /\ Unlocked(c)
           /\ UNCHANGED <<intents, doomed, deleted, relations>>
    BY <1>4
  <1> QED
    BY <1>1, <1>2, <1>4, <1>5

LEMMA DeleteRemovesKeeps ==
  ASSUME IInv, NEW c \in Callers, DeleteRemoves(c)
  PROVE  IInv'
  <1> USE Types, NoCallIsCall DEF DeleteRemoves
  <1>1. PICK family \in SUBSET Sessions, rest \in SUBSET Items :
          /\ family = call[c].scope /\ rest = call[c].rest
          /\ family \subseteq deleted /\ Progress(family, rest) /\ call[c] \in CallRecord
          /\ Deleting(c, "remove")
    BY DEF IInv, Own, Removing, Deleting, CallRecord
  <1>2. PICK item \in rest :
          \/ /\ Removed(item)
             /\ call' = [call EXCEPT ![c].rest = rest \ {item}]
             /\ UNCHANGED <<holder, creating>>
          \/ /\ HalfRemoved(item)
             /\ call' = [call EXCEPT ![c] = NoCall] /\ Unlocked(c)
    BY <1>1 DEF Due
  <1> DEFINE r == [call[c] EXCEPT !.rest = rest \ {item}]
  <1>3. /\ r \in CallRecord /\ r.op = call[c].op /\ r.at = "remove" /\ r.s = call[c].s
        /\ r.dest = call[c].dest /\ r.scope = family /\ r.rest = rest \ {item}
    BY <1>1 DEF CallRecord
  <1>4. \/ Removed(item) /\ call' = [call EXCEPT ![c] = r] /\ UNCHANGED <<holder, creating>>
        \/ HalfRemoved(item) /\ call' = [call EXCEPT ![c] = NoCall] /\ Unlocked(c)
    BY <1>2
  <1> HIDE DEF r
  <1>5. /\ item.s \in family
        /\ files' \in [Sessions -> FileRecord] /\ \A x \in Sessions \ {item.s} : files'[x] = files[x]
        /\ tasks' \subseteq tasks /\ tasks \ tasks' \subseteq {item.s}
        /\ \A x \in Sessions :
              /\ Bare(x) => Bare(x)'
              /\ files[x].position = 0 => files'[x].position = 0
              /\ files'[x].meta \in {files[x].meta, "none"}
    <2>1. /\ IInv /\ family \in SUBSET Sessions /\ Progress(family, rest) /\ item \in rest
          /\ Removed(item) \/ HalfRemoved(item)
      BY <1>1, <1>2
    <2>2. CASE Removed(item)
      BY ONLY <2>1, <2>2, RemovalGoesOn
    <2>3. CASE HalfRemoved(item)
      BY ONLY <2>1, <2>3, HalfRemovalGoesOn
    <2> QED
      BY <2>1, <2>2, <2>3
  <1>6. /\ CallsOK' /\ call'[c] \in {r, NoCall} /\ replay' = replay
        /\ \A o \in Callers : call'[o].op \in Handlers \cup {"idle"}
        /\ \A o \in Callers \ {c} : call'[o] = call[o]
    BY <1>3, <1>4, CallTyped
  <1>7. /\ holder' \in [Sessions -> Callers \cup {None}]
        /\ {creating', viewing'} \subseteq Callers \cup {None}
        /\ \A x \in Sessions : holder'[x] = holder[x] \/ holder[x] = c
    BY <1>4, UnlockedIsTyped DEF IInv, TypeOK
  <1>8. TypeOK'
    BY <1>5, <1>6, <1>7 DEF TypeOK, IInv, FileRecord
  <1>9. AimsStep(c)
    BY <1>1, <1>3, <1>6, AnsweredOwnsNothing DEF AimsStep, Making, Deleting
  <1>10. FilesStep(c)
    <2>1. \A x \in Sessions : files'[x] = files[x] \/ Shrinks(x)
      BY <1>1, <1>5 DEF Shrinks
    <2> QED
      BY <2>1 DEF FilesStep
  <1>11. MemoryStep(c)
    BY <1>1, <1>5, <1>7 DEF MemoryStep
  <1>12. Step(c)
    BY <1>6, <1>9, <1>10, <1>11 DEF Step, IntentsStep, StageStep
  <1>13. Own(c)'
    <2>1. CASE call'[c] = NoCall
      BY <2>1, AnsweredOwnsNothing
    <2>2. CASE Removed(item) /\ call'[c] = r
      <3>1. Named(c)'
        BY <1>3, <2>2 DEF IInv, Own, Named
      <3>2. /\ rest \ {item} \subseteq Work(family)
            /\ \A x \in family :
                 /\ x \in tasks' => Item("task", x) \in rest \ {item}
                 /\ files'[x].position # 0 => Item("position", x) \in rest \ {item}
                 /\ ~Bare(x)' => Item("directory", x) \in rest \ {item}
        <4>1. /\ IInv /\ family \in SUBSET Sessions /\ Progress(family, rest) /\ item \in rest
              /\ Removed(item)
          BY <1>1, <1>2, <2>2
        <4> QED
          BY ONLY <4>1, RemovalGoesOn
      <3>3. Removing(c)'
        BY <1>1, <1>3, <2>2, <3>2 DEF Removing, Progress, Bare
      <3> QED
        BY <1>1, <1>3, <2>2, <3>1, <3>3 DEF Own, Locked, Made, Making, Sending, Copying, Deleting, Views
    <2> QED
      BY <1>4, <1>6, <2>1, <2>2
  <1> QED
    BY <1>6, <1>8, <1>12, <1>13, StepKeepsIInv

LEMMA DeleteFinishesKeeps ==
  ASSUME IInv, NEW c \in Callers, DeleteFinishes(c)
  PROVE  IInv'
  <1> USE Types, NoCallIsCall DEF DeleteFinishes
  <1>1. Deleting(c, "remove") /\ call[c].rest = {}
    BY DEF Deleting, IntentGoes
  <1>2. IntentsStep(c)
    BY <1>1 DEF IntentsStep
  <1>3. /\ intents' \subseteq intents /\ cached' \subseteq cached
    OBVIOUS
  <1>4. CASE call' = [call EXCEPT ![c] = NoCall] /\ Unlocked(c)
    <2>1. CallsOK' /\ TypeOK' /\ call'[c] = NoCall
      <3>1. {creating', viewing'} \subseteq Callers \cup {None}
        BY <1>4, UnlockedIsTyped DEF IInv, TypeOK
      <3> QED
        BY <1>3, <1>4, <3>1, CallTyped, UnlockedIsTyped DEF TypeOK, IInv
    <2>2. MemoryStep(c) /\ \A o \in Callers \ {c} : call'[o] = call[o]
      BY <1>4, CallTyped, UnlockedIsTyped DEF MemoryStep
    <2>3. Step(c)
      BY <1>2, <2>1, <2>2, AnsweredOwnsNothing DEF Step, FilesStep, StageStep
    <2> QED
      BY <2>1, <2>3, AnsweredOwnsNothing, StepKeepsIInv
  <1>5. CASE call' = [call EXCEPT ![c].at = "forget"] /\ UNCHANGED <<holder, creating>>
    <2>1. /\ CallsOK' /\ \A o \in Callers : call'[o].op \in Handlers \cup {"idle"}
          /\ \A o \in Callers \ {c} : call'[o] = call[o]
          /\ call'[c].at = "forget" /\ call'[c].op = call[c].op /\ call'[c].s = call[c].s
          /\ call'[c].dest = call[c].dest
      BY <1>5, OnwardTyped
    <2>2. TypeOK'
      BY <1>3, <1>5, <2>1 DEF TypeOK, IInv
    <2>3. AimsStep(c)
      BY <2>1 DEF AimsStep, Making
    <2>4. Step(c)
      BY <1>2, <1>5, <2>1, <2>3 DEF Step, MemoryStep, FilesStep, StageStep
    <2>5. Own(c)'
      <3>1. Named(c)'
        BY <2>1 DEF Named, IInv, Own
      <3> QED
        BY <2>1, <3>1 DEF Own, Locked, Made, Making, Sending, Copying, Removing, Deleting, Views
    <2> QED
      BY <2>1, <2>2, <2>4, <2>5, StepKeepsIInv
  <1> QED
    BY <1>4, <1>5

(* The steps of runs. *)
LEMMA StageAlone ==
  ASSUME IInv, process = "up", StageStep, stage' \in [Sessions -> {"idle", "prepare", "on", "ended"}],
         UNCHANGED <<diskVars, relations, deleted, cached, lockVars, call, processVars, historyVars, calls>>
  PROVE  IInv'
  <1>1. TypeOK' /\ CallsOK'
    BY DEF IInv, TypeOK, CallsOK
  <1>2. AimsStep(None)
    BY Types DEF AimsStep
  <1>3. Step(None)
    BY <1>2, Types, StepOfFiles DEF FilesStep
  <1> QED
    BY <1>1, <1>3, Types, StepKeepsIInv

LEMMA KidStartsKeeps ==
  ASSUME IInv, NEW k \in Kids, KidStarts(k)
  PROVE  IInv'
  <1> USE Types DEF KidStarts
  <1>1. StageStep
    BY DEF StageStep, AtWork
  <1> QED
    BY <1>1, StageAlone

LEMMA RunLeavesKeeps ==
  ASSUME IInv, NEW s \in Sessions, RunLeaves(s)
  PROVE  IInv'
  <1> USE Types DEF RunLeaves
  <1>1. StageStep
    BY DEF StageStep
  <1> QED
    BY <1>1, StageAlone

LEMMA RunReleasedKeeps ==
  ASSUME IInv, NEW s \in Sessions, RunReleased(s)
  PROVE  IInv'
  <1> USE Types DEF RunReleased
  <1>1. StageStep
    BY DEF StageStep
  <1> QED
    BY <1>1, StageAlone

LEMMA RunPromptKeeps ==
  ASSUME IInv, NEW s \in Sessions, RunPrompt(s)
  PROVE  IInv'
  <1> USE Types DEF RunPrompt
  <1> DEFINE n == files[s].turns + 1
  <1>1. /\ AtWork(s) /\ files[s].turns < MaxTurns /\ files[s] \in FileRecord
        /\ files[s].turns \in Nat
    BY FileFields DEF IInv, Files, Running, Active
  <1>2. n \in 0..MaxTurns /\ n \in Turns
    BY <1>1 DEF Turns
  <1>3. PICK f \in FileRecord :
          /\ files' = [files EXCEPT ![s] = f]
          /\ f.meta = files[s].meta /\ f.setup = files[s].setup /\ f.turns = n
          /\ \A t \in Turns : f.runs[t] = files[s].runs[t] \/ t = n
    <2> DEFINE g == [files[s] EXCEPT !.turns = n, !.runs[n] = "running"]
               h == [files[s] EXCEPT !.turns = n]
    <2>1. files' = [files EXCEPT ![s] = g] \/ files' = [files EXCEPT ![s] = h]
      BY <1>1
    <2>2. files[s] \in FileRecord /\ n \in 0..MaxTurns /\ n \in Turns /\ "running" \in Statuses
      BY <1>1, <1>2 DEF Statuses
    <2> HIDE DEF n
    <2>3. /\ g \in FileRecord /\ g.meta = files[s].meta /\ g.setup = files[s].setup /\ g.turns = n
          /\ \A t \in Turns : g.runs[t] = files[s].runs[t] \/ t = n
      BY ONLY <2>2 DEF FileRecord
    <2>4. /\ h \in FileRecord /\ h.meta = files[s].meta /\ h.setup = files[s].setup /\ h.turns = n
          /\ \A t \in Turns : h.runs[t] = files[s].runs[t]
      BY ONLY <2>2 DEF FileRecord
    <2> HIDE DEF g, h
    <2> QED
      BY <2>1, <2>3, <2>4
  <1>4. /\ files' \in [Sessions -> FileRecord] /\ files'[s] = f
        /\ \A x \in Sessions \ {s} : files'[x] = files[x]
    BY <1>3
  <1>5. /\ stage' \in [Sessions -> {"idle", "prepare", "on", "ended"}]
        /\ stage'[s] \in {"on", "idle"} /\ \A x \in Sessions \ {s} : stage'[x] = stage[x]
    OBVIOUS
  <1>6. Grows(s)
    BY <1>1, <1>3, <1>4, <1>5 DEF Grows
  <1>7. Tidy(s) => Tidy(s)'
    <2>1. promised'[s] = promised[s] /\ promised[s] \in Nat
      BY DEF Turns
    <2>2. s \in Roots => files[s].setup # 0
      BY <1>1 DEF AtWork, Visible
    <2> QED
      BY <1>1, <1>3, <1>4, <2>1, <2>2 DEF Tidy, Turns
  <1>8. FilesStep(None)
    BY <1>4, <1>6, <1>7 DEF FilesStep
  <1>9. StageStep
    BY <1>5 DEF StageStep, Active
  <1>10. TypeOK' /\ CallsOK'
    BY <1>4, <1>5 DEF IInv, TypeOK, CallsOK, FileRecord
  <1>11. Step(None)
    BY <1>8, <1>9, StepOfFiles DEF AimsStep
  <1> QED
    BY <1>10, <1>11, StepKeepsIInv

LEMMA RunEndsKeeps ==
  ASSUME IInv, NEW s \in Sessions, RunEnds(s)
  PROVE  IInv'
  <1> USE Types DEF RunEnds
  <1>1. PICK n : n = files[s].turns
    OBVIOUS
  <1>2. AtWork(s) /\ files[s] \in FileRecord /\ n \in Nat /\ n \in 0..MaxTurns
    BY <1>1, FileFields DEF IInv, Files, Running, Active
  <1> DEFINE f == [files[s] EXCEPT !.runs[n] = "ended"]
  <1>3. files' = files \/ files' = [files EXCEPT ![s] = f]
    BY <1>1
  <1>4. /\ f \in FileRecord /\ f.meta = files[s].meta /\ f.setup = files[s].setup /\ f.turns = n
        /\ \A t \in Turns : f.runs[t] = files[s].runs[t] \/ t = n
    <2>1. "ended" \in Statuses
      BY DEF Statuses
    <2> QED
      BY ONLY <1>1, <1>2, <2>1 DEF FileRecord
  <1> HIDE DEF f
  <1>5. files'[s] = f => Grows(s) /\ (Tidy(s) => Tidy(s)')
    <2>1. promised'[s] = promised[s]
      OBVIOUS
    <2> QED
      BY <1>1, <1>2, <1>4, <2>1 DEF Grows, Tidy, Turns
  <1>6. FilesStep(None) /\ files' \in [Sessions -> FileRecord]
    BY <1>3, <1>4, <1>5, OneFile
  <1>7. StageStep /\ stage' \in [Sessions -> {"idle", "prepare", "on", "ended"}]
    BY DEF StageStep
  <1>8. TypeOK' /\ CallsOK'
    BY <1>6, <1>7 DEF IInv, TypeOK, CallsOK, FileRecord
  <1>9. Step(None)
    BY <1>6, <1>7, StepOfFiles DEF AimsStep
  <1> QED
    BY <1>8, <1>9, StepKeepsIInv

-----------------------------------------------------------------------------
(* The end of the process, and the replay of the deletions it left. *)
LEMMA CrashKeeps ==
  ASSUME IInv, Crash
  PROVE  IInv'
  <1> USE Types, NoCallIsCall DEF Crash
  <1>1. TypeOK' /\ CallsOK'
    <2>1. crashes' \in 0..MaxCrashes
      BY ConversationsAssumption DEF IInv, TypeOK
    <2>2. \A c \in Callers : call'[c] = NoCall /\ NoCall.op = "idle"
      BY DEF NoCall
    <2>3. {creating', viewing'} \subseteq Callers \cup {None}
      OBVIOUS
    <2> QED
      BY <2>1, <2>2, <2>3 DEF IInv, TypeOK, CallsOK
  <1>2. Down' /\ Replaying'
    BY DEF Down, Replaying
  <1>3. Doom'
    BY DEF IInv, Doom, Intended
  <1>4. \A c \in Callers : Own(c)'
    BY AnsweredOwnsNothing
  <1>5. \A c \in Callers, o \in Callers : Apart(c, o)'
    BY DEF Apart, Making, NoCall
  <1>6. Files'
    <2>1. \A r \in Roots \ used' : Fresh(r)'
      BY DEF IInv, Files, Fresh
    <2>2. \A s \in Sessions : Running(s)'
      BY DEF Running, Active
    <2>3. \A x \in Kids : Hidden(x)'
      BY DEF IInv, Files, Hidden
    <2>4. \A s \in doomed' : Buried(s)'
      BY DEF IInv, Files, Buried, Bare, Intended
    <2>5. \A s \in Sessions \ doomed' : Tidy(s)'
      BY DEF IInv, Files, Tidy
    <2> QED
      BY <2>1, <2>2, <2>3, <2>4, <2>5 DEF Files
  <1> QED
    BY <1>1, <1>2, <1>3, <1>4, <1>5, <1>6 DEF IInv

(* While deletions are replayed, only doomed sessions are written, and     *)
(* they only shrink.                                                       *)
LEMMA ReplayKeeps ==
  ASSUME IInv, process = "recovering",
         UNCHANGED <<memoryVars, lockVars, call, process, crashes, historyVars, calls>>,
         replay' \in CallRecord, Replaying',
         files' \in [Sessions -> FileRecord], tasks' \subseteq tasks, intents' \subseteq intents,
         tasks \ tasks' \subseteq doomed,
         \A s \in Sessions \ doomed : files'[s] = files[s],
         \A s \in Sessions : /\ Bare(s) => Bare(s)'
                             /\ files[s].position = 0 => files'[s].position = 0
                             /\ files'[s].meta \in {files[s].meta, "none"},
         \A family \in intents \ intents' : \A s \in family :
            Bare(s)' /\ files'[s].position = 0 /\ s \notin tasks'
  PROVE  IInv'
  <1> USE Types
  <1>1. TypeOK' /\ CallsOK'
    BY DEF IInv, TypeOK, CallsOK, FileRecord
  <1>2. Down'
    BY DEF IInv, Down
  <1>3. Doom'
    BY DEF IInv, Doom, Intended
  <1>4. \A c \in Callers : call'[c] = NoCall
    BY DEF IInv, Down
  <1>5. \A c \in Callers : Own(c)'
    BY <1>4, AnsweredOwnsNothing
  <1>6. \A c \in Callers, o \in Callers : Apart(c, o)'
    BY <1>4 DEF Apart, Making, NoCall
  <1>7. Files'
    <2>1. \A r \in Roots \ used' : Fresh(r)'
      BY DEF IInv, Files, Fresh
    <2>2. \A s \in Sessions : Running(s)'
      BY DEF IInv, Down, Running, Active
    <2>3. \A x \in Kids : Hidden(x)'
      BY DEF IInv, Files, Hidden
    <2>4. \A s \in doomed' : Buried(s)'
      <3> SUFFICES ASSUME NEW s \in doomed
                   PROVE  Buried(s)'
        OBVIOUS
      <3>1. CASE Intended(s) /\ ~Intended(s)'
        BY <3>1 DEF Intended, Buried
      <3>2. CASE Intended(s)'
        BY <3>2 DEF Buried
      <3>3. CASE ~Intended(s)
        <4>1. Bare(s) /\ files[s].position = 0 /\ s \notin tasks
          BY <3>3 DEF IInv, Files, Buried
        <4> QED
          BY <4>1 DEF Buried
      <3> QED
        BY <3>1, <3>2, <3>3
    <2>5. \A s \in Sessions \ doomed' : Tidy(s)'
      BY DEF IInv, Files, Tidy
    <2> QED
      BY <2>1, <2>2, <2>3, <2>4, <2>5 DEF Files
  <1> QED
    BY <1>1, <1>2, <1>3, <1>5, <1>6, <1>7 DEF IInv

LEMMA RecoverNextKeeps ==
  ASSUME IInv, RecoverNext
  PROVE  IInv'
  <1> USE Types, NoCallIsCall DEF RecoverNext
  <1>1. PICK family \in intents : replay' = [NoCall EXCEPT !.scope = family, !.rest = Work(family)]
    OBVIOUS
  <1>2. family \in SUBSET Sessions /\ family \subseteq doomed /\ Work(family) \in SUBSET Items
    BY WorkIsItems DEF IInv, TypeOK, Doom
  <1>3. /\ replay' \in CallRecord /\ replay'.scope = family /\ replay'.rest = Work(family)
    BY ONLY <1>1, <1>2, NoCallIsCall DEF CallRecord
  <1>4. Progress(family, Work(family))'
    BY <1>2 DEF Progress, Work, IInv, TypeOK
  <1>5. Replaying'
    BY <1>2, <1>3, <1>4 DEF Replaying, Progress
  <1> QED
    BY <1>3, <1>5, ReplayKeeps DEF Bare

LEMMA RecoverRemovesKeeps ==
  ASSUME IInv, RecoverRemoves
  PROVE  IInv'
  <1> USE Types, NoCallIsCall DEF RecoverRemoves
  <1>1. PICK family \in SUBSET Sessions, rest \in SUBSET Items :
          family = replay.scope /\ rest = replay.rest /\ replay \in CallRecord
    BY DEF CallRecord
  <1>2. PICK item \in rest :
          \/ Removed(item) /\ replay' = [replay EXCEPT !.rest = rest \ {item}]
          \/ HalfRemoved(item) /\ replay' = NoCall
    BY <1>1 DEF Due
  <1>3. family \subseteq doomed /\ Progress(family, rest)
    BY <1>1, <1>2 DEF IInv, Replaying, NoCall
  <1>4. CASE Removed(item) /\ replay' = [replay EXCEPT !.rest = rest \ {item}]
    <2>1. IInv /\ family \in SUBSET Sessions /\ Progress(family, rest) /\ item \in rest /\ Removed(item)
      BY <1>1, <1>2, <1>3, <1>4
    <2>2. /\ item.s \in family
          /\ files' \in [Sessions -> FileRecord] /\ \A x \in Sessions \ {item.s} : files'[x] = files[x]
          /\ tasks' \subseteq tasks /\ tasks \ tasks' \subseteq {item.s}
          /\ \A x \in Sessions :
                /\ Bare(x) => Bare(x)'
                /\ files[x].position = 0 => files'[x].position = 0
                /\ files'[x].meta \in {files[x].meta, "none"}
          /\ rest \ {item} \subseteq Work(family)
          /\ \A x \in family :
               /\ x \in tasks' => Item("task", x) \in rest \ {item}
               /\ files'[x].position # 0 => Item("position", x) \in rest \ {item}
               /\ ~Bare(x)' => Item("directory", x) \in rest \ {item}
      BY ONLY <2>1, RemovalGoesOn
    <2>3. replay' \in CallRecord /\ replay'.scope = family /\ replay'.rest = rest \ {item}
      BY ONLY <1>1, <1>4 DEF CallRecord
    <2>4. Replaying'
      BY <1>3, <2>2, <2>3 DEF Replaying, Progress, Bare
    <2>5. \A s \in Sessions \ doomed : files'[s] = files[s]
      BY <1>3, <2>2
    <2> QED
      BY <1>3, <2>2, <2>3, <2>4, <2>5, ReplayKeeps
  <1>5. CASE HalfRemoved(item) /\ replay' = NoCall
    <2>1. IInv /\ family \in SUBSET Sessions /\ Progress(family, rest) /\ item \in rest /\ HalfRemoved(item)
      BY <1>1, <1>2, <1>3, <1>5
    <2>2. /\ item.s \in family
          /\ files' \in [Sessions -> FileRecord] /\ \A x \in Sessions \ {item.s} : files'[x] = files[x]
          /\ tasks' = tasks
          /\ \A x \in Sessions :
                /\ Bare(x) => Bare(x)'
                /\ files[x].position = 0 => files'[x].position = 0
                /\ files'[x].meta \in {files[x].meta, "none"}
      BY ONLY <2>1, HalfRemovalGoesOn
    <2>3. Replaying' /\ replay' \in CallRecord
      BY <1>5 DEF Replaying
    <2>4. \A s \in Sessions \ doomed : files'[s] = files[s]
      BY <1>3, <2>2
    <2> QED
      BY <1>3, <2>2, <2>3, <2>4, ReplayKeeps
  <1> QED
    BY <1>2, <1>4, <1>5

LEMMA RecoverFinishesKeeps ==
  ASSUME IInv, RecoverFinishes
  PROVE  IInv'
  <1> USE Types, NoCallIsCall DEF RecoverFinishes
  <1>1. replay.rest = {} /\ Progress(replay.scope, {})
    BY DEF IntentGoes, IInv, Replaying, NoCall
  <1>2. \A s \in replay.scope : Bare(s) /\ files[s].position = 0 /\ s \notin tasks
    BY <1>1 DEF Progress
  <1>3. Replaying'
    BY DEF Replaying
  <1>4. \A s \in Sessions : Bare(s)' = Bare(s)
    BY DEF Bare
  <1>5. \A family \in intents \ intents' : family = replay.scope
    OBVIOUS
  <1>6. replay.scope \subseteq Sessions
    BY DEF CallRecord
  <1> QED
    BY <1>2, <1>3, <1>4, <1>5, <1>6, ReplayKeeps

LEMMA OpenedKeeps ==
  ASSUME IInv, Opened
  PROVE  IInv'
  <1> USE Types, NoCallIsCall DEF Opened
  <1>1. \A s \in doomed : Bare(s) /\ files[s].position = 0 /\ s \notin tasks
    BY DEF MayOpen, IInv, Files, Buried, Intended
  <1>2. TypeOK' /\ CallsOK' /\ Down' /\ Replaying'
    BY DEF IInv, TypeOK, CallsOK, Down, Replaying
  <1>3. Doom'
    BY <1>1 DEF IInv, Doom, Down, MayOpen, Intended
  <1>4. \A c \in Callers : call'[c] = NoCall
    BY DEF IInv, Down
  <1>5. \A c \in Callers : Own(c)'
    BY <1>4, AnsweredOwnsNothing
  <1>6. \A c \in Callers, o \in Callers : Apart(c, o)'
    BY <1>4 DEF Apart, Making, NoCall
  <1>7. Files'
    <2>1. \A r \in Roots \ used' : Fresh(r)'
      BY DEF IInv, Files, Fresh
    <2>2. \A s \in Sessions : Running(s)'
      BY DEF IInv, Down, Running, Active
    <2>3. \A x \in Kids : Hidden(x)'
      BY <1>1 DEF IInv, Files, Hidden, Bare
    <2>4. \A s \in doomed' : Buried(s)'
      BY <1>1 DEF Buried, Bare
    <2>5. \A s \in Sessions \ doomed' : Tidy(s)'
      BY DEF IInv, Files, Tidy
    <2> QED
      BY <2>1, <2>2, <2>3, <2>4, <2>5 DEF Files
  <1> QED
    BY <1>2, <1>3, <1>5, <1>6, <1>7 DEF IInv

-----------------------------------------------------------------------------
LEMMA InitIInv == Init => IInv
  <1> SUFFICES ASSUME Init PROVE IInv
    OBVIOUS
  <1> USE ConversationsAssumption, NoCallIsCall DEF Init
  <1>1. NoFiles \in FileRecord /\ Spoken \in FileRecord
    <2>1. NoFiles \in FileRecord
      BY DEF NoFiles, FileRecord, NoRuns, Turns, Statuses
    <2>2. 1 \in Turns /\ 1 \in 0..MaxTurns /\ 1 \in 0..2 /\ "ended" \in Statuses
      BY DEF Turns, Statuses
    <2>3. Spoken \in FileRecord
      BY ONLY <2>1, <2>2 DEF Spoken, FileRecord
    <2> QED
      BY <2>1, <2>3
  <1>2. /\ NoFiles.meta = "none" /\ NoFiles.turns = 0 /\ NoFiles.runs = NoRuns
        /\ Spoken.meta = "open" /\ Spoken.turns = 1 /\ Spoken.setup = 1
        /\ \A t \in Turns : Spoken.runs[t] = (IF t = 1 THEN "ended" ELSE "none")
        /\ \A t \in Turns : NoRuns[t] = "none"
    BY DEF NoFiles, Spoken, NoRuns
  <1>3. /\ files \in [Sessions -> FileRecord]
        /\ \A s \in Sessions : files[s] = IF s = First \/ (s \in Kids /\ Mother[s] = First) THEN Spoken
                                          ELSE NoFiles
    BY <1>1
  <1> HIDE DEF NoFiles, Spoken
  <1>4. First \in Sessions /\ Roots \subseteq Sessions /\ Kids \subseteq Sessions
    BY DEF Sessions
  <1>5. TypeOK /\ CallsOK
    <2>1. \A c \in Callers : call[c] = NoCall /\ NoCall.op = "idle"
      BY DEF NoCall
    <2> QED
      BY <1>3, <1>4, <2>1 DEF TypeOK, CallsOK, FileRecord
  <1>6. Down /\ Doom /\ Replaying
    BY DEF Down, Doom, Replaying
  <1>7. \A c \in Callers : Own(c)
    BY DEF NoCall, Own, Named, Locked, Made, Removing, Views, Making, Sending, Copying, Deleting
  <1>8. \A c \in Callers, o \in Callers : Apart(c, o)
    BY DEF Apart, Making, NoCall
  <1>9. Files
    <2>1. \A r \in Roots \ used : Fresh(r)
      BY <1>3, <1>4 DEF Fresh
    <2>2. \A s \in Sessions : Running(s)
      BY DEF Running, Active
    <2>3. \A x \in Kids : Hidden(x)
      BY <1>2, <1>3, <1>4 DEF Hidden
    <2>4. \A s \in Sessions \ doomed : Tidy(s)
      BY <1>2, <1>3 DEF Tidy, Turns
    <2> QED
      BY <2>1, <2>2, <2>3, <2>4 DEF Files
  <1> QED
    BY <1>5, <1>6, <1>7, <1>8, <1>9 DEF IInv

LEMMA NextKeepsIInv == IInv /\ [Next]_vars => IInv'
  <1> SUFFICES ASSUME IInv, [Next]_vars PROVE IInv'
    OBVIOUS
  <1>1. ASSUME NEW c \in Callers,
               \/ Request(c) \/ Refused(c) \/ ChangeMeta(c) \/ MarkRead(c)
               \/ SendLocked(c) \/ SteerAnswered(c) \/ SaveSettings(c) \/ StartRun(c)
               \/ ViewReads(c) \/ ViewSaves(c)
        PROVE  IInv'
    BY <1>1, RequestKeeps, RefusedKeeps, ChangeMetaKeeps, MarkReadKeeps, SendLockedKeeps,
       SteerAnsweredKeeps, SaveSettingsKeeps, StartRunKeeps, ViewReadsKeeps, ViewSavesKeeps
  <1>2. ASSUME NEW c \in Callers,
               \/ ForkLocked(c) \/ ForkSettings(c) \/ ForkLedger(c) \/ ForkMeta(c) \/ ForkRecords(c)
               \/ CreateLists(c) \/ CreateMeta(c) \/ CreateSettings(c)
        PROVE  IInv'
    BY <1>2, ForkLockedKeeps, ForkSettingsKeeps, ForkLedgerKeeps, ForkMetaKeeps, ForkRecordsKeeps,
       CreateListsKeeps, CreateMetaKeeps, CreateSettingsKeeps
  <1>3. ASSUME NEW c \in Callers,
               \/ DeleteLocks(c) \/ Reserve(c) \/ DeleteRemoves(c) \/ DeleteFinishes(c)
               \/ DeleteForgets(c)
        PROVE  IInv'
    BY <1>3, DeleteLocksKeeps, ReserveKeeps, DeleteRemovesKeeps, DeleteFinishesKeeps, DeleteForgetsKeeps
  <1>4. ASSUME NEW s \in Sessions, RunPrompt(s) \/ RunLeaves(s) \/ RunEnds(s) \/ RunReleased(s)
        PROVE  IInv'
    BY <1>4, RunPromptKeeps, RunLeavesKeeps, RunEndsKeeps, RunReleasedKeeps
  <1>5. ASSUME NEW k \in Kids, KidStarts(k)
        PROVE  IInv'
    BY <1>5, KidStartsKeeps
  <1>6. CASE Crash \/ RecoverNext \/ RecoverRemoves \/ RecoverFinishes \/ Opened
    BY <1>6, CrashKeeps, RecoverNextKeeps, RecoverRemovesKeeps, RecoverFinishesKeeps, OpenedKeeps
  <1>7. CASE UNCHANGED vars
    <2>1. /\ TypeOK' = TypeOK /\ CallsOK' = CallsOK /\ Down' = Down /\ Doom' = Doom /\ Replaying' = Replaying
      BY <1>7 DEF vars, TypeOK, CallsOK, Down, Doom, Intended, Replaying, Progress, Bare
    <2>2. Files' = Files
      BY <1>7 DEF vars, Files, Fresh, Running, Active, AtWork, Visible, Hidden, Buried, Intended, Bare, Tidy
    <2>3. \A c \in Callers : Own(c)' = Own(c)
      BY <1>7 DEF vars, Own, Named, Locked, Made, Removing, Views, Sending, Copying, Deleting, Making,
                  Kept, Visible, Unseen, Progress, Bare
    <2>4. \A c \in Callers, o \in Callers : Apart(c, o)' = Apart(c, o)
      BY <1>7 DEF vars, Apart, Making
    <2> QED
      BY <2>1, <2>2, <2>3, <2>4 DEF IInv
  <1> QED
    BY <1>1, <1>2, <1>3, <1>4, <1>5, <1>6, <1>7 DEF Next

LEMMA IInvHolds == Spec => []IInv
  BY InitIInv, NextKeepsIInv, PTL DEF Spec

-----------------------------------------------------------------------------
(* The types of everything on disk, in memory and under way: no file of a  *)
(* session, lock or history leaves what store.go, records.go and reading.go *)
(* can write.                                                              *)
THEOREM TypeOKHolds == Spec => []TypeOK
  <1>1. IInv => TypeOK
    BY DEF IInv
  <1> QED
    BY <1>1, IInvHolds, PTL

LEMMA BareIsNothing ==
  ASSUME IInv, NEW s \in Sessions, Bare(s), files[s].position = 0
  PROVE  [files[s] EXCEPT !.runs = NoRuns] = NoFiles
  <1>1. files[s] \in FileRecord
    BY Types
  <1> QED
    <2>1. PICK f \in FileRecord : f = files[s]
      BY <1>1
    <2>2. /\ f.meta = "none" /\ f.edited = FALSE /\ f.setup = 0 /\ f.turns = 0 /\ f.position = 0
      BY <2>1 DEF Bare
    <2>3. [f EXCEPT !.runs = NoRuns] = [meta |-> f.meta, edited |-> f.edited, setup |-> f.setup,
                                        turns |-> f.turns, runs |-> NoRuns, position |-> f.position]
      BY DEF FileRecord
    <2>4. [f EXCEPT !.runs = NoRuns] = NoFiles
      BY <2>2, <2>3 DEF NoFiles
    <2> QED
      BY <2>1, <2>4

(* What a deletion has taken does not come back, for any family, any       *)
(* number of requests and of ends of the process at any of the removals    *)
(* (deletion.go finishDeletion and ResumeDeletions, subagents/delete.go):  *)
(* once the intent is gone nothing of the family is left, while it is      *)
(* there no handler finds one of its sessions, and a child is never a      *)
(* conversation of its own.                                                *)
THEOREM NothingComesBackHolds == Spec => []NothingComesBack
  <1>1. IInv => NothingComesBack
    <2> SUFFICES ASSUME IInv PROVE NothingComesBack
      OBVIOUS
    <2>1. ASSUME NEW s \in doomed, ~Intended(s)
          PROVE  [files[s] EXCEPT !.runs = NoRuns] = NoFiles /\ s \notin tasks
      <3>1. Bare(s) /\ files[s].position = 0 /\ s \notin tasks /\ s \in Sessions
        BY <2>1, Types DEF IInv, Files, Buried
      <3> QED
        BY <3>1, BareIsNothing
    <2> QED
      BY <2>1, NotFound DEF NothingComesBack
  <1> QED
    BY <1>1, IInvHolds, PTL

(* A conversation that can be listed has its settings once something was   *)
(* said, the whole of the history its fork was asked for, and no record of *)
(* a turn its ledger does not have, wherever the writes of                 *)
(* session/store.go, service.go and records.go stopped.                    *)
THEOREM WholeConversationsHolds == Spec => []WholeConversations
  <1>1. IInv => WholeConversations
    <2> SUFFICES ASSUME IInv, NEW s \in Roots, files[s].meta # "none", ~Intended(s)
                 PROVE  /\ files[s].turns > 0 => files[s].setup # 0
                        /\ files[s].turns >= promised[s]
                        /\ \A t \in Turns : files[s].runs[t] # "none" => t <= files[s].turns
      BY DEF WholeConversations
    <2>1. s \notin doomed /\ s \in Sessions
      BY Types DEF IInv, Files, Buried, Bare
    <2> QED
      BY <2>1 DEF IInv, Files, Tidy
  <1> QED
    BY <1>1, IInvHolds, PTL

(* Whatever happens between the steps of Send and CallCommand, a run       *)
(* begins only in a conversation that is there, open and not being deleted *)
(* (service.go Send, CallCommand; run.go Start): the lock is what keeps    *)
(* it so between the look and the start.                                   *)
THEOREM StartsOnlyInOpenHolds == Spec => StartsOnlyInOpen
  <1>1. IInv /\ [Next]_vars =>
          [\A s \in Roots : stage[s] = "idle" /\ stage'[s] = "prepare" =>
             Visible(s) /\ files[s].meta = "open"]_vars
    <2> SUFFICES ASSUME IInv, Next, NEW s \in Roots, stage[s] = "idle", stage'[s] = "prepare"
                 PROVE  Visible(s) /\ files[s].meta = "open"
      OBVIOUS
    <2> USE Types
    <2>1. ASSUME NEW c \in Callers, StartRun(c)
          PROVE  Visible(s) /\ files[s].meta = "open"
      <3>1. s = call[c].s
        BY <2>1 DEF StartRun
      <3> QED
        BY <2>1, <3>1 DEF StartRun, IInv, Own, Locked, Sending, Kept
    <2>2. ASSUME NEW k \in Kids, KidStarts(k)
          PROVE  Visible(s) /\ files[s].meta = "open"
      BY <2>2 DEF KidStarts
    <2>3. ASSUME NEW x \in Sessions, RunPrompt(x) \/ RunLeaves(x) \/ RunEnds(x) \/ RunReleased(x)
          PROVE  FALSE
      BY <2>3 DEF RunPrompt, RunLeaves, RunEnds, RunReleased
    <2>4. CASE Crash \/ RecoverNext \/ RecoverRemoves \/ RecoverFinishes \/ Opened
      BY <2>4 DEF Crash, RecoverNext, RecoverRemoves, RecoverFinishes, Opened
    <2>5. ASSUME NEW c \in Callers,
                 \/ Request(c) \/ Refused(c) \/ ChangeMeta(c) \/ MarkRead(c)
                 \/ SendLocked(c) \/ SteerAnswered(c) \/ SaveSettings(c)
                 \/ ViewReads(c) \/ ViewSaves(c)
          PROVE  FALSE
      BY <2>5 DEF Request, Refused, ChangeMeta, MarkRead, SendLocked, SteerAnswered, SaveSettings,
                  ViewReads, ViewSaves
    <2>6. ASSUME NEW c \in Callers,
                 \/ ForkLocked(c) \/ ForkSettings(c) \/ ForkLedger(c) \/ ForkMeta(c) \/ ForkRecords(c)
                 \/ CreateLists(c) \/ CreateMeta(c) \/ CreateSettings(c)
          PROVE  FALSE
      BY <2>6 DEF ForkLocked, ForkWrite, ForkSettings, ForkLedger, ForkMeta, ForkRecords, CreateLists,
                  CreateMeta, CreateSettings
    <2>7. ASSUME NEW c \in Callers,
                 \/ DeleteLocks(c) \/ Reserve(c) \/ DeleteRemoves(c) \/ DeleteFinishes(c)
                 \/ DeleteForgets(c)
          PROVE  FALSE
      BY <2>7 DEF DeleteLocks, Reserve, DeleteRemoves, DeleteFinishes, DeleteForgets
    <2> QED
      BY <2>1, <2>2, <2>3, <2>4, <2>5, <2>6, <2>7 DEF Next
  <1> QED
    BY <1>1, IInvHolds, PTL DEF Spec, StartsOnlyInOpen

(* Writes of another file leave the reading position alone. *)
LEMMA OtherFields ==
  ASSUME NEW f \in FileRecord, NEW v, NEW n, NEW w
  PROVE  /\ [f EXCEPT !.meta = v].position = f.position
         /\ [f EXCEPT !.setup = v].position = f.position
         /\ [f EXCEPT !.turns = v].position = f.position
         /\ [f EXCEPT !.runs = v].position = f.position
         /\ [f EXCEPT !.runs[n] = w].position = f.position
         /\ [f EXCEPT !.turns = v, !.runs[n] = w].position = f.position
  BY DEF FileRecord

LEMMA SamePosition ==
  ASSUME IInv, NEW s \in Sessions, NEW d, NEW g,
         files' = files \/ files' = [files EXCEPT ![d] = g],
         d = s => g.position = files[s].position
  PROVE  files'[s].position = files[s].position
  BY Types

LEMMA PositionsOfOthers ==
  ASSUME IInv, Next, NEW s \in Sessions, s \notin doomed, files'[s].position # files[s].position
  PROVE  \E c \in Callers : MarkRead(c) /\ s = call[c].s
  <1> USE Types
  <1>1. files[s] \in FileRecord
    OBVIOUS
  <1>2. ASSUME NEW c \in Callers, MarkRead(c)
        PROVE  s = call[c].s
    BY <1>2 DEF MarkRead, Write
  <1>3. ASSUME NEW c \in Callers, ChangeMeta(c) \/ ViewSaves(c) \/ SaveSettings(c)
        PROVE  FALSE
    BY <1>1, <1>3 DEF ChangeMeta, ViewSaves, SaveSettings, Write, FileRecord
  <1>4. ASSUME NEW c \in Callers,
               \/ Request(c) \/ Refused(c) \/ SendLocked(c) \/ SteerAnswered(c) \/ StartRun(c)
               \/ ViewReads(c) \/ ForkLocked(c) \/ CreateLists(c) \/ DeleteLocks(c) \/ Reserve(c)
               \/ DeleteFinishes(c) \/ DeleteForgets(c)
        PROVE  FALSE
    BY <1>4 DEF Request, Refused, SendLocked, SteerAnswered, StartRun, ViewReads, ForkLocked,
                CreateLists, DeleteLocks, Reserve, DeleteFinishes, DeleteForgets
  <1>5. ASSUME NEW c \in Callers,
               \/ ForkSettings(c) \/ ForkLedger(c) \/ ForkMeta(c) \/ ForkRecords(c)
               \/ CreateMeta(c) \/ CreateSettings(c)
        PROVE  FALSE
    <2> DEFINE d == call[c].dest
    <2>1. CASE ForkSettings(c)
      <3> DEFINE g == [files[d] EXCEPT !.setup = files[call[c].s].setup]
      <3>1. files' = files \/ files' = [files EXCEPT ![d] = g]
        BY <2>1 DEF ForkSettings, ForkWrite
      <3>2. d = s => g.position = files[s].position
        BY <1>1, OtherFields
      <3> HIDE DEF d, g
      <3> QED
        BY ONLY IInv, s \in Sessions, <3>1, <3>2, SamePosition, files'[s].position # files[s].position
    <2>2. CASE ForkLedger(c)
      <3> DEFINE g == [files[d] EXCEPT !.turns = call[c].through]
      <3>1. files' = files \/ files' = [files EXCEPT ![d] = g]
        BY <2>2 DEF ForkLedger, ForkWrite
      <3>2. d = s => g.position = files[s].position
        BY <1>1, OtherFields
      <3> HIDE DEF d, g
      <3> QED
        BY ONLY IInv, s \in Sessions, <3>1, <3>2, SamePosition, files'[s].position # files[s].position
    <2>3. CASE ForkMeta(c)
      <3> DEFINE g == [files[d] EXCEPT !.meta = "open"]
      <3>1. files' = files \/ files' = [files EXCEPT ![d] = g]
        BY <2>3 DEF ForkMeta, ForkWrite
      <3>2. d = s => g.position = files[s].position
        BY <1>1, OtherFields
      <3> HIDE DEF d, g
      <3> QED
        BY ONLY IInv, s \in Sessions, <3>1, <3>2, SamePosition, files'[s].position # files[s].position
    <2>4. CASE ForkRecords(c)
      BY <1>1, <2>4 DEF ForkRecords, FileRecord
    <2>5. CASE CreateMeta(c)
      BY <1>1, <2>5 DEF CreateMeta, FileRecord
    <2>6. CASE CreateSettings(c)
      BY <1>1, <2>6 DEF CreateSettings, FileRecord
    <2> QED
      BY <1>5, <2>1, <2>2, <2>3, <2>4, <2>5, <2>6
  <1>6. ASSUME NEW c \in Callers, DeleteRemoves(c)
        PROVE  FALSE
    <2>1. PICK item \in call[c].rest : Removed(item) \/ HalfRemoved(item)
      BY <1>6 DEF DeleteRemoves, Due
    <2>2. item.s \in call[c].scope /\ call[c].scope \subseteq doomed
      BY <1>6, WorkOf DEF DeleteRemoves, IInv, Own, Removing, Deleting, Progress, Doom
    <2> QED
      BY <2>1, <2>2 DEF Removed, HalfRemoved
  <1>7. CASE RecoverRemoves
    <2>1. PICK item \in replay.rest : Removed(item) \/ HalfRemoved(item)
      BY <1>7 DEF RecoverRemoves, Due
    <2>2. item.s \in replay.scope /\ replay.scope \subseteq doomed
      BY <2>1, WorkOf DEF IInv, Replaying, Progress, NoCall
    <2> QED
      BY <2>1, <2>2 DEF Removed, HalfRemoved
  <1>8. CASE Crash \/ RecoverNext \/ RecoverFinishes \/ Opened
    BY <1>8 DEF Crash, RecoverNext, RecoverFinishes, Opened
  <1>9. ASSUME NEW k \in Kids, KidStarts(k)
        PROVE  FALSE
    BY <1>9 DEF KidStarts
  <1>10. ASSUME NEW x \in Sessions, RunPrompt(x) \/ RunLeaves(x) \/ RunEnds(x) \/ RunReleased(x)
         PROVE  FALSE
    <2>1. CASE RunPrompt(x)
      <3> DEFINE n == files[x].turns + 1
      <3>1. PICK g : /\ files' = [files EXCEPT ![x] = g]
                     /\ \/ g = [files[x] EXCEPT !.turns = n, !.runs[n] = "running"]
                        \/ g = [files[x] EXCEPT !.turns = n]
        BY <2>1 DEF RunPrompt
      <3> HIDE DEF n
      <3>2. x = s => g.position = files[s].position
        <4>1. CASE g = [files[x] EXCEPT !.turns = n, !.runs[n] = "running"]
          BY ONLY <1>1, <4>1, OtherFields
        <4>2. CASE g = [files[x] EXCEPT !.turns = n]
          BY ONLY <1>1, <4>2, OtherFields
        <4> QED
          BY <3>1, <4>1, <4>2
      <3> QED
        BY ONLY IInv, s \in Sessions, <3>1, <3>2, SamePosition, files'[s].position # files[s].position
    <2>2. CASE RunEnds(x)
      <3> DEFINE n == files[x].turns
      <3> DEFINE g == [files[x] EXCEPT !.runs[n] = "ended"]
      <3>1. files' = files \/ files' = [files EXCEPT ![x] = g]
        BY <2>2 DEF RunEnds
      <3> HIDE DEF n
      <3>2. x = s => g.position = files[s].position
        BY <1>1, OtherFields
      <3> HIDE DEF g
      <3> QED
        BY ONLY IInv, s \in Sessions, <3>1, <3>2, SamePosition, files'[s].position # files[s].position
    <2>3. CASE RunLeaves(x) \/ RunReleased(x)
      BY <2>3 DEF RunLeaves, RunReleased
    <2> QED
      BY <1>10, <2>1, <2>2, <2>3
  <1> QED
    BY <1>2, <1>3, <1>4, <1>5, <1>6, <1>7, <1>8, <1>9, <1>10 DEF Next

(* Requests to mark a session as read may arrive late and in any order,    *)
(* while it is at work and after a restart: what was read stays read, and  *)
(* a run at work is never read (reading.go MarkRead, reading/store.go      *)
(* Advance).                                                               *)
THEOREM ReadOnlyForwardHolds == Spec => ReadOnlyForward
  <1>1. IInv /\ [Next]_vars =>
          [\A s \in Sessions \ doomed :
             /\ files'[s].position >= files[s].position
             /\ files'[s].position > files[s].position =>
                  files'[s].runs[files'[s].position] # "running"]_vars
    <2> SUFFICES ASSUME IInv, Next, NEW s \in Sessions \ doomed
                 PROVE  /\ files'[s].position >= files[s].position
                        /\ files'[s].position > files[s].position =>
                             files'[s].runs[files'[s].position] # "running"
      OBVIOUS
    <2>1. files[s] \in FileRecord /\ files[s].position \in Nat
      BY Types, FileFields
    <2>2. CASE files'[s].position = files[s].position
      BY <2>1, <2>2
    <2>3. CASE files'[s].position # files[s].position
      <3>1. PICK c \in Callers : MarkRead(c) /\ s = call[c].s
        BY <2>3, PositionsOfOthers
      <3> DEFINE now == Interrupted(s)
      <3>2. PICK t \in Turns :
              Write(s, [files[s] EXCEPT !.runs = now,
                          !.position = IF Readable(now, t) THEN Advanced(@, t) ELSE @])
        BY <3>1 DEF MarkRead
      <3>3. /\ files'[s].runs = now
            /\ files'[s].position = IF Readable(now, t) THEN Advanced(files[s].position, t)
                                    ELSE files[s].position
        <4> DEFINE p == IF Readable(now, t) THEN Advanced(files[s].position, t) ELSE files[s].position
                   f == [files[s] EXCEPT !.runs = now, !.position = p]
        <4>1. f.runs = now /\ f.position = p
          BY <2>1 DEF FileRecord
        <4>2. files' = files \/ files' = [files EXCEPT ![s] = f]
          BY <3>2 DEF Write
        <4>3. files \in [Sessions -> FileRecord] /\ s \in Sessions
          BY Types
        <4> HIDE DEF f, p, now
        <4>4. files'[s] = f
          BY <2>3, <4>2, <4>3
        <4> QED
          BY <4>1, <4>4 DEF p
      <3>4. Readable(now, t) /\ files'[s].position = t /\ t > files[s].position /\ t \in Nat
        BY <2>1, <2>3, <3>3 DEF Advanced, Turns
      <3> QED
        BY <2>1, <3>3, <3>4 DEF Readable
    <2> QED
      BY <2>2, <2>3
  <1> QED
    BY <1>1, IInvHolds, PTL DEF Spec, ReadOnlyForward
=============================================================================

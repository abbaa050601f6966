------------------------- MODULE DreamSweep_proofs -------------------------
(***************************************************************************)
(* Proofs about DreamSweep, for any number of sweeps, memories, and things  *)
(* from outside: the types, that sweeps exclude each other, that            *)
(* consolidation forgets nothing, and that what is recorded was examined.   *)
(***************************************************************************)
EXTENDS DreamSweep, TLAPS

-----------------------------------------------------------------------------
(* The inductive invariant *)

\* A fact is minted by an event, and a memory has the number of the fact it was
\* stored with, and holds that fact as long as it is not lost.
Counted == minted <= AtStart + events
OwnFact(r, row) == r <= minted /\ (r \in row.holds \/ fate[r] = Lost)
RowsOwn == \A r \in Ids : Exists(r) => OwnFact(r, rows[r])

\* The lock is with the sweep in its body, until it expires.
LockHeld == \A w \in Sweeps : InBody(w) /\ w \notin overran => lock = HeldBy(w)

Batch(s) == {r \in Ids : s.batch[r] # Absent}
Acting == {"plan", "rewrite", "upsert", "fold"}

\* The rows of a batch are memories.
BatchOwns(s) == \A r \in Batch(s) : OwnFact(r, s.batch[r])
\* What a stamp speaks for is examined, or old, once the LLM has answered.
SpeaksForSeen(s) ==
  \A f \in s.speaks : \/ fate[f] >= PassedOver
                      \/ s.at = "decide" /\ \E r \in Batch(s) : f \in s.batch[r].holds
BatchExamined(s) ==
  s.at \in Acting \cup {"marker"} => \A r \in Batch(s) : fate[r] >= Examined
\* An action is about rows of the batch, and a survivor whose tombstones have begun holds
\* what the others did.  Only the thread of an action outlives its sweep.
ActsOnBatch(s) ==
  /\ s.orphan => s.at \in {"rewrite", "upsert", "fold"}
  /\ s.left \subseteq Batch(s)
  /\ s.fold \subseteq Batch(s)
  /\ s.into # 0 => s.into \in Batch(s) \ s.fold
  /\ s.at \in {"rewrite", "upsert"} => s.into # 0
  /\ s.at = "fold" /\ s.into # 0 =>
       \A r \in s.fold : s.batch[r].holds \subseteq s.batch[s.into].holds

Sound(s) ==
  /\ s.last <= dreams
  /\ BatchOwns(s)
  /\ SpeaksForSeen(s)
  /\ BatchExamined(s)
  /\ ActsOnBatch(s)
SweepsSound == \A w \in Sweeps : Sound(ctx[w])

IInv ==
  /\ TypeOK /\ Counted /\ RowsOwn /\ LockHeld /\ SweepsSound
  /\ NothingForgotten /\ NoneStampedUnseen /\ MarkerWasExamined

-----------------------------------------------------------------------------
(* Values *)

LEMMA FactsCounted == MaxFacts \in Nat /\ AtStart \in Nat /\ MaxEvents \in Nat
BY DreamAssumption DEF MaxFacts

LEMMA AbsentIsNoRow == \A row \in Row : row # Absent
BY DEF Row, Absent

LEMMA NewRowIsRow == \A f \in Ids : \A t \in Nat : NewRow(f, t) \in Row
BY DEF NewRow, Row

LEMMA NobodyHolds == \A w \in Sweeps : HeldBy(w) # Nobody
BY DEF HeldBy, Nobody

LEMMA NoRowsAreRows == NoRows \in Rows
BY DEF NoRows, Rows

LEMMA IdleIsSweep == Idle \in Sweep
BY NoRowsAreRows, FactsCounted DEF Idle, Sweep

LEMMA BatchIsSweep ==
  ASSUME NEW at \in Working, NEW batch \in Rows, NEW left \in SUBSET Ids,
         NEW speaks \in SUBSET Ids
  PROVE  [Idle EXCEPT !.at = at, !.batch = batch, !.left = left, !.speaks = speaks] \in Sweep
BY IdleIsSweep DEF Sweep

\* What a sweep may be when it has no batch
Bare(s) ==
  /\ s \in Sweep
  /\ s.batch = NoRows /\ s.left = {} /\ s.fold = {} /\ s.into = 0 /\ ~s.orphan
  /\ s.at \notin {"rewrite", "upsert"}

LEMMA BareSound ==
  ASSUME NEW s, Bare(s), s.last <= dreams, \A f \in s.speaks : fate[f] >= PassedOver
  PROVE  Sound(s)
<1>1. Batch(s) = {}
  BY DEF Bare, Batch, NoRows
<1> QED
  BY <1>1 DEF Bare, Sound, BatchOwns, SpeaksForSeen, BatchExamined, ActsOnBatch

LEMMA RestingIsBare ==
  /\ Bare(Idle)
  /\ Bare([Idle EXCEPT !.at = "release"])
  /\ [Idle EXCEPT !.at = "release"].speaks = {} /\ Idle.speaks = {}
  /\ [Idle EXCEPT !.at = "release"].last = 0 /\ Idle.last = 0
  /\ ~(Idle.at \in Working)
<1>1. Bare(Idle) /\ Idle.speaks = {} /\ Idle.last = 0 /\ ~(Idle.at \in Working)
  BY IdleIsSweep DEF Idle, Bare, Working
<1>2. PICK s : s = [Idle EXCEPT !.at = "release"]
  OBVIOUS
<1>3. s \in Sweep
  BY <1>2, IdleIsSweep DEF Sweep, Working
<1>4. s.batch = NoRows /\ s.left = {} /\ s.fold = {} /\ s.into = 0 /\ s.at = "release"
      /\ s.speaks = {} /\ s.last = 0
  BY <1>2 DEF Idle
<1> QED
  BY <1>1, <1>2, <1>3, <1>4 DEF Bare

LEMMA RestingSound ==
  ASSUME TypeOK
  PROVE  Sound(Idle) /\ Sound([Idle EXCEPT !.at = "release"])
<1>1. 0 <= dreams
  BY DEF TypeOK
<1>2. Sound(Idle)
  BY <1>1, RestingIsBare, BareSound
<1>3. PICK s : s = [Idle EXCEPT !.at = "release"]
  OBVIOUS
<1>4. Bare(s) /\ s.speaks = {} /\ s.last = 0
  BY <1>3, RestingIsBare
<1>5. Sound(s)
  BY <1>1, <1>4, BareSound
<1> QED
  BY <1>2, <1>3, <1>5

-----------------------------------------------------------------------------
(* What a step may do to the fate of facts *)

\* Time and the fates of facts only advance.
Grown ==
  /\ fate' \in [Ids -> Pending .. Lost]
  /\ \A f \in Ids : fate'[f] >= fate[f]
  /\ dreams' \in Nat /\ dreams' >= dreams
  /\ minted' \in 0 .. MaxFacts /\ minted' >= minted

LEMMA RaisedGrows ==
  ASSUME TypeOK, NEW S, NEW level \in Pending .. Lost, fate' = Raised(S, level)
  PROVE  /\ fate' \in [Ids -> Pending .. Lost]
         /\ \A f \in Ids : fate'[f] >= fate[f]
         /\ \A f \in Ids : f \in S => fate'[f] >= level
         /\ \A f \in Ids : fate'[f] # fate[f] => f \in S
<1>1. fate' = [f \in Ids |-> IF f \in S /\ fate[f] < level THEN level ELSE fate[f]]
  BY DEF Raised
<1>2. ASSUME NEW f \in Ids
      PROVE  /\ fate'[f] = IF f \in S /\ fate[f] < level THEN level ELSE fate[f]
             /\ fate[f] \in Pending .. Lost
  BY <1>1 DEF TypeOK
<1> QED
  BY <1>1, <1>2 DEF Pending, Lost

\* A fact lost stays lost.
LEMMA LostStays ==
  ASSUME TypeOK, Grown, NEW f \in Ids, fate[f] = Lost
  PROVE  fate'[f] = Lost
<1>1. fate'[f] \in Pending .. Lost /\ fate'[f] >= Lost
  BY DEF Grown, TypeOK
<1> QED
  BY <1>1 DEF Pending, Lost

LEMMA OwnFactStays ==
  ASSUME TypeOK, Grown, NEW r \in Ids, NEW row, OwnFact(r, row)
  PROVE  OwnFact(r, row)'
<1>1. r <= minted'
  BY DEF OwnFact, Grown, TypeOK, Ids
<1> QED
  BY <1>1, LostStays DEF OwnFact

\* What is sound stays so.
LEMMA SoundStays ==
  ASSUME TypeOK, Grown, NEW s \in Sweep, Sound(s)
  PROVE  Sound(s)'
<1>1. s.last <= dreams'
  BY DEF Sound, Sweep, Grown, TypeOK
<1>2. BatchOwns(s)'
  BY OwnFactStays DEF Sound, BatchOwns, Batch
<1>3. SpeaksForSeen(s)'
  <2>1. \A f \in Ids : fate[f] >= PassedOver => fate'[f] >= PassedOver
    BY DEF Grown, TypeOK, PassedOver, Pending, Lost
  <2>2. s.speaks \subseteq Ids
    BY DEF Sweep
  <2> QED
    BY <2>1, <2>2 DEF Sound, SpeaksForSeen, Batch
<1>4. BatchExamined(s)'
  <2>1. \A f \in Ids : fate[f] >= Examined => fate'[f] >= Examined
    BY DEF Grown, TypeOK, Examined, Pending, Lost
  <2> QED
    BY <2>1 DEF Sound, BatchExamined, Batch
<1>5. ActsOnBatch(s)'
  BY DEF Sound, ActsOnBatch, Batch
<1> QED
  BY <1>1, <1>2, <1>3, <1>4, <1>5 DEF Sound

\* One sweep goes on, the others stay.
LEMMA OneSweepChanges ==
  ASSUME TypeOK, SweepsSound, Grown, NEW w \in Sweeps, NEW s \in Sweep, Set(w, s), Sound(s)'
  PROVE  ctx' \in [Sweeps -> Sweep] /\ SweepsSound'
<1>1. ctx' = [ctx EXCEPT ![w] = s]
  BY DEF Set
<1>2. ctx' \in [Sweeps -> Sweep]
  BY <1>1 DEF TypeOK
<1>3. ASSUME NEW v \in Sweeps
      PROVE  Sound(ctx[v])'
  <2>1. CASE v = w
    <3>1. ctx'[v] = s
      BY <1>1, <2>1 DEF TypeOK
    <3> QED
      BY <3>1 DEF Sound, BatchOwns, SpeaksForSeen, BatchExamined, ActsOnBatch, Batch, OwnFact
  <2>2. CASE v # w
    <3>1. PICK c : c = ctx[v]
      OBVIOUS
    <3>2. ctx'[v] = c /\ c \in Sweep /\ Sound(c)
      BY <1>1, <2>2, <3>1 DEF TypeOK, SweepsSound
    <3>3. Sound(c)'
      BY <3>2, SoundStays
    <3> QED
      BY <3>2, <3>3
        DEF Sound, BatchOwns, SpeaksForSeen, BatchExamined, ActsOnBatch, Batch, OwnFact
  <2> QED
    BY <2>1, <2>2
<1> QED
  BY <1>2, <1>3 DEF SweepsSound

-----------------------------------------------------------------------------
(* The lock *)

\* A sweep keeps the lock as long as it is in its body ...
LEMMA LockKept ==
  ASSUME TypeOK, LockHeld, NEW w \in Sweeps, NEW s \in Sweep, Set(w, s),
         s.at \in Working /\ ~s.orphan => InBody(w), UNCHANGED <<lock, overran>>
  PROVE  LockHeld'
<1>1. ctx' = [ctx EXCEPT ![w] = s]
  BY DEF Set
<1>2. ASSUME NEW v \in Sweeps, InBody(v)'
      PROVE  InBody(v)
  <2>1. CASE v = w
    BY <1>1, <1>2, <2>1 DEF TypeOK, InBody
  <2>2. CASE v # w
    BY <1>1, <1>2, <2>2 DEF TypeOK, InBody
  <2> QED
    BY <2>1, <2>2
<1> QED
  BY <1>2 DEF LockHeld

\* ... and frees no lock but its own when it leaves.
LEMMA LockLeft ==
  ASSUME TypeOK, LockHeld, NEW w \in Sweeps, NEW s \in Sweep, Set(w, s),
         ~(s.at \in Working /\ ~s.orphan), lock' \in {lock, Released(w)},
         overran' = overran \ {w}
  PROVE  LockHeld' /\ lock' \in {Nobody} \cup {HeldBy(v) : v \in Sweeps} /\ overran' \subseteq Sweeps
<1>1. ctx' = [ctx EXCEPT ![w] = s]
  BY DEF Set
<1>2. ASSUME NEW v \in Sweeps, InBody(v)', v \notin overran'
      PROVE  lock' = HeldBy(v)
  <2>1. v # w
    BY <1>1, <1>2 DEF TypeOK, InBody
  <2>2. InBody(v) /\ v \notin overran
    BY <1>1, <1>2, <2>1 DEF TypeOK, InBody
  <2>3. lock = HeldBy(v)
    BY <2>2 DEF LockHeld
  <2>4. HeldBy(v) # HeldBy(w)
    BY <2>1 DEF HeldBy
  <2> QED
    BY <2>3, <2>4 DEF Released
<1>3. lock' \in {Nobody} \cup {HeldBy(v) : v \in Sweeps}
  BY DEF TypeOK, Released
<1>4. overran' \subseteq Sweeps
  BY DEF TypeOK
<1> QED
  BY <1>2, <1>3, <1>4 DEF LockHeld

-----------------------------------------------------------------------------
(* Steps that leave the rows alone *)

\* The bounds on what is not a row or a fact
SmallTyped ==
  /\ due \in BOOLEAN
  /\ lock \in {Nobody} \cup {HeldBy(w) : w \in Sweeps}
  /\ events \in 0 .. MaxEvents
  /\ overran \subseteq Sweeps

LEMMA GrownIfUnchanged ==
  ASSUME TypeOK, UNCHANGED <<minted, dreams, fate>>
  PROVE  Grown
BY FactsCounted DEF TypeOK, Grown, Pending, Lost

\* What the state of the pool guarantees outlives any step that leaves it alone.
LEMMA PoolKept ==
  ASSUME IInv, Grown, UNCHANGED <<rows, minted, dreams>>
  PROVE  RowsOwn' /\ NothingForgotten' /\ NoneStampedUnseen'
<1>0. TypeOK
  BY DEF IInv
<1>1. RowsOwn'
  <2> SUFFICES ASSUME NEW r \in Ids, Exists(r)
               PROVE  OwnFact(r, rows[r])'
    BY DEF RowsOwn, Exists
  <2>1. OwnFact(r, rows[r])
    BY DEF IInv, RowsOwn
  <2>2. fate[r] = Lost => fate'[r] = Lost
    BY <1>0, LostStays
  <2> QED
    BY <2>1, <2>2 DEF OwnFact
<1>2. NothingForgotten'
  <2>1. minted \in Nat /\ \A f \in 1 .. minted : f \in Ids
    BY <1>0, FactsCounted DEF TypeOK, Ids
  <2>2. \A f \in 1 .. minted : fate'[f] # Lost => fate[f] # Lost
    BY <1>0, <2>1, LostStays
  <2> QED
    BY <2>2 DEF IInv, NothingForgotten, Recallable, Exists
<1>3. NoneStampedUnseen'
  <2>1. \A f \in Ids : fate[f] >= PassedOver => fate'[f] >= PassedOver
    BY <1>0 DEF Grown, TypeOK, PassedOver, Pending, Lost
  <2>2. \A r \in Ids : Exists(r) => rows[r].holds \subseteq Ids
    BY <1>0 DEF TypeOK, Rows, Row, Exists
  <2> QED
    BY <2>1, <2>2 DEF IInv, NoneStampedUnseen, Exists
<1> QED
  BY <1>1, <1>2, <1>3

LEMMA MarkerKept ==
  ASSUME TypeOK, MarkerWasExamined, Grown, UNCHANGED marker
  PROVE  MarkerWasExamined'
<1>1. \A f \in Ids : fate[f] >= Examined => fate'[f] >= Examined
  BY DEF Grown, TypeOK, Examined, Pending, Lost
<1> QED
  BY <1>1 DEF MarkerWasExamined, TypeOK

\* A step of a sweep that leaves the pool, the stamp and the marker alone
LEMMA SweepStep ==
  ASSUME IInv, NEW w \in Sweeps, NEW s \in Sweep, Set(w, s), Grown, Sound(s)',
         UNCHANGED <<rows, minted, dreams, marker>>, events' >= events, SmallTyped', LockHeld'
  PROVE  IInv'
<1>1. TypeOK /\ SweepsSound /\ MarkerWasExamined /\ Counted
  BY DEF IInv
<1>2. ctx' \in [Sweeps -> Sweep] /\ SweepsSound'
  BY <1>1, OneSweepChanges
<1>3. TypeOK'
  BY <1>1, <1>2 DEF TypeOK, SmallTyped, Grown
<1>4. Counted'
  <2>1. events \in 0 .. MaxEvents /\ minted \in 0 .. MaxFacts
    BY <1>1 DEF TypeOK
  <2>2. events' \in 0 .. MaxEvents
    BY DEF SmallTyped
  <2>3. events \in Nat /\ events' \in Nat /\ minted \in Nat /\ AtStart \in Nat
    BY <2>1, <2>2, FactsCounted
  <2>4. minted' = minted /\ minted <= AtStart + events
    BY <1>1 DEF Counted
  <2>5. minted' <= AtStart + events'
    <3>1. \A m, a, e, f \in Nat : m <= a + e /\ f >= e => m <= a + f
      OBVIOUS
    <3>2. events' >= events
      OBVIOUS
    <3> QED
      BY <2>3, <2>4, <3>1, <3>2
  <2> QED
    BY <2>5 DEF Counted
<1> QED
  BY <1>1, <1>2, <1>3, <1>4, PoolKept, MarkerKept DEF IInv

LEMMA SmallTypes ==
  ASSUME IInv
  PROVE  /\ SmallTyped
         /\ UNCHANGED <<due, lock, overran>> /\ Event => SmallTyped' /\ events' >= events
         /\ UNCHANGED <<due, lock, overran, events>> => SmallTyped' /\ events' >= events
         /\ Event => events' \in 0 .. MaxEvents /\ events' >= events
<1>1. SmallTyped /\ events \in 0 .. MaxEvents
  BY DEF IInv, TypeOK, SmallTyped
<1>2. Event => events' \in 0 .. MaxEvents /\ events' >= events
  BY <1>1, FactsCounted DEF Event
<1> QED
  BY <1>1, <1>2, FactsCounted DEF SmallTyped

\* ... and does nothing else either, but for the sweep itself
LEMMA QuietStep ==
  ASSUME IInv, NEW w \in Sweeps, NEW s \in Sweep, Set(w, s), Sound(s),
         s.at \in Working /\ ~s.orphan => InBody(w),
         UNCHANGED <<pool, redis, history>>, Event \/ UNCHANGED events
  PROVE  IInv'
<1>1. TypeOK /\ LockHeld
  BY DEF IInv
<1>2. UNCHANGED <<rows, minted, dreams, due, marker, lock, overran, fate>>
  BY DEF pool, redis, history
<1>3. Grown
  BY <1>1, <1>2, GrownIfUnchanged
<1>4. Sound(s)'
  BY <1>1, <1>3, SoundStays
<1>5. LockHeld'
  BY <1>1, <1>2, LockKept
<1>6. SmallTyped' /\ events' >= events
  BY <1>2, SmallTypes
<1> QED
  BY <1>2, <1>3, <1>4, <1>5, <1>6, SweepStep

\* A sweep comes to its end, one way or the other.
LEMMA EndStep ==
  ASSUME IInv, NEW w \in Sweeps, NEW s \in Sweep, Set(w, s), Sound(s),
         ~(s.at \in Working /\ ~s.orphan), lock' \in {lock, Released(w)},
         overran' = overran \ {w},
         UNCHANGED <<pool, dreams, due, marker, fate>>, Event \/ UNCHANGED events
  PROVE  IInv'
<1>1. TypeOK /\ LockHeld
  BY DEF IInv
<1>2. UNCHANGED <<rows, minted, dreams, due, marker, fate>>
  BY DEF pool
<1>3. Grown
  BY <1>1, <1>2, GrownIfUnchanged
<1>4. Sound(s)'
  BY <1>1, <1>3, SoundStays
<1>5. LockHeld' /\ lock' \in {Nobody} \cup {HeldBy(v) : v \in Sweeps} /\ overran' \subseteq Sweeps
  BY <1>1, LockLeft
<1>6. SmallTyped' /\ events' >= events
  BY <1>2, <1>5, SmallTypes DEF SmallTyped
<1> QED
  BY <1>2, <1>3, <1>4, <1>5, <1>6, SweepStep

-----------------------------------------------------------------------------
(* Up to the lock *)

LEMMA BeginSafe ==
  ASSUME IInv, NEW w \in Sweeps, NEW forced \in BOOLEAN, Begin(w, forced)
  PROVE  IInv'
<1>0. TypeOK
  BY DEF IInv
<1>1. PICK light : light = [r \in Ids |-> IF Recallable(r) THEN [rows[r] EXCEPT !.holds = {}]
                                           ELSE Absent]
  OBVIOUS
<1>2. light \in Rows
  <2>1. ASSUME NEW r \in Ids, Recallable(r)
        PROVE  [rows[r] EXCEPT !.holds = {}] \in Row
    <3>1. rows[r] \in Row
      BY <1>0, <2>1 DEF TypeOK, Rows, Recallable, Exists
    <3> QED
      BY <3>1 DEF Row
  <2> QED
    BY <1>1, <2>1 DEF Rows
<1>3. PICK s : s = [Idle EXCEPT !.at = "listed", !.forced = forced, !.light = light]
  OBVIOUS
<1>4. s \in Sweep
  BY <1>2, <1>3, IdleIsSweep DEF Sweep
<1>5. s.at = "listed" /\ s.batch = NoRows /\ s.left = {} /\ s.fold = {} /\ s.into = 0
      /\ s.speaks = {} /\ s.last = 0 /\ ~s.orphan
  BY <1>3 DEF Idle
<1>6. Sound(s)
  BY <1>0, <1>4, <1>5, BareSound DEF Bare, TypeOK
<1>7. Set(w, s) /\ UNCHANGED <<pool, redis, history>> /\ (Event \/ UNCHANGED events)
  BY <1>1, <1>3 DEF Begin
<1> QED
  BY <1>4, <1>5, <1>6, <1>7, QuietStep DEF Working

LEMMA PassGatesSafe ==
  ASSUME IInv, NEW w \in Sweeps, NEW last \in 0 .. dreams, NEW timePassed \in BOOLEAN,
         PassGates(w, last, timePassed), Event \/ UNCHANGED events
  PROVE  IInv'
<1>0. TypeOK /\ LockHeld /\ SweepsSound
  BY DEF IInv
<1>1. UNCHANGED <<rows, minted, dreams, due, marker, overran, fate>>
  BY DEF PassGates, pool, history
<1>2. Grown
  BY <1>0, <1>1, GrownIfUnchanged
<1>3. SmallTyped /\ events' \in 0 .. MaxEvents /\ events' >= events
  BY SmallTypes, FactsCounted DEF SmallTyped
<1>4. CASE lock' = HeldBy(w) /\ lock = Nobody
           /\ Set(w, [ctx[w] EXCEPT !.at = "hydrate", !.last = last])
  <2>1. PICK s : s = [ctx[w] EXCEPT !.at = "hydrate", !.last = last]
    OBVIOUS
  <2>2. ctx[w] \in Sweep /\ Sound(ctx[w]) /\ ctx[w].at = "listed"
    BY <1>0 DEF TypeOK, SweepsSound, PassGates
  <2>3. s \in Sweep
    <3>1. last \in Nat /\ "hydrate" \in Working
      BY <1>0 DEF Working, TypeOK
    <3> QED
      BY <2>1, <2>2, <3>1 DEF Sweep
  <2>4. s.at = "hydrate" /\ s.last = last /\ s.batch = ctx[w].batch /\ s.left = ctx[w].left
        /\ s.orphan = ctx[w].orphan
        /\ s.fold = ctx[w].fold /\ s.into = ctx[w].into /\ s.speaks = ctx[w].speaks
    BY <2>1, <2>2 DEF Sweep
  <2>5. Sound(s)
    BY <1>0, <2>2, <2>4
      DEF Sound, Batch, BatchOwns, SpeaksForSeen, BatchExamined, ActsOnBatch, Acting, TypeOK
  <2>6. Sound(s)'
    BY <1>0, <1>2, <2>3, <2>5, SoundStays
  <2>7. LockHeld'
    <3>1. ctx' = [ctx EXCEPT ![w] = s]
      BY <1>4, <2>1 DEF Set
    <3>2. ASSUME NEW v \in Sweeps, InBody(v)', v \notin overran', v # w
          PROVE  FALSE
      <4>1. InBody(v) /\ v \notin overran
        BY <1>0, <1>1, <3>1, <3>2 DEF InBody, TypeOK
      <4> QED
        BY <1>0, <1>4, <4>1, NobodyHolds DEF LockHeld
    <3> QED
      BY <1>4, <3>2 DEF LockHeld
  <2>8. SmallTyped'
    BY <1>1, <1>3, <1>4 DEF SmallTyped
  <2> QED
    BY <1>1, <1>2, <1>3, <1>4, <2>1, <2>3, <2>6, <2>7, <2>8, SweepStep
<1>5. CASE UNCHANGED lock /\ Set(w, Idle)
  <2>1. Sound(Idle)
    BY <1>0, RestingSound
  <2>2. UNCHANGED <<pool, redis, history>>
    BY <1>1, <1>5 DEF pool, redis, history
  <2> QED
    BY <1>5, <2>1, <2>2, IdleIsSweep, RestingIsBare, QuietStep
<1> QED
  BY <1>4, <1>5 DEF PassGates

LEMMA AcquireSafe ==
  ASSUME IInv, NEW w \in Sweeps, Acquire(w) \/ AcquireUngated(w)
  PROVE  IInv'
<1>1. dreams \in 0 .. dreams /\ 0 \in 0 .. dreams /\ due \in BOOLEAN
  BY DEF IInv, TypeOK
<1>2. CASE Acquire(w)
  BY <1>1, <1>2, PassGatesSafe DEF Acquire
<1>3. CASE AcquireUngated(w)
  BY <1>1, <1>3, PassGatesSafe DEF AcquireUngated
<1> QED
  BY <1>2, <1>3

-----------------------------------------------------------------------------
(* Reading and examining *)

LEMMA StageSafe ==
  ASSUME IInv, NEW w \in Sweeps, NEW weak \in SUBSET Ids, Stage(w, weak)
  PROVE  IInv'
<1> DEFINE staged == NewHydrated(w) \cup weak
           batch == Newest(staged)
           Facts(S) == UNION {rows[r].holds : r \in S}
<1>0. TypeOK /\ LockHeld /\ SweepsSound /\ RowsOwn /\ NoneStampedUnseen
  BY DEF IInv
<1>1. UNCHANGED <<rows, minted, dreams, due, marker, lock, events, overran>>
  BY DEF Stage, pool, redis
<1>2. ctx[w].at = "hydrate" /\ ctx[w] \in Sweep /\ Sound(ctx[w])
  BY <1>0 DEF Stage, TypeOK, SweepsSound
<1>3. \A r \in Hydrated(w) : r \in Ids /\ Exists(r) /\ rows[r] \in Row
  BY <1>0 DEF Hydrated, Exists, TypeOK, Rows
<1>4. batch \subseteq staged /\ staged \subseteq Hydrated(w)
  BY DEF Newest, Stage, NewHydrated
<1>5. CASE /\ Leave(w)
           /\ fate' = Raised(IF Cardinality(NewHydrated(w)) < MinNew THEN {}
                             ELSE Facts(staged), Skipped)
  <2>1. PICK s : s = [Idle EXCEPT !.at = "release"]
    OBVIOUS
  <2>2. s \in Sweep /\ Sound(s) /\ s.at = "release"
    BY <1>0, <2>1, RestingSound, RestingIsBare DEF Bare, Idle
  <2>3. fate' \in [Ids -> Pending .. Lost] /\ \A f \in Ids : fate'[f] >= fate[f]
    <3>1. PICK S : fate' = Raised(S, Skipped)
      BY <1>5
    <3>2. Skipped \in Pending .. Lost
      BY DEF Pending, Skipped, Lost
    <3> QED
      BY <1>0, <3>1, <3>2, RaisedGrows
  <2>4. Grown
    BY <1>0, <1>1, <2>3 DEF Grown, TypeOK
  <2>5. Sound(s)'
    BY <1>0, <2>2, <2>4, SoundStays
  <2>6. LockHeld'
    <3>1. s.at \in Working /\ ~s.orphan => InBody(w)
      BY <1>2 DEF InBody, Working, Sound, ActsOnBatch
    <3>2. Set(w, s)
      BY <1>5, <2>1 DEF Leave
    <3> QED
      BY <1>0, <1>1, <2>2, <3>1, <3>2, LockKept
  <2>7. SmallTyped' /\ events' >= events
    BY <1>1, SmallTypes
  <2> QED
    BY <1>1, <1>5, <2>1, <2>2, <2>4, <2>5, <2>6, <2>7, SweepStep DEF Leave
<1>6. CASE /\ Set(w, [Idle EXCEPT !.at = "decide",
                        !.batch = [r \in Ids |-> IF r \in batch THEN rows[r] ELSE Absent],
                        !.left = batch,
                        !.speaks = Facts(batch) \cup Facts(Hydrated(w) \ staged)])
           /\ UNCHANGED fate
  <2>1. PICK rows1 : rows1 = [r \in Ids |-> IF r \in batch THEN rows[r] ELSE Absent]
    OBVIOUS
  <2>2. PICK speaks1 : speaks1 = Facts(batch) \cup Facts(Hydrated(w) \ staged)
    OBVIOUS
  <2>3. PICK s : s = [Idle EXCEPT !.at = "decide", !.batch = rows1, !.left = batch,
                        !.speaks = speaks1]
    OBVIOUS
  <2>4. /\ s.at = "decide" /\ s.batch = rows1 /\ s.left = batch /\ s.speaks = speaks1
        /\ s.last = 0 /\ s.fold = {} /\ s.into = 0 /\ ~s.orphan
    BY <2>3 DEF Idle
  <2>5. batch \subseteq Ids /\ \A r \in batch : rows[r] \in Row /\ Exists(r)
    BY <1>3, <1>4
  <2>6. rows1 \in Rows
    BY <2>1, <2>5 DEF Rows
  <2>7. speaks1 \subseteq Ids
    <3>1. \A r \in Hydrated(w) : rows[r].holds \subseteq Ids
      BY <1>3 DEF Row
    <3> QED
      BY <1>4, <2>2, <3>1
  <2>8. s \in Sweep
    <3>1. "decide" \in Working
      BY DEF Working
    <3> QED
      BY <2>3, <2>5, <2>6, <2>7, <3>1, BatchIsSweep
  <2>9. Batch(s) = batch /\ \A r \in batch : s.batch[r] = rows[r]
    <3>1. \A r \in Ids : s.batch[r] = IF r \in batch THEN rows[r] ELSE Absent
      BY <2>1, <2>4
    <3>2. \A r \in batch : rows[r] # Absent
      BY <2>5 DEF Exists
    <3> QED
      BY <2>5, <3>1, <3>2 DEF Batch
  <2>10. BatchOwns(s)
    BY <1>0, <2>5, <2>9 DEF BatchOwns, RowsOwn
  <2>11. SpeaksForSeen(s)
    <3> SUFFICES ASSUME NEW f \in speaks1
                 PROVE  fate[f] >= PassedOver \/ \E r \in batch : f \in rows[r].holds
      BY <2>4, <2>9 DEF SpeaksForSeen
    <3>1. CASE f \in Facts(batch)
      BY <3>1
    <3>2. CASE f \in Facts(Hydrated(w) \ staged)
      <4>1. PICK r \in Hydrated(w) \ staged : f \in rows[r].holds
        BY <3>2
      <4>2. ~(rows[r].at >= ctx[w].last)
        BY <4>1 DEF NewHydrated
      <4>3. rows[r].at \in Nat /\ ctx[w].last \in Nat /\ ctx[w].last <= dreams /\ dreams \in Nat
        BY <1>0, <1>2, <1>3, <4>1 DEF Row, Sweep, Sound, TypeOK
      <4>4. rows[r].at < dreams
        BY <4>2, <4>3
      <4> QED
        BY <1>0, <1>3, <4>1, <4>4 DEF NoneStampedUnseen
    <3> QED
      BY <2>2, <3>1, <3>2
  <2>12. Sound(s)
    BY <1>0, <2>4, <2>9, <2>10, <2>11 DEF Sound, BatchExamined, ActsOnBatch, Acting, TypeOK
  <2>13. InBody(w)
    BY <1>2 DEF InBody, Working, Sound, ActsOnBatch
  <2>14. Set(w, s) /\ UNCHANGED <<pool, redis, history, events>>
    BY <1>1, <1>6, <2>1, <2>2, <2>3 DEF pool, redis, history
  <2> QED
    BY <2>8, <2>12, <2>13, <2>14, QuietStep
<1> QED
  BY <1>5, <1>6 DEF Stage

\* Its last steps are in the body of the sweep, and speak for what it had read.
LEMMA LeaveSafe ==
  ASSUME IInv, NEW w \in Sweeps, Leave(w), InBody(w),
         UNCHANGED <<pool, redis, history>>, Event \/ UNCHANGED events
  PROVE  IInv'
<1>1. TypeOK
  BY DEF IInv
<1>2. PICK s : s = [Idle EXCEPT !.at = "release"]
  OBVIOUS
<1>3. s \in Sweep /\ Sound(s)
  BY <1>1, <1>2, RestingSound, RestingIsBare DEF Bare
<1>4. Set(w, s)
  BY <1>2 DEF Leave
<1> QED
  BY <1>3, <1>4, QuietStep

LEMMA ToStampSound ==
  ASSUME IInv, NEW w \in Sweeps, ctx[w].at = "marker"
  PROVE  LET s == [Idle EXCEPT !.at = "stamp", !.speaks = ctx[w].speaks]
         IN  s \in Sweep /\ Sound(s)
<1>1. TypeOK /\ ctx[w] \in Sweep /\ Sound(ctx[w])
  BY DEF IInv, TypeOK, SweepsSound
<1>2. PICK s : s = [Idle EXCEPT !.at = "stamp", !.speaks = ctx[w].speaks]
  OBVIOUS
<1>3. ctx[w].speaks \subseteq Ids /\ "stamp" \in Working
  BY <1>1 DEF Sweep, Working
<1>4. s \in Sweep
  BY <1>2, <1>3, IdleIsSweep DEF Sweep
<1>5. s.batch = NoRows /\ s.left = {} /\ s.fold = {} /\ s.into = 0 /\ ~s.orphan /\ s.at = "stamp"
      /\ s.speaks = ctx[w].speaks /\ s.last = 0
  BY <1>2 DEF Idle
<1>6. \A f \in s.speaks : fate[f] >= PassedOver
  BY <1>1, <1>5 DEF Sound, SpeaksForSeen
<1>7. Sound(s)
  BY <1>1, <1>4, <1>5, <1>6, BareSound DEF Bare, TypeOK
<1> QED
  BY <1>2, <1>4, <1>7

LEMMA ExamineSafe ==
  ASSUME IInv, NEW w \in Sweeps, Examine(w)
  PROVE  IInv'
<1>0. TypeOK /\ LockHeld
  BY DEF IInv
<1>1. UNCHANGED <<rows, minted, dreams, due, marker, lock, events, overran>>
  BY DEF Examine, pool, redis
<1>2. ctx[w].at = "decide" /\ ctx[w] \in Sweep /\ Sound(ctx[w])
  BY <1>0 DEF Examine, IInv, TypeOK, SweepsSound
<1>3. fate' = Raised(BatchFacts(w), Examined) /\ Examined \in Pending .. Lost
  BY DEF Examine, Examined, Pending, Lost
<1>4. /\ fate' \in [Ids -> Pending .. Lost]
      /\ \A f \in Ids : fate'[f] >= fate[f]
      /\ \A f \in Ids : f \in BatchFacts(w) => fate'[f] >= Examined
  BY <1>0, <1>3, RaisedGrows
<1>5. Grown
  BY <1>0, <1>1, <1>4 DEF Grown, TypeOK
<1>6. PICK c : c = ctx[w]
  OBVIOUS
<1>7. PICK s : s = [c EXCEPT !.at = "plan"]
  OBVIOUS
<1>8. s \in Sweep
  BY <1>2, <1>6, <1>7 DEF Sweep, Working
<1>9. s.at = "plan" /\ s.batch = c.batch /\ s.left = c.left /\ s.fold = c.fold /\ s.into = c.into
      /\ s.speaks = c.speaks /\ s.last = c.last /\ s.orphan = c.orphan
  BY <1>2, <1>6, <1>7 DEF Sweep
<1>10. Sound(c)' /\ c.at = "decide" /\ Batch(s) = Batch(c) /\ Sound(c)
  BY <1>0, <1>2, <1>5, <1>6, <1>9, SoundStays DEF Batch
<1>11. \A r \in Batch(c) : c.batch[r].holds \subseteq BatchFacts(w) /\ c.batch[r].holds \subseteq Ids
  BY <1>2, <1>6 DEF BatchFacts, Staged, Batch, Sweep, Rows, Row
<1>12. BatchExamined(s)'
  <2> SUFFICES ASSUME NEW r \in Batch(s)
               PROVE  fate'[r] >= Examined
    BY DEF BatchExamined, Batch
  <2>1. r \in Ids /\ (r \in c.batch[r].holds \/ fate[r] = Lost)
    BY <1>10 DEF Sound, BatchOwns, OwnFact, Batch
  <2>2. CASE r \in c.batch[r].holds
    BY <1>4, <1>10, <1>11, <2>1, <2>2
  <2>3. CASE fate[r] = Lost
    <3>1. fate'[r] = Lost
      BY <1>0, <1>5, <2>1, <2>3, LostStays
    <3> QED
      BY <3>1 DEF Lost, Examined
  <2> QED
    BY <2>1, <2>2, <2>3
<1>13. SpeaksForSeen(s)'
  <2> SUFFICES ASSUME NEW f \in c.speaks
               PROVE  fate'[f] >= PassedOver
    BY <1>9 DEF SpeaksForSeen
  <2>1. f \in Ids
    BY <1>2, <1>6 DEF Sweep
  <2>2. fate'[f] \in Pending .. Lost
    BY <1>4, <2>1
  <2>3. CASE \E r \in Batch(c) : f \in c.batch[r].holds
    BY <1>4, <1>11, <2>1, <2>2, <2>3 DEF Examined, PassedOver, Pending, Lost
  <2>4. CASE fate'[f] >= PassedOver
    BY <2>4
  <2>5. fate'[f] >= PassedOver \/ \E r \in Batch(c) : f \in c.batch[r].holds
    BY <1>10 DEF Sound, SpeaksForSeen, Batch
  <2> QED
    BY <2>3, <2>4, <2>5
<1>14. Sound(s)'
  BY <1>9, <1>10, <1>12, <1>13
    DEF Sound, BatchOwns, OwnFact, ActsOnBatch, Batch
<1>15. InBody(w) /\ Set(w, s)
  BY <1>2, <1>6, <1>7 DEF InBody, Working, Sound, ActsOnBatch, Examine, Go
<1>16. LockHeld'
  BY <1>0, <1>1, <1>8, <1>15, LockKept
<1>17. SmallTyped' /\ events' >= events
  BY <1>1, SmallTypes
<1> QED
  BY <1>1, <1>5, <1>8, <1>14, <1>15, <1>16, <1>17, SweepStep

LEMMA ExamineFailsSafe ==
  ASSUME IInv, NEW w \in Sweeps, ExamineFails(w)
  PROVE  IInv'
<1>1. InBody(w)
  BY DEF ExamineFails, InBody, Working, IInv, SweepsSound, Sound, ActsOnBatch
<1> QED
  BY <1>1, LeaveSafe DEF ExamineFails

-----------------------------------------------------------------------------
(* Actions on the rows *)

\* A sweep goes from one step of its plan to another, with the batch as it was.
LEMMA SameBatchSound ==
  ASSUME NEW c \in Sweep, Sound(c), c.at \in Acting,
         NEW s \in Sweep, s.at \in Acting \cup {"marker"},
         s.batch = c.batch, s.last = c.last, s.speaks = c.speaks, ActsOnBatch(s)
  PROVE  Sound(s)
<1>1. Batch(s) = Batch(c)
  BY DEF Batch
<1>2. SpeaksForSeen(s)
  BY DEF Sound, SpeaksForSeen, Acting
<1> QED
  BY <1>1, <1>2 DEF Sound, BatchOwns, BatchExamined

LEMMA PlanSafe ==
  ASSUME IInv, NEW w \in Sweeps, Plan(w)
  PROVE  IInv'
<1>1. TypeOK /\ ctx[w] \in Sweep /\ Sound(ctx[w])
  BY DEF IInv, TypeOK, SweepsSound
<1>2. ctx[w].at = "plan" /\ ctx[w].left \subseteq Ids /\ UNCHANGED <<pool, redis, events, history>>
  BY <1>1 DEF Plan, PlanMerge, PlanDrop, PlanDone, Sweep
<1>3. InBody(w)
  BY <1>1, <1>2 DEF InBody, Working, Sound, ActsOnBatch
<1>4. Batch(ctx[w]) \subseteq Ids /\ ctx[w].left \subseteq Batch(ctx[w]) /\ ~ctx[w].orphan
      /\ 0 \notin Ids /\ Ids = (0 .. MaxFacts) \ {0}
  BY <1>1, <1>2, FactsCounted DEF Batch, Sound, ActsOnBatch, Ids
<1>5. ASSUME NEW survivor \in ctx[w].left, NEW losers \in SUBSET ctx[w].left,
             PlanMerge(w, survivor, losers)
      PROVE  IInv'
  <2>1. PICK s : s = [ctx[w] EXCEPT !.at = "rewrite", !.into = survivor, !.fold = losers,
                        !.left = @ \ (losers \cup {survivor})]
    OBVIOUS
  <2>2. s.at = "rewrite" /\ s.into = survivor /\ s.fold = losers /\ s.batch = ctx[w].batch
        /\ s.left \subseteq ctx[w].left /\ s.last = ctx[w].last /\ s.speaks = ctx[w].speaks
        /\ s.orphan = ctx[w].orphan
    BY <1>1, <2>1 DEF Sweep
  <2>3. s \in Sweep
    <3>1. survivor \in 0 .. MaxFacts /\ losers \subseteq Ids /\ "rewrite" \in Working
          /\ ctx[w].left \ (losers \cup {survivor}) \subseteq Ids
      BY <1>2, <1>4 DEF Working
    <3> QED
      BY <1>1, <2>1, <3>1 DEF Sweep
  <2>4. ActsOnBatch(s)
    BY <1>4, <1>5, <2>2 DEF ActsOnBatch, Batch, PlanMerge
  <2>5. Sound(s)
    BY <1>1, <1>2, <2>2, <2>3, <2>4, SameBatchSound DEF Acting
  <2> QED
    BY <1>2, <1>3, <1>5, <2>1, <2>3, <2>5, QuietStep DEF PlanMerge
<1>6. ASSUME NEW r \in ctx[w].left, PlanDrop(w, r)
      PROVE  IInv'
  <2>1. PICK s : s = [ctx[w] EXCEPT !.at = "fold", !.into = 0, !.fold = {r}, !.left = @ \ {r}]
    OBVIOUS
  <2>2. s.at = "fold" /\ s.into = 0 /\ s.fold = {r} /\ s.batch = ctx[w].batch
        /\ s.left \subseteq ctx[w].left /\ s.last = ctx[w].last /\ s.speaks = ctx[w].speaks
        /\ s.orphan = ctx[w].orphan
    BY <1>1, <2>1 DEF Sweep
  <2>3. s \in Sweep
    <3>1. 0 \in 0 .. MaxFacts /\ {r} \subseteq Ids /\ "fold" \in Working
          /\ ctx[w].left \ {r} \subseteq Ids
      BY <1>2, FactsCounted DEF Working
    <3> QED
      BY <1>1, <2>1, <3>1 DEF Sweep
  <2>4. ActsOnBatch(s)
    BY <1>4, <2>2 DEF ActsOnBatch, Batch
  <2>5. Sound(s)
    BY <1>1, <1>2, <2>2, <2>3, <2>4, SameBatchSound DEF Acting
  <2> QED
    BY <1>2, <1>3, <1>6, <2>1, <2>3, <2>5, QuietStep DEF PlanDrop
<1>7. CASE PlanDone(w)
  <2>1. PICK s : s = [ctx[w] EXCEPT !.at = "marker"]
    OBVIOUS
  <2>2. s.at = "marker" /\ s.into = ctx[w].into /\ s.fold = ctx[w].fold /\ s.batch = ctx[w].batch
        /\ s.left = ctx[w].left /\ s.last = ctx[w].last /\ s.speaks = ctx[w].speaks
        /\ s.orphan = ctx[w].orphan
    BY <1>1, <2>1 DEF Sweep
  <2>3. s \in Sweep
    BY <1>1, <2>1 DEF Sweep, Working
  <2>4. ActsOnBatch(s)
    BY <1>1, <1>4, <2>2 DEF Sound, ActsOnBatch, Batch
  <2>5. Sound(s)
    BY <1>1, <1>2, <2>2, <2>3, <2>4, SameBatchSound DEF Acting
  <2> QED
    BY <1>2, <1>3, <1>7, <2>1, <2>3, <2>5, QuietStep DEF PlanDone, Go
<1> QED
  BY <1>5, <1>6, <1>7 DEF Plan

\* One row changes.
LEMMA RowStep ==
  ASSUME IInv, Grown, UNCHANGED dreams, NEW r0 \in Ids, NEW row \in Row \cup {Absent},
         rows' = [rows EXCEPT ![r0] = row],
         row # Absent =>
           /\ row.at >= dreams \/ \A f \in row.holds : fate[f] >= PassedOver
           /\ r0 <= minted' /\ (r0 \in row.holds \/ fate'[r0] = Lost),
         \A f \in Ids :
           /\ f \in minted + 1 .. minted' \/ (Recallable(r0) /\ f \in rows[r0].holds)
           /\ fate'[f] # Lost
           => \/ row # Absent /\ ~row.tomb /\ f \in row.holds
              \/ \E r \in Ids \ {r0} : Recallable(r) /\ f \in rows[r].holds
  PROVE  rows' \in Rows /\ RowsOwn' /\ NothingForgotten' /\ NoneStampedUnseen'
<1>0. TypeOK
  BY DEF IInv
<1>1. rows' \in Rows
  BY <1>0 DEF TypeOK, Rows
<1>2. /\ rows'[r0] = row
      /\ \A r \in Ids \ {r0} : rows'[r] = rows[r]
  BY <1>0 DEF TypeOK, Rows
<1>3. RowsOwn'
  <2> SUFFICES ASSUME NEW r \in Ids, rows'[r] # Absent
               PROVE  r <= minted' /\ (r \in rows'[r].holds \/ fate'[r] = Lost)
    BY DEF RowsOwn, Exists, OwnFact
  <2>1. CASE r = r0
    BY <1>2, <2>1
  <2>2. CASE r # r0
    <3>1. r <= minted /\ (r \in rows[r].holds \/ fate[r] = Lost)
      BY <1>2, <2>2 DEF IInv, RowsOwn, OwnFact, Exists
    <3>2. fate[r] = Lost => fate'[r] = Lost
      BY <1>0, LostStays
    <3>3. r <= minted'
      BY <1>0, <3>1, FactsCounted DEF TypeOK, Grown, Ids
    <3> QED
      BY <1>2, <2>2, <3>1, <3>2, <3>3
  <2> QED
    BY <2>1, <2>2
<1>4. NothingForgotten'
  <2> SUFFICES ASSUME NEW f \in 1 .. minted', fate'[f] # Lost
               PROVE  \E r \in Ids : rows'[r] # Absent /\ ~rows'[r].tomb /\ f \in rows'[r].holds
    BY DEF NothingForgotten, Recallable, Exists
  <2>1. f \in Ids /\ minted \in Nat /\ minted' \in Nat
    BY <1>0, FactsCounted DEF TypeOK, Grown, Ids
  <2>2. CASE f \in minted + 1 .. minted'
    BY <1>2, <2>1, <2>2 DEF Recallable, Exists
  <2>3. CASE f \in 1 .. minted
    <3>1. fate[f] # Lost
      BY <1>0, <2>1, LostStays
    <3>2. PICK r \in Ids : Recallable(r) /\ f \in rows[r].holds
      BY <2>3, <3>1 DEF IInv, NothingForgotten
    <3>3. CASE r = r0
      BY <1>2, <2>1, <3>2, <3>3 DEF Recallable, Exists
    <3>4. CASE r # r0
      BY <1>2, <3>2, <3>4 DEF Recallable, Exists
    <3> QED
      BY <3>3, <3>4
  <2> QED
    BY <2>1, <2>2, <2>3
<1>5. NoneStampedUnseen'
  <2>1. \A f \in Ids : fate[f] >= PassedOver => fate'[f] >= PassedOver
    BY <1>0 DEF Grown, TypeOK, PassedOver, Pending, Lost
  <2> SUFFICES ASSUME NEW r \in Ids, rows'[r] # Absent, rows'[r].at < dreams, NEW f \in rows'[r].holds
               PROVE  fate[f] >= PassedOver /\ f \in Ids
    BY <2>1 DEF NoneStampedUnseen, Exists
  <2>2. rows'[r] \in Row
    BY <1>1 DEF Rows
  <2>3. CASE r = r0
    BY <1>0, <1>2, <2>2, <2>3 DEF Row, TypeOK
  <2>4. CASE r # r0
    BY <1>2, <2>2, <2>4 DEF Row, IInv, NoneStampedUnseen, Exists
  <2> QED
    BY <2>3, <2>4
<1> QED
  BY <1>1, <1>3, <1>4, <1>5

\* A step of an action: it changes one row, and what it costs is lost.
LEMMA ActionStep ==
  ASSUME IInv, NEW w \in Sweeps, NEW s \in Sweep, Set(w, s), Sound(s),
         s.at \in Working /\ ~s.orphan => InBody(w),
         NEW r0 \in Ids, NEW row \in Row \cup {Absent}, NEW X,
         rows' = [rows EXCEPT ![r0] = row],
         fate' = Raised(X, Lost),
         UNCHANGED <<minted, redis, events, overran>>,
         row # Absent =>
           /\ row.at >= dreams \/ \A f \in row.holds : fate[f] >= PassedOver
           /\ OwnFact(r0, row),
         \A f \in Ids :
           Recallable(r0) /\ f \in rows[r0].holds /\ f \notin X
           => \/ row # Absent /\ ~row.tomb /\ f \in row.holds
              \/ \E r \in Ids \ {r0} : Recallable(r) /\ f \in rows[r].holds
  PROVE  IInv'
<1>0. TypeOK /\ LockHeld /\ SweepsSound /\ MarkerWasExamined /\ Counted
  BY DEF IInv
<1>1. UNCHANGED <<minted, dreams, due, marker, lock, events, overran>>
  BY DEF redis
<1>2. /\ fate' \in [Ids -> Pending .. Lost]
      /\ \A f \in Ids : fate'[f] >= fate[f]
      /\ \A f \in Ids : f \in X => fate'[f] >= Lost
  <2>1. Lost \in Pending .. Lost
    BY DEF Pending, Lost
  <2> QED
    BY <1>0, <2>1, RaisedGrows
<1>3. Grown
  BY <1>0, <1>1, <1>2 DEF Grown, TypeOK
<1>4. \A f \in Ids : f \in X => fate'[f] = Lost
  BY <1>2 DEF Pending, Lost
<1>5. row # Absent => r0 <= minted' /\ (r0 \in row.holds \/ fate'[r0] = Lost)
  BY <1>0, <1>1, <1>3, LostStays DEF OwnFact
<1>6. ~\E f \in Ids : f \in minted + 1 .. minted'
  BY <1>0, <1>1 DEF TypeOK
<1>7. rows' \in Rows /\ RowsOwn' /\ NothingForgotten' /\ NoneStampedUnseen'
  BY <1>1, <1>3, <1>4, <1>5, <1>6, RowStep
<1>8. ctx' \in [Sweeps -> Sweep] /\ SweepsSound'
  <2>1. Sound(s)'
    BY <1>0, <1>3, SoundStays
  <2> QED
    BY <1>0, <1>3, <2>1, OneSweepChanges
<1>9. LockHeld'
  BY <1>0, <1>1, LockKept
<1>10. TypeOK'
  BY <1>0, <1>1, <1>3, <1>7, <1>8 DEF TypeOK, Grown
<1>11. Counted'
  BY <1>0, <1>1 DEF Counted
<1>12. MarkerWasExamined'
  BY <1>0, <1>1, <1>3, MarkerKept
<1> QED
  BY <1>7, <1>8, <1>9, <1>10, <1>11, <1>12 DEF IInv

\* An action ends: the next one begins, or the thread it was ends with it.
LEMMA NextActionSound ==
  ASSUME IInv, NEW w \in Sweeps, ctx[w].at \in {"rewrite", "upsert", "fold"},
         NEW s, s = IF NextAction(w).orphan THEN Idle ELSE NextAction(w)
  PROVE  s \in Sweep /\ Sound(s) /\ (s.at \in Working /\ ~s.orphan => InBody(w))
<1>1. TypeOK /\ ctx[w] \in Sweep /\ Sound(ctx[w])
  BY DEF IInv, TypeOK, SweepsSound
<1>2. PICK n : n = NextAction(w)
  OBVIOUS
<1>3. /\ n.at = "plan" /\ n.into = 0 /\ n.fold = {} /\ n.batch = ctx[w].batch
      /\ n.left = ctx[w].left /\ n.last = ctx[w].last /\ n.speaks = ctx[w].speaks
      /\ n.orphan = ctx[w].orphan
  BY <1>1, <1>2 DEF NextAction, Sweep
<1>4. CASE ctx[w].orphan
  <2>1. s = Idle
    BY <1>2, <1>3, <1>4
  <2> QED
    BY <1>1, <2>1, RestingSound, RestingIsBare, IdleIsSweep
<1>5. CASE ~ctx[w].orphan
  <2>1. s = n
    BY <1>2, <1>3, <1>5
  <2>2. s \in Sweep
    <3>1. 0 \in 0 .. MaxFacts /\ "plan" \in Working
      BY FactsCounted DEF Working
    <3> QED
      BY <1>1, <1>2, <2>1, <3>1 DEF NextAction, Sweep
  <2>3. ActsOnBatch(s)
    BY <1>1, <1>3, <1>5, <2>1 DEF ActsOnBatch, Sound, Batch
  <2>4. Sound(s)
    BY <1>1, <1>3, <2>1, <2>2, <2>3, SameBatchSound DEF Acting
  <2> QED
    BY <1>5, <2>2, <2>4 DEF InBody, Working
<1> QED
  BY <1>4, <1>5

LEMMA RewriteReadSafe ==
  ASSUME IInv, NEW w \in Sweeps, RewriteRead(w)
  PROVE  IInv'
<1>1. TypeOK /\ ctx[w] \in Sweep /\ Sound(ctx[w]) /\ ctx[w].at = "rewrite"
  BY DEF IInv, TypeOK, SweepsSound, RewriteRead
<1>2. UNCHANGED <<pool, redis, events, history>>
  BY DEF RewriteRead
<1>3. CASE Exists(ctx[w].into)
           /\ Set(w, [ctx[w] EXCEPT !.at = "upsert", !.buried = rows[ctx[w].into].tomb])
  <2>1. PICK s : s = [ctx[w] EXCEPT !.at = "upsert", !.buried = rows[ctx[w].into].tomb]
    OBVIOUS
  <2>2. s.at = "upsert" /\ s.into = ctx[w].into /\ s.fold = ctx[w].fold /\ s.batch = ctx[w].batch
        /\ s.left = ctx[w].left /\ s.last = ctx[w].last /\ s.speaks = ctx[w].speaks
        /\ s.orphan = ctx[w].orphan
    BY <1>1, <2>1 DEF Sweep
  <2>3. ctx[w].into \in Ids
    BY <1>1 DEF Sound, ActsOnBatch, Batch
  <2>4. rows[ctx[w].into].tomb \in BOOLEAN /\ "upsert" \in Working
    BY <1>1, <1>3, <2>3 DEF TypeOK, Rows, Row, Exists, Working
  <2>5. s \in Sweep
    BY <1>1, <2>1, <2>4 DEF Sweep
  <2>6. ActsOnBatch(s)
    BY <1>1, <2>2 DEF ActsOnBatch, Sound, Batch
  <2>7. Sound(s)
    BY <1>1, <2>2, <2>5, <2>6, SameBatchSound DEF Acting
  <2>8. s.at \in Working /\ ~s.orphan => InBody(w)
    BY <1>1, <2>2 DEF InBody, Working
  <2> QED
    BY <1>2, <1>3, <2>1, <2>5, <2>7, <2>8, QuietStep
<1>4. CASE Then(w, NextAction(w))
  <2>1. PICK s : s = IF NextAction(w).orphan THEN Idle ELSE NextAction(w)
    OBVIOUS
  <2> QED
    BY <1>1, <1>2, <1>4, <2>1, NextActionSound, QuietStep DEF Then
<1> QED
  BY <1>3, <1>4 DEF RewriteRead

LEMMA ActionFailsSafe ==
  ASSUME IInv, NEW w \in Sweeps, ActionFails(w)
  PROVE  IInv'
<1>1. PICK s : s = IF NextAction(w).orphan THEN Idle ELSE NextAction(w)
  OBVIOUS
<1> QED
  BY <1>1, NextActionSound, QuietStep DEF ActionFails, Then

LEMMA UpsertSafe ==
  ASSUME IInv, NEW w \in Sweeps, Upsert(w)
  PROVE  IInv'
<1> DEFINE s0 == ctx[w].into
           involved == ctx[w].fold \cup {s0}
           R == Rewritten(w)
           X == IF ctx[w].buried \/ \E r \in involved : Overtaken(w, r)
                THEN UNION {FactsOf(r) : r \in involved} ELSE {}
<1>1. TypeOK /\ ctx[w] \in Sweep /\ Sound(ctx[w]) /\ ctx[w].at = "upsert"
  BY DEF IInv, TypeOK, SweepsSound, Upsert
<1>2. s0 \in Ids /\ involved \subseteq Batch(ctx[w]) /\ s0 \notin ctx[w].fold
  BY <1>1 DEF Sound, ActsOnBatch, Batch
<1>3. \A r \in involved : r \in Ids /\ ctx[w].batch[r] \in Row /\ ctx[w].batch[r].holds \subseteq Ids
  BY <1>1, <1>2 DEF Batch, Sweep, Rows, Row
<1>4. \A r \in involved : ctx[w].batch[r].holds \subseteq Content(w)
  BY DEF Content
<1>5. R \in Row /\ R.at = dreams /\ R.holds = Content(w) /\ R.tomb = ctx[w].buried
  <2>1. Content(w) \subseteq Ids
    BY <1>3 DEF Content
  <2> QED
    BY <1>1, <2>1 DEF Rewritten, Row, TypeOK, Sweep
<1>6. OwnFact(s0, R)
  BY <1>1, <1>2, <1>4, <1>5 DEF Sound, BatchOwns, OwnFact
<1>7. rows' = [rows EXCEPT ![s0] = R] /\ fate' = Raised(X, Lost)
      /\ UNCHANGED <<minted, redis, events, overran>>
  BY DEF Upsert
<1>8. ASSUME NEW f \in Ids, Recallable(s0), f \in rows[s0].holds, f \notin X
      PROVE  R # Absent /\ ~R.tomb /\ f \in R.holds
  <2>1. f \in FactsOf(s0)
    BY <1>8 DEF FactsOf, Recallable
  <2>2. ~ctx[w].buried /\ ~Overtaken(w, s0)
    BY <1>8, <2>1
  <2>3. rows[s0] = ctx[w].batch[s0]
    BY <2>2 DEF Overtaken
  <2> QED
    BY <1>4, <1>5, <1>8, <2>2, <2>3, AbsentIsNoRow
<1>9. ASSUME NEW s \in Sweep, Set(w, s), Sound(s), s.at \in Working /\ ~s.orphan => InBody(w)
      PROVE  IInv'
  <2>1. R.at >= dreams
    BY <1>1, <1>5 DEF TypeOK
  <2> HIDE DEF X, R, s0
  <2> QED
    BY <1>2, <1>5, <1>6, <1>7, <1>8, <1>9, <2>1, ActionStep
<1>10. CASE Then(w, NextAction(w))
  <2>1. PICK s : s = IF NextAction(w).orphan THEN Idle ELSE NextAction(w)
    OBVIOUS
  <2> QED
    BY <1>1, <1>9, <1>10, <2>1, NextActionSound DEF Then
<1>11. CASE Then(w, [ctx[w] EXCEPT !.at = "fold", !.batch[s0] = R])
  <2>1. PICK n : n = [ctx[w] EXCEPT !.at = "fold", !.batch[s0] = R]
    OBVIOUS
  <2>2. /\ n.at = "fold" /\ n.into = s0 /\ n.fold = ctx[w].fold
        /\ n.left = ctx[w].left /\ n.last = ctx[w].last /\ n.speaks = ctx[w].speaks
        /\ n.orphan = ctx[w].orphan /\ n.batch = [ctx[w].batch EXCEPT ![s0] = R]
    BY <1>1, <2>1 DEF Sweep
  <2>3. n.batch \in Rows
    BY <1>1, <1>2, <1>5, <2>2 DEF Sweep, Rows
  <2>4. n \in Sweep
    <3>1. [ctx[w].batch EXCEPT ![s0] = R] \in Rows /\ "fold" \in Working
      BY <2>2, <2>3 DEF Working
    <3> QED
      BY <1>1, <2>1, <3>1 DEF Sweep
  <2>5. n.batch[s0] = R /\ \A r \in Ids \ {s0} : n.batch[r] = ctx[w].batch[r]
    BY <1>1, <1>2, <2>2 DEF Sweep, Rows
  <2>6. Batch(n) = Batch(ctx[w])
    BY <1>2, <1>5, <2>5, AbsentIsNoRow DEF Batch
  <2>7. BatchOwns(n)
    BY <1>1, <1>6, <2>5, <2>6 DEF BatchOwns, Sound, Batch
  <2>8. SpeaksForSeen(n) /\ BatchExamined(n)
    BY <1>1, <2>2, <2>6 DEF SpeaksForSeen, BatchExamined, Sound, Acting
  <2>9. ActsOnBatch(n)
    <3>1. \A r \in n.fold : n.batch[r].holds \subseteq n.batch[s0].holds
      BY <1>2, <1>3, <1>4, <1>5, <2>2, <2>5
    <3> QED
      BY <1>1, <1>2, <2>2, <2>6, <3>1 DEF ActsOnBatch, Sound
  <2>10. Sound(n)
    BY <1>1, <2>2, <2>7, <2>8, <2>9 DEF Sound
  <2>11. CASE n.orphan
    <3>1. Set(w, Idle) /\ Sound(Idle)
      BY <1>1, <1>11, <2>1, <2>11, RestingSound DEF Then
    <3> QED
      BY <1>9, <3>1, IdleIsSweep, RestingIsBare
  <2>12. CASE ~n.orphan
    <3>1. Set(w, n) /\ InBody(w)
      BY <1>1, <1>11, <2>1, <2>2, <2>12 DEF Then, InBody, Working
    <3> QED
      BY <1>9, <2>4, <2>10, <3>1
  <2> QED
    BY <2>11, <2>12
<1> QED
  BY <1>10, <1>11 DEF Upsert

LEMMA FoldSafe ==
  ASSUME IInv, NEW w \in Sweeps, NEW r0 \in Ids, NEW to, Fold(w, r0, to),
         to = Absent \/ (Exists(r0) /\ to = [rows[r0] EXCEPT !.tomb = TRUE])
  PROVE  IInv'
<1> DEFINE s0 == ctx[w].into
           rest == ctx[w].fold \ {r0}
           X == (IF s0 = 0 THEN ctx[w].batch[r0].holds ELSE {}) \cup
                (IF Overtaken(w, r0) \/ (s0 # 0 /\ Overtaken(w, s0)) THEN FactsOf(r0) ELSE {})
<1>1. TypeOK /\ ctx[w] \in Sweep /\ Sound(ctx[w]) /\ ctx[w].at = "fold" /\ r0 \in ctx[w].fold
  BY DEF IInv, TypeOK, SweepsSound, Fold
<1>2. rows' = [rows EXCEPT ![r0] = to] /\ fate' = Raised(X, Lost)
      /\ UNCHANGED <<minted, redis, events, overran>>
  BY DEF Fold
<1>3. to # Absent => Exists(r0) /\ rows[r0] \in Row /\ to \in Row
                     /\ to.holds = rows[r0].holds /\ to.at = rows[r0].at
  BY <1>1 DEF Exists, TypeOK, Rows, Row
<1>4. to \in Row \cup {Absent}
  BY <1>3
<1>5. to # Absent => OwnFact(r0, to)
  BY <1>3 DEF IInv, RowsOwn, OwnFact
<1>6. to # Absent => to.at >= dreams \/ \A f \in to.holds : fate[f] >= PassedOver
  <2> SUFFICES ASSUME to # Absent, ~(to.at >= dreams)
               PROVE  \A f \in to.holds : fate[f] >= PassedOver
    OBVIOUS
  <2>1. rows[r0].at \in Nat /\ dreams \in Nat
    BY <1>1, <1>3 DEF Row, TypeOK
  <2>2. rows[r0].at < dreams
    BY <1>3, <2>1
  <2> QED
    BY <1>3, <2>2 DEF IInv, NoneStampedUnseen
<1>7. ASSUME NEW f \in Ids, Recallable(r0), f \in rows[r0].holds, f \notin X
      PROVE  \E r \in Ids \ {r0} : Recallable(r) /\ f \in rows[r].holds
  <2>1. f \in FactsOf(r0)
    BY <1>7 DEF FactsOf, Recallable
  <2>2. ~Overtaken(w, r0) /\ (s0 # 0 => ~Overtaken(w, s0))
    BY <1>7, <2>1
  <2>3. rows[r0] = ctx[w].batch[r0]
    BY <2>2 DEF Overtaken
  <2>4. s0 # 0
    BY <1>7, <2>3
  <2>5. s0 \in Batch(ctx[w]) /\ s0 # r0 /\ ctx[w].batch[r0].holds \subseteq ctx[w].batch[s0].holds
    BY <1>1, <2>4 DEF Sound, ActsOnBatch
  <2>6. rows[s0] = ctx[w].batch[s0] /\ ~ctx[w].batch[s0].tomb
    BY <2>2, <2>4 DEF Overtaken
  <2>7. s0 \in Ids /\ Recallable(s0) /\ f \in rows[s0].holds
    BY <1>7, <2>3, <2>5, <2>6 DEF Batch, Recallable, Exists
  <2> QED
    BY <2>5, <2>7
<1>8. ASSUME NEW s \in Sweep, Set(w, s), Sound(s), s.at \in Working /\ ~s.orphan => InBody(w)
      PROVE  IInv'
  <2>1. to # Absent => (to.at >= dreams \/ \A f \in to.holds : fate[f] >= PassedOver)
                       /\ OwnFact(r0, to)
    BY <1>5, <1>6
  <2> HIDE DEF X, s0
  <2> QED
    BY <1>2, <1>4, <1>7, <1>8, <2>1, ActionStep
<1>9. CASE Then(w, NextAction(w))
  <2>1. PICK s : s = IF NextAction(w).orphan THEN Idle ELSE NextAction(w)
    OBVIOUS
  <2> QED
    BY <1>1, <1>8, <1>9, <2>1, NextActionSound DEF Then
<1>10. CASE Then(w, [ctx[w] EXCEPT !.fold = rest])
  <2>1. PICK n : n = [ctx[w] EXCEPT !.fold = rest]
    OBVIOUS
  <2>2. /\ n.at = "fold" /\ n.into = s0 /\ n.fold = rest /\ n.batch = ctx[w].batch
        /\ n.left = ctx[w].left /\ n.last = ctx[w].last /\ n.speaks = ctx[w].speaks
        /\ n.orphan = ctx[w].orphan
    BY <1>1, <2>1 DEF Sweep
  <2>3. n \in Sweep
    <3>1. rest \subseteq Ids
      BY <1>1 DEF Sweep
    <3> QED
      BY <1>1, <2>1, <3>1 DEF Sweep
  <2>4. ActsOnBatch(n)
    BY <1>1, <2>2 DEF ActsOnBatch, Sound, Batch
  <2>5. Sound(n)
    BY <1>1, <2>2, <2>3, <2>4, SameBatchSound DEF Acting
  <2>6. CASE n.orphan
    <3>1. Set(w, Idle) /\ Sound(Idle)
      BY <1>1, <1>10, <2>1, <2>6, RestingSound DEF Then
    <3> QED
      BY <1>8, <3>1, IdleIsSweep, RestingIsBare
  <2>7. CASE ~n.orphan
    <3>1. Set(w, n) /\ InBody(w)
      BY <1>1, <1>10, <2>1, <2>2, <2>7 DEF Then, InBody, Working
    <3> QED
      BY <1>8, <2>3, <2>5, <3>1
  <2> QED
    BY <2>6, <2>7
<1> QED
  BY <1>9, <1>10 DEF Fold

LEMMA TombstoneSafe ==
  ASSUME IInv, NEW w \in Sweeps, NEW r \in Ids, Tombstone(w, r) \/ Purge(w, r)
  PROVE  IInv'
<1>1. CASE Tombstone(w, r)
  <2>1. PICK to : to = IF Exists(r) THEN [rows[r] EXCEPT !.tomb = TRUE] ELSE Absent
    OBVIOUS
  <2> QED
    BY <1>1, <2>1, FoldSafe DEF Tombstone
<1>2. CASE Purge(w, r)
  BY <1>2, FoldSafe DEF Purge
<1> QED
  BY <1>1, <1>2

-----------------------------------------------------------------------------
(* What is recorded *)

LEMMA SetMarkerSafe ==
  ASSUME IInv, NEW w \in Sweeps, SetMarker(w)
  PROVE  IInv'
<1>0. TypeOK /\ LockHeld /\ SweepsSound /\ Counted
  BY DEF IInv
<1>1. UNCHANGED <<rows, minted, dreams, due, lock, events, overran, fate>>
  BY DEF SetMarker, pool, history
<1>2. ctx[w].at = "marker" /\ ctx[w] \in Sweep /\ Sound(ctx[w])
  BY <1>0 DEF SetMarker, TypeOK, SweepsSound
<1>3. Grown
  BY <1>0, <1>1, GrownIfUnchanged
<1>4. PICK s : s = [Idle EXCEPT !.at = "stamp", !.speaks = ctx[w].speaks]
  OBVIOUS
<1>5. s \in Sweep /\ Sound(s) /\ Set(w, s)
  BY <1>2, <1>4, ToStampSound DEF SetMarker, ToStamp
<1>6. ctx' \in [Sweeps -> Sweep] /\ SweepsSound'
  BY <1>0, <1>3, <1>5, SoundStays, OneSweepChanges
<1>7. InBody(w)
  BY <1>2 DEF InBody, Working, Sound, ActsOnBatch
<1>8. LockHeld'
  BY <1>0, <1>1, <1>5, <1>7, LockKept
<1>9. marker' = Batch(ctx[w]) /\ marker' \subseteq Ids
  BY DEF SetMarker, Staged, Batch
<1>10. MarkerWasExamined'
  BY <1>1, <1>2, <1>9 DEF MarkerWasExamined, Sound, BatchExamined
<1>11. TypeOK'
  BY <1>0, <1>1, <1>6, <1>9 DEF TypeOK
<1>12. Counted'
  BY <1>0, <1>1 DEF Counted
<1> QED
  BY <1>1, <1>3, <1>6, <1>8, <1>10, <1>11, <1>12, PoolKept DEF IInv

LEMMA StampSafe ==
  ASSUME IInv, NEW w \in Sweeps, Stamp(w)
  PROVE  IInv'
<1>0. TypeOK /\ LockHeld /\ SweepsSound /\ Counted /\ MarkerWasExamined
  BY DEF IInv
<1>1. UNCHANGED <<rows, minted, marker, lock, events, overran>> /\ due' = FALSE
  BY DEF Stamp, pool
<1>2. ctx[w].at = "stamp" /\ ctx[w] \in Sweep /\ Sound(ctx[w])
  BY <1>0 DEF Stamp, TypeOK, SweepsSound
<1>3. fate' = Raised(StoredFacts \ ctx[w].speaks, PassedOver) /\ PassedOver \in Pending .. Lost
  BY DEF Stamp, PassedOver, Pending, Lost
<1>4. /\ fate' \in [Ids -> Pending .. Lost]
      /\ \A f \in Ids : fate'[f] >= fate[f]
      /\ \A f \in Ids : f \in StoredFacts \ ctx[w].speaks => fate'[f] >= PassedOver
      /\ \A f \in Ids : fate'[f] # fate[f] => f \in StoredFacts \ ctx[w].speaks
  BY <1>0, <1>3, RaisedGrows
<1>5. dreams' = dreams + 1 /\ dreams \in Nat
  BY <1>0 DEF Stamp, TypeOK
<1>6. Grown
  BY <1>0, <1>1, <1>4, <1>5 DEF Grown, TypeOK
<1>7. PICK s : s = [Idle EXCEPT !.at = "release"]
  OBVIOUS
<1>8. s \in Sweep /\ Sound(s) /\ Set(w, s)
  BY <1>0, <1>7, RestingSound, RestingIsBare DEF Bare, Stamp, Leave
<1>9. ctx' \in [Sweeps -> Sweep] /\ SweepsSound'
  BY <1>0, <1>6, <1>8, SoundStays, OneSweepChanges
<1>10. LockHeld'
  <2>1. InBody(w)
    BY <1>2 DEF InBody, Working, Sound, ActsOnBatch
  <2> QED
    BY <1>0, <1>1, <1>8, <2>1, LockKept
<1>11. NoneStampedUnseen'
  <2> SUFFICES ASSUME NEW r \in Ids, Exists(r), NEW f \in rows[r].holds
               PROVE  fate'[f] >= PassedOver
    BY <1>1 DEF NoneStampedUnseen, Exists
  <2>1. f \in Ids /\ f \in StoredFacts
    BY <1>0 DEF TypeOK, Rows, Row, Exists, StoredFacts, FactsOf
  <2>2. fate[f] \in Pending .. Lost /\ fate'[f] \in Pending .. Lost /\ fate'[f] >= fate[f]
    BY <1>0, <1>4, <2>1 DEF TypeOK
  <2>3. CASE f \in ctx[w].speaks
    <3>1. fate[f] >= PassedOver
      BY <1>2, <2>3 DEF Sound, SpeaksForSeen
    <3> QED
      BY <2>2, <3>1 DEF Pending, PassedOver, Lost
  <2>4. CASE f \notin ctx[w].speaks
    BY <1>4, <2>1, <2>4
  <2> QED
    BY <2>3, <2>4
<1>12. NothingForgotten' /\ RowsOwn'
  <2>1. NothingForgotten'
    <3>1. \A f \in Ids : fate'[f] # Lost => fate[f] # Lost
      BY <1>0, <1>6, LostStays
    <3>2. \A f \in 1 .. minted : f \in Ids
      BY <1>0, FactsCounted DEF TypeOK, Ids
    <3> QED
      BY <1>1, <3>1, <3>2 DEF IInv, NothingForgotten, Recallable, Exists
  <2>2. RowsOwn'
    <3>1. \A f \in Ids : fate[f] = Lost => fate'[f] = Lost
      BY <1>0, <1>6, LostStays
    <3> QED
      BY <1>1, <3>1 DEF IInv, RowsOwn, OwnFact, Exists
  <2> QED
    BY <2>1, <2>2
<1>13. MarkerWasExamined'
  BY <1>0, <1>1, <1>6, MarkerKept
<1>14. TypeOK'
  <2>1. dreams' \in Nat
    BY <1>5
  <2>2. rows' \in Rows /\ minted' \in 0 .. MaxFacts /\ marker' \subseteq Ids
        /\ lock' \in {Nobody} \cup {HeldBy(v) : v \in Sweeps}
        /\ events' \in 0 .. MaxEvents /\ overran' \subseteq Sweeps
    BY <1>0, <1>1 DEF TypeOK
  <2>3. due' \in BOOLEAN
    BY <1>1, Zenon
  <2> QED
    BY <1>4, <1>9, <2>1, <2>2, <2>3 DEF TypeOK
<1>15. Counted'
  BY <1>0, <1>1 DEF Counted
<1> QED
  BY <1>9, <1>10, <1>11, <1>12, <1>13, <1>14, <1>15 DEF IInv

LEMMA RecordFailsSafe ==
  ASSUME IInv, NEW w \in Sweeps, RecordFails(w)
  PROVE  IInv'
<1>1. InBody(w)
  BY DEF RecordFails, InBody, Working, IInv, SweepsSound, Sound, ActsOnBatch
<1>2. CASE ctx[w].at = "marker" /\ ToStamp(w)
  <2>1. PICK s : s = [Idle EXCEPT !.at = "stamp", !.speaks = ctx[w].speaks]
    OBVIOUS
  <2>2. s \in Sweep /\ Sound(s) /\ Set(w, s)
    BY <1>2, <2>1, ToStampSound DEF ToStamp
  <2> QED
    BY <1>1, <2>2, QuietStep DEF RecordFails
<1>3. CASE Leave(w)
  BY <1>1, <1>3, LeaveSafe DEF RecordFails
<1> QED
  BY <1>2, <1>3 DEF RecordFails

-----------------------------------------------------------------------------
(* How sweeps end *)

LEMMA ReleaseSafe ==
  ASSUME IInv, NEW w \in Sweeps, Release(w) \/ ReleaseFails(w) \/ Killed(w)
  PROVE  IInv'
<1>1. Sound(Idle) /\ Idle \in Sweep /\ ~(Idle.at \in Working)
  BY RestingSound, IdleIsSweep, RestingIsBare DEF IInv
<1>2. Set(w, Idle) /\ overran' = overran \ {w} /\ lock' \in {lock, Released(w)}
      /\ UNCHANGED <<pool, dreams, due, marker, fate>> /\ (Event \/ UNCHANGED events)
  BY DEF Release, ReleaseFails, Killed, redis
<1> QED
  BY <1>1, <1>2, EndStep

LEMMA RaisesSafe ==
  ASSUME IInv, NEW w \in Sweeps, Raises(w)
  PROVE  IInv'
<1>1. InBody(w)
  BY DEF Raises, InBody, Working, IInv, SweepsSound, Sound, ActsOnBatch
<1> QED
  BY <1>1, LeaveSafe DEF Raises

LEMMA CancelledSafe ==
  ASSUME IInv, NEW w \in Sweeps, Cancelled(w)
  PROVE  IInv'
<1>1. TypeOK /\ ctx[w] \in Sweep /\ Sound(ctx[w])
  BY DEF IInv, TypeOK, SweepsSound
<1>2. lock' \in {lock, Released(w)} /\ overran' = overran \ {w}
      /\ UNCHANGED <<pool, dreams, due, marker, fate>> /\ Event
  BY DEF Cancelled
<1>3. CASE ctx[w].at \in {"rewrite", "upsert", "fold"}
           /\ Set(w, [ctx[w] EXCEPT !.orphan = TRUE, !.left = {}, !.speaks = {}])
  <2>1. PICK s : s = [ctx[w] EXCEPT !.orphan = TRUE, !.left = {}, !.speaks = {}]
    OBVIOUS
  <2>2. s.at = ctx[w].at /\ s.orphan /\ s.left = {} /\ s.speaks = {} /\ s.batch = ctx[w].batch
        /\ s.last = ctx[w].last /\ s.into = ctx[w].into /\ s.fold = ctx[w].fold
    BY <1>1, <2>1 DEF Sweep
  <2>3. s \in Sweep
    BY <1>1, <2>1 DEF Sweep
  <2>4. Sound(s)
    BY <1>1, <1>3, <2>2
      DEF Sound, Batch, BatchOwns, SpeaksForSeen, BatchExamined, ActsOnBatch
  <2> QED
    BY <1>2, <1>3, <2>1, <2>2, <2>3, <2>4, EndStep
<1>4. CASE Set(w, Idle)
  BY <1>1, <1>2, <1>4, EndStep, RestingSound, IdleIsSweep, RestingIsBare
<1> QED
  BY <1>3, <1>4 DEF Cancelled

\* The sweeps go on as they were.
LEMMA SweepsKept ==
  ASSUME IInv, Grown, UNCHANGED ctx
  PROVE  ctx' \in [Sweeps -> Sweep] /\ SweepsSound'
<1>0. TypeOK /\ SweepsSound
  BY DEF IInv
<1>1. ASSUME NEW v \in Sweeps
      PROVE  Sound(ctx[v])'
  <2>1. PICK c : c = ctx[v]
    OBVIOUS
  <2>2. ctx'[v] = c /\ c \in Sweep /\ Sound(c)
    BY <1>0, <2>1 DEF TypeOK, SweepsSound
  <2>3. Sound(c)'
    BY <1>0, <2>2, SoundStays
  <2> QED
    BY <2>2, <2>3
      DEF Sound, BatchOwns, SpeaksForSeen, BatchExamined, ActsOnBatch, Batch, OwnFact
<1> QED
  BY <1>0, <1>1 DEF SweepsSound, TypeOK

\* A step of Redis or of time
LEMMA OutsideStep ==
  ASSUME IInv, UNCHANGED <<pool, dreams, marker, ctx, fate>>, SmallTyped', events' >= events,
         LockHeld'
  PROVE  IInv'
<1>1. TypeOK /\ MarkerWasExamined /\ Counted /\ UNCHANGED <<rows, minted, dreams, marker, fate>>
  BY DEF IInv, pool
<1>2. Grown
  BY <1>1, GrownIfUnchanged
<1>3. ctx' \in [Sweeps -> Sweep] /\ SweepsSound'
  BY <1>2, SweepsKept
<1>4. TypeOK'
  BY <1>1, <1>3 DEF TypeOK, SmallTyped
<1>5. Counted'
  <2>1. events \in Nat /\ events' \in Nat /\ minted \in Nat /\ AtStart \in Nat
    BY <1>1, <1>4, FactsCounted DEF TypeOK
  <2>2. \A m, a, e, f \in Nat : m <= a + e /\ f >= e => m <= a + f
    OBVIOUS
  <2>3. minted' = minted /\ events' >= events
    BY <1>1
  <2> QED
    BY <1>1, <2>1, <2>2, <2>3 DEF Counted
<1> QED
  BY <1>1, <1>2, <1>3, <1>4, <1>5, PoolKept, MarkerKept DEF IInv

LEMMA ExpirySafe ==
  ASSUME IInv, LockExpires \/ (\E w \in Sweeps : LockOutlived(w)) \/ TimePasses
  PROVE  IInv'
<1>1. TypeOK /\ LockHeld /\ SmallTyped
  BY SmallTypes DEF IInv
<1>2. CASE LockExpires
  <2>1. LockHeld'
    BY <1>1, <1>2 DEF LockExpires, LockHeld, InBody, history, HeldBy
  <2>2. SmallTyped' /\ events' >= events
    BY <1>1, <1>2, FactsCounted DEF LockExpires, history, SmallTyped
  <2> QED
    BY <1>2, <2>1, <2>2, OutsideStep DEF LockExpires, history
<1>3. ASSUME NEW w \in Sweeps, LockOutlived(w)
      PROVE  IInv'
  <2>1. LockHeld'
    BY <1>1, <1>3 DEF LockOutlived, LockHeld, InBody, HeldBy
  <2>2. SmallTyped' /\ events' >= events
    BY <1>1, <1>3, SmallTypes DEF LockOutlived, SmallTyped
  <2> QED
    BY <1>3, <2>1, <2>2, OutsideStep DEF LockOutlived
<1>4. CASE TimePasses
  <2>1. LockHeld'
    BY <1>1, <1>4 DEF TimePasses, LockHeld, InBody, history
  <2>2. SmallTyped' /\ events' >= events
    BY <1>1, <1>4, FactsCounted DEF TimePasses, history, SmallTyped
  <2> QED
    BY <1>4, <2>1, <2>2, OutsideStep DEF TimePasses, history
<1> QED
  BY <1>2, <1>3, <1>4

-----------------------------------------------------------------------------
(* Requests *)

\* A request changes one row, and what it takes away is lost.
LEMMA RequestStep ==
  ASSUME IInv, Event, NEW r0 \in Ids, NEW row \in Row \cup {Absent}, NEW X,
         rows' = [rows EXCEPT ![r0] = row], fate' = Raised(X, Lost),
         minted' \in minted .. minted + 1, UNCHANGED <<redis, ctx, overran>>,
         row # Absent => /\ row.at = dreams
                         /\ r0 <= minted' /\ (r0 \in row.holds \/ fate'[r0] = Lost),
         \A f \in Ids : f \in minted + 1 .. minted' => row # Absent /\ ~row.tomb /\ f \in row.holds,
         \A f \in Ids : Recallable(r0) /\ f \in rows[r0].holds => f \in X
  PROVE  IInv'
<1>0. TypeOK /\ LockHeld /\ SweepsSound /\ MarkerWasExamined /\ Counted
  BY DEF IInv
<1>1. UNCHANGED <<dreams, due, marker, lock, overran, ctx>>
  BY DEF redis
<1>2. /\ fate' \in [Ids -> Pending .. Lost]
      /\ \A f \in Ids : fate'[f] >= fate[f]
      /\ \A f \in Ids : f \in X => fate'[f] >= Lost
  <2>1. Lost \in Pending .. Lost
    BY DEF Pending, Lost
  <2> QED
    BY <1>0, <2>1, RaisedGrows
<1>3. \A f \in Ids : f \in X => fate'[f] = Lost
  BY <1>2 DEF Pending, Lost
<1>4. events' \in 0 .. MaxEvents /\ minted' \in 0 .. MaxFacts /\ minted' >= minted /\ Counted'
  <2>1. minted \in Nat /\ events \in Nat /\ AtStart \in Nat /\ MaxEvents \in Nat
    BY <1>0, FactsCounted DEF TypeOK
  <2>2. events < MaxEvents /\ events' = events + 1 /\ minted <= AtStart + events
    BY <1>0 DEF Event, Counted
  <2>3. minted' = minted \/ minted' = minted + 1
    BY <2>1
  <2>4. minted' \in Nat /\ minted' >= minted /\ minted' <= AtStart + events'
        /\ minted' <= AtStart + MaxEvents
    BY <2>1, <2>2, <2>3
  <2> QED
    BY <2>1, <2>2, <2>4 DEF MaxFacts, Counted
<1>5. Grown
  BY <1>0, <1>1, <1>2, <1>4 DEF Grown, TypeOK
<1>6. rows' \in Rows /\ RowsOwn' /\ NothingForgotten' /\ NoneStampedUnseen'
  <2>1. row # Absent => row.at >= dreams
    BY <1>0 DEF TypeOK
  <2> QED
    BY <1>1, <1>3, <1>5, <2>1, RowStep
<1>7. ctx' \in [Sweeps -> Sweep] /\ SweepsSound'
  BY <1>1, <1>5, SweepsKept
<1>8. LockHeld'
  BY <1>0, <1>1 DEF LockHeld, InBody
<1>9. TypeOK'
  BY <1>0, <1>1, <1>2, <1>4, <1>6, <1>7 DEF TypeOK
<1>10. MarkerWasExamined'
  BY <1>0, <1>1, <1>5, MarkerKept
<1> QED
  BY <1>4, <1>6, <1>7, <1>8, <1>9, <1>10 DEF IInv

\* There is an id for the next fact.
LEMMA FactMinted ==
  ASSUME IInv, Event, minted' = minted + 1
  PROVE  minted' \in Ids /\ minted \in Nat /\ ~Exists(minted')
         /\ \A f \in Ids : f \in minted + 1 .. minted' => f = minted'
<1>1. TypeOK /\ Counted /\ RowsOwn
  BY DEF IInv
<1>2. minted \in Nat /\ events \in Nat /\ AtStart \in Nat /\ MaxEvents \in Nat
  BY <1>1, FactsCounted DEF TypeOK
<1>3. events < MaxEvents /\ minted <= AtStart + events
  BY <1>1 DEF Event, Counted
<1>4. minted' \in Ids
  BY <1>2, <1>3 DEF Ids, MaxFacts
<1>5. ~Exists(minted')
  BY <1>1, <1>2, <1>4 DEF RowsOwn, OwnFact
<1> QED
  BY <1>2, <1>4, <1>5

LEMMA StoreSafe ==
  ASSUME IInv, Store
  PROVE  IInv'
<1>1. TypeOK /\ Event /\ minted' = minted + 1
  BY DEF IInv, Store
<1>2. PICK m \in Ids : m = minted' /\ m = minted + 1 /\ ~Exists(m) /\ minted \in Nat
  BY <1>1, FactMinted
<1>3. PICK row : row = NewRow(m, dreams)
  OBVIOUS
<1>4. row \in Row /\ row.at = dreams /\ row.holds = {m} /\ ~row.tomb
  BY <1>1, <1>2, <1>3, NewRowIsRow DEF NewRow, TypeOK
<1>5. rows' = [rows EXCEPT ![m] = row] /\ UNCHANGED <<redis, ctx, overran, fate>>
  BY <1>2, <1>3 DEF Store, history
<1>6. fate' = Raised({}, Lost)
  <2>1. fate = [f \in Ids |-> fate[f]]
    BY <1>1 DEF TypeOK
  <2> QED
    BY <1>5, <2>1 DEF Raised
<1>7. m <= minted' /\ m \in row.holds /\ minted' \in minted .. minted + 1
  BY <1>2, <1>4
<1>8. \A f \in Ids : f \in minted + 1 .. minted' => row # Absent /\ ~row.tomb /\ f \in row.holds
  BY <1>1, <1>2, <1>4, FactMinted, AbsentIsNoRow
<1>9. ~Recallable(m)
  BY <1>2 DEF Recallable
<1> QED
  BY <1>1, <1>2, <1>4, <1>5, <1>6, <1>7, <1>8, <1>9, RequestStep

LEMMA EditSafe ==
  ASSUME IInv, NEW r \in Ids, Edit(r)
  PROVE  IInv'
<1>1. TypeOK /\ Event /\ minted' = minted + 1 /\ Recallable(r) /\ Exists(r)
  BY DEF IInv, Edit, Recallable
<1>2. PICK m \in Ids : m = minted' /\ m = minted + 1 /\ minted \in Nat
  BY <1>1, FactMinted
<1>3. PICK row : row = NewRow(m, dreams)
  OBVIOUS
<1>4. row \in Row /\ row.at = dreams /\ row.holds = {m} /\ ~row.tomb
  BY <1>1, <1>2, <1>3, NewRowIsRow DEF NewRow, TypeOK
<1>5. rows' = [rows EXCEPT ![r] = row] /\ UNCHANGED <<redis, ctx, overran>>
      /\ fate' = Raised(rows[r].holds, Lost)
  BY <1>2, <1>3 DEF Edit
<1>6. \A f \in Ids : f \in minted + 1 .. minted' => row # Absent /\ ~row.tomb /\ f \in row.holds
  BY <1>1, <1>2, <1>4, FactMinted, AbsentIsNoRow
<1>7. r <= minted /\ (r \in rows[r].holds \/ fate[r] = Lost)
  BY <1>1 DEF IInv, RowsOwn, OwnFact
<1>8. fate'[r] = Lost
  <2>1. fate'[r] = IF r \in rows[r].holds /\ fate[r] < Lost THEN Lost ELSE fate[r]
    BY <1>5 DEF Raised
  <2>2. fate[r] \in Pending .. Lost
    BY <1>1 DEF TypeOK
  <2> QED
    BY <1>7, <2>1, <2>2 DEF Pending, Lost
<1>9. r <= minted' /\ minted' \in minted .. minted + 1
  BY <1>2, <1>7 DEF Ids
<1> QED
  BY <1>1, <1>4, <1>5, <1>6, <1>8, <1>9, RequestStep

LEMMA DeleteSafe ==
  ASSUME IInv, NEW r \in Ids, Delete(r)
  PROVE  IInv'
<1>1. Event /\ rows' = [rows EXCEPT ![r] = Absent] /\ fate' = Raised(rows[r].holds, Lost)
      /\ UNCHANGED <<minted, redis, ctx, overran>>
  BY DEF Delete
<1>2. minted \in Nat
  BY DEF IInv, TypeOK
<1>3. minted' \in minted .. minted + 1 /\ ~\E f \in Ids : f \in minted + 1 .. minted'
  BY <1>1, <1>2
<1> QED
  BY <1>1, <1>3, RequestStep

-----------------------------------------------------------------------------
(* The invariant *)

LEMMA InitSafe == Init => IInv
<1> SUFFICES ASSUME Init
             PROVE  IInv
  OBVIOUS
<1>1. /\ AtStart \in Nat /\ MaxEvents \in Nat /\ MaxFacts = AtStart + MaxEvents
      /\ minted = AtStart /\ events = 0 /\ dreams = 0
  BY DreamAssumption DEF Init, MaxFacts
<1>2. \A r \in Ids : rows[r] = IF r <= AtStart THEN NewRow(r, 0) ELSE Absent
  BY DEF Init
<1>3. \A r \in Ids : NewRow(r, 0) \in Row /\ NewRow(r, 0) # Absent
  BY NewRowIsRow, AbsentIsNoRow
<1>4. TypeOK
  <2>1. rows \in Rows
    BY <1>3 DEF Init, Rows
  <2>2. minted \in 0 .. MaxFacts /\ events \in 0 .. MaxEvents
    BY <1>1
  <2>3. fate \in [Ids -> Pending .. Lost]
    BY DEF Init, Pending, Lost
  <2> QED
    BY <1>1, <2>1, <2>2, <2>3, IdleIsSweep DEF Init, TypeOK
<1>5. \A r \in Ids : Exists(r) => r <= minted /\ rows[r] = NewRow(r, 0)
  BY <1>1, <1>2 DEF Exists
<1>6. \A r \in Ids : NewRow(r, 0).holds = {r} /\ ~NewRow(r, 0).tomb /\ NewRow(r, 0).at = 0
  BY DEF NewRow
<1>7. Counted /\ RowsOwn
  <2>1. Counted
    BY <1>1 DEF Counted
  <2> QED
    BY <1>5, <1>6, <2>1 DEF RowsOwn, OwnFact
<1>8. LockHeld
  BY RestingIsBare DEF Init, LockHeld, InBody
<1>9. SweepsSound
  BY <1>4, RestingSound DEF Init, SweepsSound
<1>10. NothingForgotten
  <2>1. \A f \in 1 .. minted : f \in Ids /\ f <= AtStart
    BY <1>1 DEF Ids
  <2> QED
    BY <1>2, <1>3, <1>6, <2>1 DEF NothingForgotten, Recallable, Exists
<1>11. NoneStampedUnseen
  BY <1>1, <1>5, <1>6 DEF NoneStampedUnseen
<1>12. MarkerWasExamined
  BY DEF Init, MarkerWasExamined
<1> QED
  BY <1>4, <1>7, <1>8, <1>9, <1>10, <1>11, <1>12 DEF IInv

LEMMA NextSafe == IInv /\ [Next]_vars => IInv'
<1> SUFFICES ASSUME IInv, [Next]_vars
             PROVE  IInv'
  OBVIOUS
<1>1. CASE Request
  BY <1>1, StoreSafe, EditSafe, DeleteSafe DEF Request
<1>2. ASSUME NEW w \in Sweeps, Begin(w, TRUE) \/ Begin(w, FALSE)
      PROVE  IInv'
  BY <1>2, BeginSafe
<1>3. ASSUME NEW w \in Sweeps, Advance(w)
      PROVE  IInv'
  BY <1>3, AcquireSafe, StageSafe, ExamineSafe, PlanSafe, RewriteReadSafe, UpsertSafe,
     TombstoneSafe, SetMarkerSafe, StampSafe, ReleaseSafe
    DEF Advance
<1>4. ASSUME NEW w \in Sweeps, Mishap(w)
      PROVE  IInv'
  BY <1>4, AcquireSafe, ExamineFailsSafe, ActionFailsSafe, RecordFailsSafe, ReleaseSafe,
     RaisesSafe, CancelledSafe, ExpirySafe
    DEF Mishap
<1>5. CASE LockExpires \/ TimePasses
  BY <1>5, ExpirySafe
<1>6. CASE UNCHANGED vars
  <2>1. UNCHANGED <<rows, minted, dreams, due, marker, lock, ctx, events, overran, fate>>
    BY <1>6 DEF vars, pool, redis, history
  <2>2. UNCHANGED <<pool, dreams, marker, ctx, fate>>
    BY <2>1 DEF pool
  <2>3. LockHeld'
    BY <2>1 DEF IInv, LockHeld, InBody
  <2>4. SmallTyped' /\ events' >= events
    BY <2>1, SmallTypes
  <2> QED
    BY <2>2, <2>3, <2>4, OutsideStep
<1> QED
  BY <1>1, <1>2, <1>3, <1>4, <1>5, <1>6 DEF Next

LEMMA Invariant == Spec => []IInv
BY InitSafe, NextSafe, PTL DEF Spec

-----------------------------------------------------------------------------
(* Theorems *)

\* The types of TypeOK hold, for any number of sweeps and memories: no row, batch or
\* action of a sweep is ill-formed, whatever fails.
THEOREM DreamTypeCorrect == Spec => []TypeOK
<1>1. IInv => TypeOK
  BY DEF IInv
<1> QED
  BY <1>1, Invariant, PTL

\* Two sweeps in their bodies are the same one, unless the lock of one has expired
\* (acquire_lock, and the compare-and-delete of release_lock).
THEOREM OneSweepAtATime == Spec => []OneSweep
<1>1. IInv => OneSweep
  <2>1. \A v, w \in Sweeps : HeldBy(v) = HeldBy(w) => v = w
    BY DEF HeldBy
  <2> QED
    BY <2>1 DEF IInv, LockHeld, OneSweep
<1> QED
  BY <1>1, Invariant, PTL

\* Whatever a merge was, and wherever it ended, what its rows held is recalled
\* (apply_actions: the survivor is rewritten before the others are tombstoned).
THEOREM NothingIsForgotten == Spec => []NothingForgotten
<1>1. IInv => NothingForgotten
  BY DEF IInv
<1> QED
  BY <1>1, Invariant, PTL

\* A completed dream speaks for what was examined and for what was passed over, and
\* for nothing else (_dream_pool: a failed LLM is not stamped).
THEOREM StampsSpeakForSeen == Spec => []NoneStampedUnseen
<1>1. IInv => NoneStampedUnseen
  BY DEF IInv
<1> QED
  BY <1>1, Invariant, PTL

\* The marker that makes a pool unchanged is of a batch that was examined
\* (_dream_pool: it is set after the actions).
THEOREM MarkersExamined == Spec => []MarkerWasExamined
<1>1. IInv => MarkerWasExamined
  BY DEF IInv
<1> QED
  BY <1>1, Invariant, PTL

=============================================================================

----------------------- MODULE TranscriptFlush_proofs -----------------------
(***************************************************************************)
(* Proofs about TranscriptFlush, for any hooks, any number of turns and any *)
(* noise: it only takes the steps of TranscriptLock, the cursor never       *)
(* passes a turn that was not received, and no turn is posted twice while   *)
(* the lock excludes, but by a hook that could not read the cursor.         *)
(***************************************************************************)
EXTENDS TranscriptFlush, TranscriptLock_proofs

-----------------------------------------------------------------------------
(* The flush runs under the lock *)

LEMMA StepOfLock == [Next]_vars => [LockNext]_lockVars
<1> SUFFICES ASSUME [Next]_vars PROVE [LockNext]_lockVars
  OBVIOUS
<1>1. CASE UNCHANGED vars \/ Speak
  BY <1>1 DEF vars, Speak
<1>2. ASSUME NEW h \in Hooks, FlushStep(h)
      PROVE  UNCHANGED lockVars
  BY <1>2 DEF FlushStep, ReadOffset, ReadTranscript, Ask, Post, PostFails, Commit, Compare, Write
<1>3. ASSUME NEW h \in Hooks, Deliver(h) \/ LockStep(h) \/ Surrender(h) \/ Aged(h) \/ Killed(h)
      PROVE  LockNext
  BY <1>3 DEF Deliver, LockStep, Surrender, Aged, Killed, LockNext, Environment
<1> QED
  BY <1>1, <1>2, <1>3 DEF Next

\* Every behaviour of the flush is one of the lock: what holds of the lock for any
\* body that may run under it holds here.
THEOREM FlushRunsUnderLock == Spec => LockSpec
<1>1. Init => LockInit
  BY DEF Init
<1> QED
  BY <1>1, StepOfLock, PTL DEF Spec, LockSpec

-----------------------------------------------------------------------------
(* Types *)

\* A flush that has read the transcript is within it.
InRange(f) ==
  /\ f \in Flush
  /\ f.stage # "offset" => f.from <= f.next
  /\ f.stage \in {"ask", "post", "commit", "compare", "write"} =>
       /\ f.from > 0
       /\ f.upto <= MaxTurns
       /\ f.next <= f.upto + 1
  /\ f.stage = "read" => f.from > 0 /\ f.next = f.from
  /\ f.stage = "post" => f.next <= f.upto

FlushTypes ==
  /\ written \in 0 .. MaxTurns
  /\ cursor \in 0 .. MaxTurns
  /\ sent \subseteq Turns
  /\ flush \in [Hooks -> Flush]
  /\ \A h \in Hooks : InRange(flush[h])
  /\ misreads \in 0 .. MaxMisreads

\* What has been delivered: the turns up to the cursor, and of a flush those from
\* the offset it read up to the next one.
Covered(n) == \A t \in 1 .. n : t \in sent \cup Noise

Delivered ==
  /\ Covered(cursor)
  /\ \A h \in Hooks :
       flush[h].stage \in {"read", "ask", "post", "commit", "compare", "write"} => Covered(flush[h].next - 1)

FlushInv == FlushTypes /\ Delivered

LEMMA FlushInitInv == Init => FlushInv
BY TranscriptFlushAssumption
   DEF Init, FlushInv, FlushTypes, Delivered, InRange, Covered, Fresh, Flush, FlushStages

\* What a read of the cursor yields.
LEMMA ReadYields ==
  ASSUME FlushTypes, NEW n \in {0, cursor}, Read(n)
  PROVE  misreads' \in 0 .. MaxMisreads /\ n \in Nat /\ n <= cursor
BY TranscriptFlushAssumption DEF Read, FlushTypes

\* The bodies the step does not concern keep what they have.
LEMMA FlushSum ==
  ASSUME FlushInv, NEW h \in Hooks, NEW f, flush' = [flush EXCEPT ![h] = f], InRange(f),
         written' \in 0 .. MaxTurns, cursor' \in 0 .. MaxTurns, sent \subseteq sent', sent' \subseteq Turns,
         misreads' \in 0 .. MaxMisreads,
         \A t \in 1 .. cursor' : t \in sent' \cup Noise,
         f.stage \in {"read", "ask", "post", "commit", "compare", "write"} =>
           \A t \in 1 .. (f.next - 1) : t \in sent' \cup Noise
  PROVE  FlushInv'
<1>1. FlushTypes'
  BY DEF FlushInv, FlushTypes, InRange
<1>2. flush'[h] = f /\ \A g \in Hooks \ {h} : flush'[g] = flush[g]
  BY DEF FlushInv, FlushTypes
<1>3. Delivered'
  BY <1>2 DEF FlushInv, Delivered, Covered
<1> QED
  BY <1>1, <1>3 DEF FlushInv

LEMMA FlushEnds ==
  ASSUME FlushInv, NEW h \in Hooks, End(h),
         written' = written, cursor' \in 0 .. MaxTurns, sent \subseteq sent', sent' \subseteq Turns,
         misreads' \in 0 .. MaxMisreads,
         \A t \in 1 .. cursor' : t \in sent' \cup Noise
  PROVE  FlushInv'
<1>1. InRange(Fresh("end")) /\ Fresh("end").stage = "end"
  BY DEF InRange, Fresh, Flush, FlushStages
<1> QED
  BY <1>1, FlushSum DEF End, FlushInv, FlushTypes

LEMMA FlushStops ==
  ASSUME FlushInv, NEW h \in Hooks, NEW t \in Nat, Stop(h, t), flush[h].stage \in {"ask", "post"},
         t <= flush[h].upto + 1, flush[h].next <= t,
         \A u \in flush[h].next .. (t - 1) : u \in sent' \cup Noise,
         UNCHANGED <<written, cursor, misreads>>, sent \subseteq sent', sent' \subseteq Turns
  PROVE  FlushInv'
<1>1. \A u \in 1 .. cursor' : u \in sent' \cup Noise
  BY DEF FlushInv, Delivered, Covered
<1>2. CASE End(h)
  BY <1>1, <1>2, FlushEnds DEF FlushInv, FlushTypes
<1>3. CASE ~ End(h)
  <2> DEFINE f == [flush[h] EXCEPT !.next = t, !.stage = "commit"]
  <2>1. flush' = [flush EXCEPT ![h] = f]
    BY <1>3 DEF Stop
  <2>2. flush[h] \in Flush /\ InRange(flush[h])
    BY DEF FlushInv, FlushTypes
  <2>3. /\ f \in Flush /\ f.stage = "commit" /\ f.next = t
        /\ f.from = flush[h].from /\ f.upto = flush[h].upto
    BY <2>2 DEF Flush, FlushStages
  <2>4. InRange(f)
    BY <2>2, <2>3 DEF InRange, Flush
  <2>5. \A u \in 1 .. (f.next - 1) : u \in sent' \cup Noise
    BY <2>2, <2>3 DEF FlushInv, Delivered, Covered, Flush
  <2> HIDE DEF f
  <2> QED
    BY <1>1, <2>1, <2>4, <2>5, FlushSum DEF FlushInv, FlushTypes
<1> QED
  BY <1>2, <1>3

LEMMA FlushStepInv ==
  ASSUME FlushInv, [Next]_vars
  PROVE  FlushInv'
<1>1. CASE UNCHANGED flushVars
  BY <1>1 DEF flushVars, FlushInv, FlushTypes, Delivered, Covered
<1>2. CASE Speak
  BY <1>2, TranscriptFlushAssumption DEF Speak, FlushInv, FlushTypes, Delivered, Covered
<1>3. ASSUME NEW h \in Hooks, FlushStep(h)
      PROVE  FlushInv'
  <2> DEFINE f == flush[h]
  <2>1. f \in Flush /\ InRange(f)
    BY DEF FlushInv, FlushTypes
  <2>2. /\ written \in 0 .. MaxTurns /\ cursor \in 0 .. MaxTurns /\ sent \subseteq Turns
        /\ misreads \in 0 .. MaxMisreads
        /\ flush \in [Hooks -> Flush] /\ written \in Nat /\ cursor \in Nat
        /\ \A t \in 1 .. cursor : t \in sent \cup Noise
        /\ f.stage \in {"read", "ask", "post", "commit", "compare", "write"} =>
             \A t \in 1 .. (f.next - 1) : t \in sent \cup Noise
    BY TranscriptFlushAssumption DEF FlushInv, FlushTypes, Delivered, Covered
  <2>3. CASE ReadOffset(h)
    <3>1. PICK n \in {0, cursor} : From(h, n + 1, n)
      BY <2>3 DEF ReadOffset
    <3>0. PICK b \in BOOLEAN : b = (n # cursor)
      OBVIOUS
    <3> DEFINE r == [f EXCEPT !.stage = "read", !.from = n + 1, !.next = n + 1, !.blind = b]
    <3>2. flush' = [flush EXCEPT ![h] = r] /\ UNCHANGED <<written, cursor, sent>>
      BY <2>2, <2>3, <3>0, <3>1 DEF ReadOffset, From
    <3>3. misreads' \in 0 .. MaxMisreads /\ n \in Nat /\ n <= cursor
      BY <3>1, ReadYields DEF From, FlushInv
    <3>4. r \in Flush /\ r.stage = "read" /\ r.from = n + 1 /\ r.next = n + 1
      <4>1. n + 1 \in Nat
        BY <3>3
      <4>2. [f EXCEPT !.stage = "read", !.from = n + 1, !.next = n + 1] \in Flush
        BY <2>1, <4>1 DEF Flush, FlushStages
      <4> QED
        BY <2>1, <4>1, <4>2 DEF Flush, FlushStages
    <3>5. InRange(r)
      BY <3>3, <3>4 DEF InRange
    <3>6. \A t \in 1 .. (r.next - 1) : t \in sent' \cup Noise
      BY <2>2, <3>2, <3>3, <3>4
    <3> HIDE DEF r
    <3> QED
      BY <2>2, <3>2, <3>3, <3>5, <3>6, FlushSum
  <2>4. CASE ReadTranscript(h)
    <3> DEFINE r == [f EXCEPT !.upto = written, !.stage = "ask"]
    <3>1. CASE End(h)
      BY <2>2, <2>4, <3>1, FlushEnds DEF ReadTranscript
    <3>2. CASE ~ End(h)
      <4>1. /\ flush' = [flush EXCEPT ![h] = r] /\ UNCHANGED <<written, cursor, sent, misreads>>
            /\ f.stage = "read" /\ f.next <= written
        BY <2>4, <3>2 DEF ReadTranscript, In
      <4>2. r \in Flush /\ r.stage = "ask" /\ r.from = f.from /\ r.next = f.next /\ r.upto = written
        BY <2>1, <2>2 DEF Flush, FlushStages
      <4>3. InRange(r)
        BY <2>1, <2>2, <4>1, <4>2 DEF InRange, Flush
      <4> HIDE DEF r
      <4> QED
        BY <2>2, <4>1, <4>2, <4>3, FlushSum
    <3> QED
      BY <3>1, <3>2
  <2>5. CASE Ask(h)
    <3>1. PICK t \in f.next .. (f.upto + 1) :
            /\ NextIs(h, t)
            /\ IF t <= f.upto /\ Held(h)
               THEN flush' = [flush EXCEPT ![h].next = t, ![h].stage = "post"]
               ELSE Stop(h, t)
      BY <2>5 DEF Ask
    <3>2. t \in Nat /\ f.stage = "ask" /\ UNCHANGED <<written, cursor, sent, misreads>>
      BY <2>1, <2>5 DEF Ask, In, Flush
    <3>3. CASE Stop(h, t)
      BY <2>1, <2>2, <3>1, <3>2, <3>3, FlushStops DEF NextIs, Flush
    <3>4. CASE ~ Stop(h, t)
      <4> DEFINE r == [f EXCEPT !.next = t, !.stage = "post"]
      <4>1. flush' = [flush EXCEPT ![h] = r] /\ t <= f.upto
        BY <3>1, <3>4
      <4>2. r \in Flush /\ r.stage = "post" /\ r.from = f.from /\ r.next = t /\ r.upto = f.upto
        BY <2>1, <3>2 DEF Flush, FlushStages
      <4>3. InRange(r)
        BY <2>1, <3>1, <3>2, <4>1, <4>2 DEF InRange, Flush
      <4>4. \A u \in 1 .. (r.next - 1) : u \in sent' \cup Noise
        BY <2>1, <2>2, <3>1, <3>2, <4>2 DEF NextIs, Flush
      <4> HIDE DEF r
      <4> QED
        BY <2>2, <3>2, <4>1, <4>3, <4>4, FlushSum
    <3> QED
      BY <3>3, <3>4
  <2>6. CASE Post(h)
    <3>0. PICK n \in Nat : n = f.next + 1
      BY <2>1 DEF Flush
    <3> DEFINE r == [f EXCEPT !.next = n, !.stage = "ask"]
    <3>1. /\ flush' = [flush EXCEPT ![h] = r] /\ UNCHANGED <<written, cursor, misreads>>
          /\ f.stage = "post" /\ sent' = sent \cup {f.next}
      BY <2>6, <3>0 DEF Post, In
    <3>2. r \in Flush /\ r.stage = "ask" /\ r.from = f.from /\ r.next = n /\ r.upto = f.upto
      BY <2>1, <3>0 DEF Flush, FlushStages
    <3>3. f.next \in Turns
      BY <2>1, <3>1, TranscriptFlushAssumption DEF InRange, Flush, Turns
    <3>4. InRange(r)
      BY <2>1, <3>0, <3>1, <3>2 DEF InRange, Flush
    <3>5. \A u \in 1 .. (r.next - 1) : u \in sent' \cup Noise
      BY <2>1, <2>2, <3>0, <3>1, <3>2 DEF Flush
    <3> HIDE DEF r
    <3> QED
      BY <2>2, <3>1, <3>3, <3>4, <3>5, FlushSum
  <2>7. CASE PostFails(h)
    <3>1. /\ f.stage = "post" /\ f.next \in Turns /\ f.next <= f.upto
          /\ UNCHANGED <<written, cursor, misreads>> /\ sent' \in {sent, sent \cup {f.next}} /\ Stop(h, f.next)
      BY <2>1, <2>7, TranscriptFlushAssumption DEF PostFails, In, InRange, Flush, Turns
    <3> QED
      BY <2>1, <2>2, <3>1, FlushStops DEF Flush
  <2>8. CASE Commit(h) \/ Compare(h)
    <3>1. misreads' \in 0 .. MaxMisreads /\ UNCHANGED <<written, cursor, sent>>
      BY <2>2, <2>8, ReadYields DEF Commit, Compare, FlushInv
    <3>2. CASE End(h)
      BY <2>2, <3>1, <3>2, FlushEnds
    <3>3. ASSUME NEW stage \in {"compare", "write"}, Step(h, stage), f.stage \in {"commit", "compare"}
          PROVE  FlushInv'
      <4> DEFINE r == [f EXCEPT !.stage = stage]
      <4>1. flush' = [flush EXCEPT ![h] = r]
        BY <3>3 DEF Step
      <4>2. r \in Flush /\ r.stage = stage /\ r.from = f.from /\ r.next = f.next /\ r.upto = f.upto
        BY <2>1 DEF Flush, FlushStages
      <4>3. InRange(r)
        BY <2>1, <3>3, <4>2 DEF InRange, Flush
      <4> HIDE DEF r
      <4> QED
        BY <2>2, <3>1, <3>3, <4>1, <4>2, <4>3, FlushSum
    <3> QED
      BY <2>8, <3>2, <3>3 DEF Commit, Compare, In
  <2>9. CASE Write(h)
    <3>1. /\ f.stage = "write" /\ cursor' \in {cursor, f.next - 1} /\ UNCHANGED <<written, sent, misreads>> /\ End(h)
      BY <2>9 DEF Write, In, Committed
    <3>2. f.next - 1 \in 0 .. MaxTurns
      BY <2>1, <3>1, TranscriptFlushAssumption DEF InRange, Flush
    <3> QED
      BY <2>2, <3>1, <3>2, FlushEnds
  <2> QED
    BY <1>3, <2>3, <2>4, <2>5, <2>6, <2>7, <2>8, <2>9 DEF FlushStep
<1>4. ASSUME NEW h \in Hooks, Killed(h)
      PROVE  FlushInv'
  BY <1>4, FlushEnds DEF Killed, FlushInv, FlushTypes, Delivered, Covered
<1> QED
  BY <1>1, <1>2, <1>3, <1>4 DEF Next, vars, flushVars, Deliver, LockStep, Surrender, Aged

THEOREM FlushInvariant == Spec => []FlushInv
<1>1. FlushInv /\ [Next]_vars => FlushInv'
  BY FlushStepInv
<1> QED
  BY <1>1, FlushInitInv, PTL DEF Spec

\* Every step keeps the variables in their types.
THEOREM FlushTypeCorrect == Spec => []FlushTypeOK
<1>1. FlushInv /\ LockTypeOK => FlushTypeOK
  BY DEF FlushInv, FlushTypes, FlushTypeOK
<1> QED
  BY <1>1, FlushInvariant, FlushRunsUnderLock, LockTypes, PTL

\* Whatever fails, and whether or not the lock excludes, the cursor never passes a
\* turn that was neither received nor noise.
THEOREM CursorIsCovered == Spec => []NoTurnSkipped
<1>1. FlushInv => NoTurnSkipped
  BY DEF FlushInv, Delivered, Covered, NoTurnSkipped
<1> QED
  BY <1>1, FlushInvariant, PTL

-----------------------------------------------------------------------------
(* No turn twice *)

Working == {"read", "ask", "post", "commit", "compare", "write"}

\* Only a hook in its body has turns to deliver ...
OwnsBody == \A h \in Hooks : flush[h].stage \in Working => ctx[h].stage = "body"

\* ... and while the lock excludes, nobody else has moved the cursor since it was read,
\* if it was.
Ahead ==
  ~disturbed => \A h \in Hooks : flush[h].stage \in Working => flush[h].blind \/ cursor < flush[h].from

PostInv == LockInv /\ FlushInv /\ OwnsBody /\ Ahead

LEMMA PostInitInv == Init => PostInv
<1> SUFFICES ASSUME Init PROVE PostInv
  OBVIOUS
<1>1. LockInv /\ FlushInv
  BY LockInitInv, FlushInitInv DEF Init
<1>2. \A h \in Hooks : flush[h].stage = "offset"
  BY DEF Init, Fresh
<1> QED
  BY <1>1, <1>2 DEF PostInv, OwnsBody, Ahead, Working

\* While the lock excludes, two hooks in their bodies are one.
LEMMA OneBody ==
  ASSUME LockInv, ~disturbed, NEW g \in Hooks, NEW h \in Hooks, ctx[g].stage = "body", ctx[h].stage = "body"
  PROVE  g = h
BY DEF LockInv, Holds, Delivering

\* What a step of the body does to it: it starts to work past the cursor, works on
\* from the same offset, or ends; or it could not read the cursor.
LEMMA BodyStep ==
  ASSUME PostInv, NEW h \in Hooks, FlushStep(h)
  PROVE  /\ ctx[h].stage = "body" /\ UNCHANGED lockVars
         /\ \A g \in Hooks \ {h} : flush'[g] = flush[g]
         /\ \/ flush'[h].stage \notin Working
            \/ flush'[h].blind
            \/ cursor' = cursor /\ flush'[h].from = cursor + 1
            \/ /\ cursor' = cursor /\ flush[h].stage \in Working
               /\ flush'[h].from = flush[h].from /\ flush'[h].blind = flush[h].blind
<1> USE DEF PostInv, FlushInv, FlushTypes, In, At, End, Step, Fresh, Working
<1>1. flush \in [Hooks -> Flush] /\ flush[h] \in Flush
  OBVIOUS
<1>0. CASE ReadOffset(h)
  <2>1. PICK n \in {0, cursor} : From(h, n + 1, n)
    BY <1>0 DEF ReadOffset
  <2> QED
    BY <1>0, <1>1, <2>1 DEF ReadOffset, From, Flush
<1>2. CASE ReadTranscript(h)
  BY <1>1, <1>2 DEF ReadTranscript, Flush
<1>3. CASE Ask(h)
  <2>1. PICK t \in flush[h].next .. (flush[h].upto + 1) :
          \/ flush' = [flush EXCEPT ![h].next = t, ![h].stage = "post"]
          \/ Stop(h, t)
    BY <1>3 DEF Ask
  <2> QED
    BY <1>1, <1>3, <2>1 DEF Ask, Stop, Flush
<1>4. CASE Post(h) \/ PostFails(h)
  BY <1>1, <1>4 DEF Post, PostFails, Stop, Flush
<1>5. CASE Commit(h) \/ Compare(h) \/ Write(h)
  BY <1>1, <1>5 DEF Commit, Compare, Write, Flush
<1> QED
  BY <1>0, <1>2, <1>3, <1>4, <1>5 DEF FlushStep

LEMMA PostStepInv ==
  ASSUME PostInv, [Next]_vars
  PROVE  PostInv'
<1>1. LockInv' /\ FlushInv'
  BY StepOfLock, LockStepInv, FlushStepInv DEF PostInv
<1>2. CASE UNCHANGED vars \/ Speak
  BY <1>1, <1>2 DEF vars, lockVars, flushVars, Speak, PostInv, OwnsBody, Ahead
<1>3. ASSUME NEW h \in Hooks, FlushStep(h)
      PROVE  PostInv'
  <2>1. /\ ctx[h].stage = "body" /\ UNCHANGED lockVars
        /\ \A g \in Hooks \ {h} : flush'[g] = flush[g]
        /\ \/ flush'[h].stage \notin Working
           \/ flush'[h].blind
           \/ cursor' = cursor /\ flush'[h].from = cursor + 1
           \/ /\ cursor' = cursor /\ flush[h].stage \in Working
              /\ flush'[h].from = flush[h].from /\ flush'[h].blind = flush[h].blind
    BY <1>3, BodyStep
  <2>2. OwnsBody'
    BY <2>1 DEF PostInv, OwnsBody, lockVars
  <2>3. cursor \in Nat
    BY TranscriptFlushAssumption DEF PostInv, FlushInv, FlushTypes
  <2>4. ASSUME ~disturbed', NEW g \in Hooks, flush'[g].stage \in Working
        PROVE  flush'[g].blind \/ cursor' < flush'[g].from
    <3>1. CASE g = h
      BY <2>1, <2>3, <2>4, <3>1 DEF PostInv, Ahead, lockVars
    <3>2. CASE g # h
      BY <2>1, <2>4, <3>2, OneBody DEF PostInv, OwnsBody, lockVars
    <3> QED
      BY <3>1, <3>2
  <2> QED
    BY <1>1, <2>2, <2>4 DEF PostInv, Ahead
<1>4. ASSUME NEW h \in Hooks, Deliver(h) \/ LockStep(h) \/ Surrender(h) \/ Aged(h)
      PROVE  PostInv'
  <2>1. UNCHANGED flushVars
    BY <1>4 DEF Deliver, LockStep, Surrender, Aged
  <2>2. Acquire(h) \/ GiveUp(h) \/ Leave(h) \/ Unlink(h) \/ Environment(h)
    BY <1>4 DEF Deliver, LockStep, Surrender, Aged, Environment
  <2>3. \A g \in Hooks \ {h} : ctx'[g] = ctx[g]
    BY <2>2, OthersKeep DEF PostInv, LockInv
  <2>4. flush[h].stage \in Working => ctx'[h] = ctx[h]
    <3> SUFFICES ASSUME flush[h].stage \in Working PROVE ctx'[h] = ctx[h]
      OBVIOUS
    <3>1. ctx[h].stage = "body" /\ flush[h].stage # "end"
      BY DEF PostInv, OwnsBody, Working
    <3>2. Aged(h)
      BY <1>4, <3>1
         DEF Deliver, LockStep, Surrender, Acquire, Link, ReadHolder, Judge, Poll, Contend, Verify, Rename,
             CheckMutex, DropMutex, ReadMutex, Suspect, Sweep, GiveUp, Unlink, At
    <3> QED
      BY <3>2 DEF Aged, GrowOld, MutexGrowsOld
  <2>5. OwnsBody'
    BY <2>1, <2>3, <2>4 DEF PostInv, OwnsBody, flushVars
  <2>6. disturbed => disturbed'
    BY <2>2
       DEF Acquire, Link, ReadHolder, Judge, Poll, Contend, Verify, Rename, CheckMutex, DropMutex, ReadMutex,
           Suspect, Sweep, GiveUp, Leave, Unlink, Environment, Exit, GrowOld, MutexGrowsOld
  <2> QED
    BY <1>1, <2>1, <2>5, <2>6 DEF PostInv, Ahead, flushVars
<1>5. ASSUME NEW h \in Hooks, Killed(h)
      PROVE  PostInv'
  <2>1. /\ flush'[h].stage = "end" /\ \A g \in Hooks \ {h} : flush'[g] = flush[g]
        /\ cursor' = cursor /\ disturbed' = disturbed
    BY <1>5 DEF Killed, Exit, End, Fresh, PostInv, FlushInv, FlushTypes
  <2>2. \A g \in Hooks \ {h} : ctx'[g] = ctx[g]
    BY <1>5, OthersKeep DEF Killed, Environment, PostInv, LockInv
  <2> QED
    BY <1>1, <2>1, <2>2 DEF PostInv, OwnsBody, Ahead, Working
<1> QED
  BY <1>2, <1>3, <1>4, <1>5 DEF Next

\* A post is past the cursor that was read, and nobody else has the turn.
LEMMA PostIsFirst ==
  ASSUME PostInv, ~disturbed, NEW h \in Hooks, ~flush[h].blind, flush[h].stage = "post"
  PROVE  /\ flush[h].next > cursor
         /\ \A g \in Hooks : flush[h].next \notin InFlight(g)
<1>1. flush[h] \in Flush /\ flush[h].from <= flush[h].next /\ cursor < flush[h].from /\ cursor \in Nat
  BY TranscriptFlushAssumption DEF PostInv, FlushInv, FlushTypes, InRange, Ahead, Working
<1>2. ctx[h].stage = "body"
  BY DEF PostInv, OwnsBody, Working
<1>3. ASSUME NEW g \in Hooks, flush[h].next \in InFlight(g)
      PROVE  FALSE
  <2>1. At(g, "body") /\ flush[h].next \in flush[g].from .. (flush[g].next - 1)
    BY <1>3 DEF InFlight
  <2>2. g = h
    BY <1>2, <2>1, OneBody DEF PostInv, At
  <2> QED
    BY <1>1, <2>1, <2>2 DEF Flush
<1> QED
  BY <1>1, <1>3 DEF Flush

\* While the lock excludes, a hook that could read the cursor posts a turn again only when
\* the earlier post is neither committed nor in the hands of a running hook.
THEOREM PostedOnce == Spec => NeverTwice
<1>1. PostInv /\ [Next]_vars => PostInv'
  BY PostStepInv
<1>2. PostInv => [\A h \in Hooks :
                    ~disturbed /\ ~flush[h].blind /\ flush[h].stage = "post" /\ flush'[h] # flush[h] =>
                      /\ flush[h].next > cursor
                      /\ \A g \in Hooks : flush[h].next \notin InFlight(g)]_vars
  BY PostIsFirst
<1> QED
  BY <1>1, <1>2, PostInitInv, PTL DEF Spec, NeverTwice

=============================================================================

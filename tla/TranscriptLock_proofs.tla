----------------------- MODULE TranscriptLock_proofs -----------------------
(***************************************************************************)
(* Proofs about TranscriptLock, for any hooks and any that were gone at the *)
(* start: its types, and that at most one hook delivers.                    *)
(***************************************************************************)
EXTENDS TranscriptLock, TLAPS

\* Which hooks a file tells apart: a file has at most one record.
LEMMA OneRecord ==
  ASSUME NEW file \in File(Hooks), NEW g, NEW h, g \in file, h \in file
  PROVE  g = h
BY DEF File

-----------------------------------------------------------------------------
(* Types *)

LEMMA LockInitType == LockInit => LockTypeOK
<1> SUFFICES ASSUME LockInit PROVE LockTypeOK
  OBVIOUS
<1>1. File(Left) \subseteq File(Hooks)
  BY TranscriptLockAssumption DEF File
<1>2. \A stage \in Stages : Blank(stage) \in Local
  BY DEF Blank, Local
<1>3. "done" \in Stages /\ "try" \in Stages
  BY DEF Stages, Acquiring
<1> QED
  BY <1>1, <1>2, <1>3, TranscriptLockAssumption DEF LockInit, LockTypeOK

\* The three ways a step changes the local state of its hook.
LEMMA LocalType ==
  ASSUME ctx \in [Hooks -> Local], NEW h \in Hooks, NEW stage \in Stages, NEW seen \in SUBSET Hooks,
         Goto(h, stage) \/ See(h, seen, stage) \/ Leap(h, stage)
  PROVE  ctx' \in [Hooks -> Local]
BY DEF Local, Goto, See, Leap, Blank

LEMMA LockStepType ==
  ASSUME LockTypeOK, [LockNext]_lockVars
  PROVE  LockTypeOK'
<1>1. CASE UNCHANGED lockVars
  BY <1>1 DEF LockTypeOK, lockVars
<1>2. ASSUME NEW h \in Hooks, Acquire(h) \/ GiveUp(h) \/ Leave(h) \/ Unlink(h) \/ Environment(h)
      PROVE  LockTypeOK'
  <2>1. {} \in File(Hooks) /\ {h} \in File(Hooks) /\ lock \subseteq Hooks /\ mutex \subseteq Hooks
    BY DEF LockTypeOK, File
  <2>2. /\ ctx[h].then \in Stages /\ ctx[h].seen \subseteq Hooks
        /\ {"try", "wait", "done"} \subseteq {ctx[h].then, "try", "wait", "done"}
    BY DEF LockTypeOK, Local, Stages, Acquiring
  <2>3. /\ lock' \in File(Hooks) /\ mutex' \in File(Hooks) /\ disturbed' \in BOOLEAN
        /\ gone' \subseteq Hooks /\ old' \subseteq Hooks /\ oldMutex' \subseteq Hooks
    <3>1. CASE Link(h) \/ ReadHolder(h) \/ Judge(h) \/ Poll(h) \/ GiveUp(h) \/ Leave(h) \/ Unlink(h)
      BY <2>1, <3>1 DEF LockTypeOK, Link, ReadHolder, Judge, Poll, GiveUp, Leave, Unlink, files, ages
    <3>2. CASE Contend(h) \/ Verify(h) \/ Rename(h) \/ CheckMutex(h) \/ DropMutex(h)
      BY <2>1, <3>2 DEF LockTypeOK, Contend, Verify, Rename, CheckMutex, DropMutex, files, ages
    <3>3. CASE ReadMutex(h) \/ Suspect(h) \/ Sweep(h) \/ Environment(h)
      BY <2>1, <3>3
         DEF LockTypeOK, ReadMutex, Suspect, Sweep, Environment, Exit, GrowOld, MutexGrowsOld, files, ages
    <3> QED
      BY <1>2, <3>1, <3>2, <3>3 DEF Acquire
  <2>4. ctx' \in [Hooks -> Local]
    <3>1. {"try", "read", "judge", "wait", "mutex", "suspect", "sweep", "contend", "verify",
           "rename", "check", "drop", "body", "unlink", "done"} \subseteq Stages
      BY DEF Stages, Acquiring, Delivering
    <3>2. ctx \in [Hooks -> Local]
      BY DEF LockTypeOK
    <3>3. CASE ctx' = ctx
      BY <3>2, <3>3
    <3>4. CASE Verify(h) \/ Rename(h)
      BY <3>1, <3>2, <3>4 DEF Verify, Rename, Local
    <3>5. ASSUME ctx' # ctx, ~ (Verify(h) \/ Rename(h))
          PROVE  \E stage \in Stages, seen \in SUBSET Hooks :
                   Goto(h, stage) \/ See(h, seen, stage) \/ Leap(h, stage)
      <4>1. CASE Link(h) \/ ReadHolder(h) \/ Judge(h) \/ Poll(h) \/ GiveUp(h)
        BY <2>1, <3>1, <4>1 DEF Link, ReadHolder, Judge, Poll, GiveUp
      <4>2. CASE Leave(h) \/ Unlink(h)
        BY <3>1, <4>2 DEF Leave, Unlink
      <4>3. CASE Contend(h) \/ CheckMutex(h) \/ DropMutex(h)
        BY <2>2, <3>1, <4>3 DEF Contend, CheckMutex, DropMutex
      <4>4. CASE ReadMutex(h) \/ Suspect(h) \/ Sweep(h)
        BY <2>1, <3>1, <4>4 DEF ReadMutex, Suspect, Sweep
      <4>5. CASE Environment(h)
        BY <3>1, <3>5, <4>5 DEF Environment, Exit, GrowOld, MutexGrowsOld
      <4> QED
        BY <1>2, <3>5, <4>1, <4>2, <4>3, <4>4, <4>5 DEF Acquire
    <3> QED
      BY <3>2, <3>3, <3>4, <3>5, LocalType
  <2> QED
    BY <2>3, <2>4 DEF LockTypeOK
<1> QED
  BY <1>1, <1>2 DEF LockNext

\* Every step keeps lockVars in their types.
THEOREM LockTypes == LockSpec => []LockTypeOK
<1>1. LockInit => LockTypeOK
  BY LockInitType
<1>2. LockTypeOK /\ [LockNext]_lockVars => LockTypeOK'
  BY LockStepType
<1> QED
  BY <1>1, <1>2, PTL DEF LockSpec

-----------------------------------------------------------------------------
(* One deliverer *)

\* A process that is gone does nothing.
GoneIsDone == \A h \in gone : ctx[h].stage = "done"

\* Who judged a record may go on only because its process is gone.
JudgedGone ==
  \A h \in Hooks :
    ctx[h].stage \in {"contend", "verify", "rename", "sweep"} => ctx[h].seen # {} /\ ctx[h].seen \subseteq gone

SomethingSeen == \A h \in Hooks : ctx[h].stage \in {"judge", "suspect"} => ctx[h].seen # {}

\* The two files are what they are taken for, and a lock that is about to be moved
\* is still the one that was judged.
Holds(h) ==
  /\ ctx[h].stage \in Delivering => lock = {h}
  /\ ctx[h].stage \in Recovering => mutex = {h}
  /\ ctx[h].stage = "rename" => lock = ctx[h].seen

LockInv ==
  /\ LockTypeOK
  /\ GoneIsDone
  /\ SomethingSeen
  /\ JudgedGone
  /\ ~disturbed => \A h \in Hooks : Holds(h)

LEMMA InvImpliesOneDeliverer == LockInv => OneDeliverer
BY DEF LockInv, OneDeliverer, Holds

LEMMA LockInitInv == LockInit => LockInv
<1> SUFFICES ASSUME LockInit PROVE LockInv
  OBVIOUS
<1>1. \A h \in Hooks : ctx[h].stage = IF h \in Left THEN "done" ELSE "try"
  BY DEF LockInit, Blank
<1> QED
  BY <1>1, LockInitType, TranscriptLockAssumption
     DEF LockInit, LockInv, GoneIsDone, SomethingSeen, JudgedGone, Holds, Delivering, Recovering

\* What a step of h does to the local states: the others keep theirs.
LEMMA OthersKeep ==
  ASSUME LockTypeOK, NEW h \in Hooks,
         Acquire(h) \/ GiveUp(h) \/ Leave(h) \/ Unlink(h) \/ Environment(h)
  PROVE  \A g \in Hooks \ {h} : ctx'[g] = ctx[g]
<1> USE DEF LockTypeOK, Goto, See, Leap
<1>1. CASE Link(h) \/ ReadHolder(h) \/ Judge(h) \/ Poll(h) \/ GiveUp(h) \/ Leave(h) \/ Unlink(h)
  BY <1>1 DEF Link, ReadHolder, Judge, Poll, GiveUp, Leave, Unlink
<1>2. CASE Contend(h) \/ Verify(h) \/ Rename(h) \/ CheckMutex(h) \/ DropMutex(h)
  BY <1>2 DEF Contend, Verify, Rename, CheckMutex, DropMutex
<1>3. CASE ReadMutex(h) \/ Suspect(h) \/ Sweep(h) \/ Environment(h)
  BY <1>3 DEF ReadMutex, Suspect, Sweep, Environment, Exit, GrowOld, MutexGrowsOld
<1> QED
  BY <1>1, <1>2, <1>3 DEF Acquire

\* What the step does to the local state of its own hook, and to the processes.
LEMMA OwnStep ==
  ASSUME LockInv, NEW h \in Hooks,
         Acquire(h) \/ GiveUp(h) \/ Leave(h) \/ Unlink(h) \/ Environment(h)
  PROVE  /\ ctx'[h] # ctx[h] => h \notin gone
         /\ gone' = gone \/ (gone' = gone \cup {h} /\ ctx'[h].stage = "done")
         /\ ctx'[h].stage \in {"judge", "suspect"} => ctx'[h].seen # {}
         /\ ctx'[h].stage \in {"contend", "verify", "rename", "sweep"} =>
              ctx'[h].seen # {} /\ ctx'[h].seen \subseteq gone
<1> USE DEF LockInv, LockTypeOK, Local, At, Running, Goto, See, Leap, Blank
<1>0. /\ ctx \in [Hooks -> Local] /\ ctx[h] \in Local
      /\ ctx[h].stage \in {"judge", "suspect"} => ctx[h].seen # {}
      /\ ctx[h].stage \in {"contend", "verify", "rename", "sweep"} =>
           ctx[h].seen # {} /\ ctx[h].seen \subseteq gone
  BY DEF SomethingSeen, JudgedGone
<1>1. CASE Link(h) \/ ReadHolder(h) \/ Poll(h) \/ GiveUp(h) \/ Leave(h) \/ Unlink(h)
  BY <1>0, <1>1 DEF Link, ReadHolder, Poll, GiveUp, Leave, Unlink
<1>2. CASE Judge(h) \/ Suspect(h)
  BY <1>0, <1>2 DEF Judge, Suspect
<1>3. CASE Contend(h) \/ Verify(h) \/ Rename(h)
  BY <1>0, <1>3 DEF Contend, Verify, Rename
<1>4. CASE CheckMutex(h) \/ DropMutex(h)
  BY <1>0, <1>4 DEF CheckMutex, DropMutex
<1>5. CASE ReadMutex(h) \/ Sweep(h)
  BY <1>0, <1>5 DEF ReadMutex, Sweep
<1>6. CASE Environment(h)
  BY <1>0, <1>6 DEF Environment, Exit, GrowOld, MutexGrowsOld
<1> QED
  BY <1>1, <1>2, <1>3, <1>4, <1>5, <1>6 DEF Acquire

\* How a step of h may change the lock and the mutex: whoever else holds a file is
\* not disturbed, unless the sweep says so.
LEMMA FilesKept ==
  ASSUME LockInv, NEW h \in Hooks, ~disturbed', NEW g \in Hooks, g # h,
         Acquire(h) \/ GiveUp(h) \/ Leave(h) \/ Unlink(h) \/ Environment(h)
  PROVE  Holds(g)'
<1> USE DEF At, Running, Goto, See, Leap, files
<1>1. ctx'[g] = ctx[g]
  BY OthersKeep DEF LockInv
<1>2. ~disturbed
  BY DEF Acquire, Link, ReadHolder, Judge, Poll, Contend, Verify, Rename, CheckMutex, DropMutex, ReadMutex,
         Suspect, Sweep, GiveUp, Leave, Unlink, Environment, Exit, GrowOld, MutexGrowsOld
<1>3. Holds(g) /\ Holds(h)
  BY <1>2 DEF LockInv
<1>4. /\ ctx[g].stage # "done" => g \notin gone
      /\ ctx[g].stage = "rename" => ctx[g].seen # {} /\ ctx[g].seen \subseteq gone
  BY DEF LockInv, GoneIsDone, JudgedGone
<1>5. /\ "done" \notin Delivering /\ "done" \notin Recovering
      /\ "rename" \in Recovering /\ "drop" \in Recovering /\ "unlink" \in Delivering
  BY DEF Delivering, Recovering
<1>6. ctx[g].stage \in Delivering => lock' = {g}
  <2> SUFFICES ASSUME ctx[g].stage \in Delivering PROVE lock' = {g}
    OBVIOUS
  <2>1. lock = {g} /\ g \notin gone
    BY <1>3, <1>4, <1>5 DEF Holds
  <2>2. ~ Unlink(h)
    BY <2>1, <1>3, <1>5 DEF Unlink, Holds
  <2>3. ~ Rename(h)
    BY <2>1, <1>3 DEF Rename, Holds, LockInv, JudgedGone
  <2> QED
    BY <2>1, <2>2, <2>3
       DEF Acquire, Link, ReadHolder, Judge, Poll, Contend, Verify, CheckMutex, DropMutex, ReadMutex,
           Suspect, Sweep, GiveUp, Leave, Environment, Exit, GrowOld, MutexGrowsOld
<1>7. ctx[g].stage \in Recovering => mutex' = {g}
  <2> SUFFICES ASSUME ctx[g].stage \in Recovering PROVE mutex' = {g}
    OBVIOUS
  <2>1. mutex = {g} /\ g \notin gone
    BY <1>3, <1>4, <1>5 DEF Holds
  <2>2. ~ DropMutex(h)
    BY <2>1, <1>3, <1>5 DEF DropMutex, Holds
  <2>3. ~ Sweep(h)
    BY <2>1 DEF Sweep, LockInv, JudgedGone
  <2> QED
    BY <2>1, <2>2, <2>3
       DEF Acquire, Link, ReadHolder, Judge, Poll, Contend, Verify, Rename, CheckMutex, ReadMutex,
           Suspect, GiveUp, Leave, Unlink, Environment, Exit, GrowOld, MutexGrowsOld
<1>8. ctx[g].stage = "rename" => lock' = ctx[g].seen
  <2> SUFFICES ASSUME ctx[g].stage = "rename" PROVE lock' = ctx[g].seen
    OBVIOUS
  <2>1. mutex = {g} /\ lock = ctx[g].seen /\ lock # {} /\ lock \subseteq gone
    BY <1>3, <1>4, <1>5 DEF Holds
  <2>2. ~ Unlink(h)
    BY <2>1, <1>3, <1>5 DEF Unlink, Holds
  <2>3. ~ Rename(h)
    BY <2>1, <1>3, <1>5 DEF Rename, Holds
  <2> QED
    BY <2>1, <2>2, <2>3
       DEF Acquire, Link, ReadHolder, Judge, Poll, Contend, Verify, CheckMutex, DropMutex, ReadMutex,
           Suspect, Sweep, GiveUp, Leave, Environment, Exit, GrowOld, MutexGrowsOld
<1> QED
  BY <1>1, <1>6, <1>7, <1>8 DEF Holds

\* The hook that takes a step holds what its next stage says it holds.
LEMMA OwnFiles ==
  ASSUME LockInv, NEW h \in Hooks, ~disturbed',
         Acquire(h) \/ GiveUp(h) \/ Leave(h) \/ Unlink(h) \/ Environment(h)
  PROVE  Holds(h)'
<1> USE DEF LockInv, LockTypeOK, Local, At, Running, Goto, See, Leap, Blank, Held, files, Holds, Delivering, Recovering
<1>1. ~disturbed
  BY DEF Acquire, Link, ReadHolder, Judge, Poll, Contend, Verify, Rename, CheckMutex, DropMutex, ReadMutex,
         Suspect, Sweep, GiveUp, Leave, Unlink, Environment, Exit, GrowOld, MutexGrowsOld
<1>2. Holds(h) /\ ctx \in [Hooks -> Local] /\ ctx[h] \in Local
  BY <1>1
<1>3. CASE Link(h) \/ ReadHolder(h) \/ Judge(h) \/ Poll(h)
  BY <1>2, <1>3 DEF Link, ReadHolder, Judge, Poll
<1>4. CASE GiveUp(h) \/ Leave(h) \/ Unlink(h)
  BY <1>2, <1>4 DEF GiveUp, Leave, Unlink
<1>5. CASE Contend(h) \/ Verify(h) \/ Rename(h)
  BY <1>2, <1>5 DEF Contend, Verify, Rename
<1>6. CASE CheckMutex(h) \/ DropMutex(h)
  BY <1>2, <1>6 DEF CheckMutex, DropMutex
<1>7. CASE ReadMutex(h) \/ Suspect(h) \/ Sweep(h)
  BY <1>2, <1>7 DEF ReadMutex, Suspect, Sweep
<1>8. CASE Environment(h)
  BY <1>2, <1>8 DEF Environment, Exit, GrowOld, MutexGrowsOld
<1> QED
  BY <1>3, <1>4, <1>5, <1>6, <1>7, <1>8 DEF Acquire

LEMMA LockStepInv ==
  ASSUME LockInv, [LockNext]_lockVars
  PROVE  LockInv'
<1>1. CASE UNCHANGED lockVars
  BY <1>1 DEF lockVars, LockInv, LockTypeOK, GoneIsDone, SomethingSeen, JudgedGone, Holds
<1>2. ASSUME NEW h \in Hooks, Acquire(h) \/ GiveUp(h) \/ Leave(h) \/ Unlink(h) \/ Environment(h)
      PROVE  LockInv'
  <2>1. LockTypeOK'
    BY <1>2, LockStepType DEF LockInv, LockNext
  <2>2. \A g \in Hooks \ {h} : ctx'[g] = ctx[g]
    BY <1>2, OthersKeep DEF LockInv
  <2>3. /\ ctx'[h] # ctx[h] => h \notin gone
        /\ gone' = gone \/ (gone' = gone \cup {h} /\ ctx'[h].stage = "done")
        /\ ctx'[h].stage \in {"judge", "suspect"} => ctx'[h].seen # {}
        /\ ctx'[h].stage \in {"contend", "verify", "rename", "sweep"} =>
             ctx'[h].seen # {} /\ ctx'[h].seen \subseteq gone
    BY <1>2, OwnStep
  <2>4. GoneIsDone'
    BY <2>2, <2>3 DEF LockInv, LockTypeOK, GoneIsDone
  <2>5. SomethingSeen' /\ JudgedGone'
    BY <2>2, <2>3 DEF LockInv, SomethingSeen, JudgedGone
  <2>6. ~disturbed' => \A g \in Hooks : Holds(g)'
    BY <1>2, FilesKept, OwnFiles
  <2> QED
    BY <2>1, <2>4, <2>5, <2>6 DEF LockInv
<1> QED
  BY <1>1, <1>2 DEF LockNext

THEOREM LockInvariant == LockSpec => []LockInv
<1>1. LockInit => LockInv
  BY LockInitInv
<1>2. LockInv /\ [LockNext]_lockVars => LockInv'
  BY LockStepInv
<1> QED
  BY <1>1, <1>2, PTL DEF LockSpec

\* However many hooks run, are killed and recover each other's files, two of them
\* deliver at once only after a sweep has taken a mutex it had not judged.
THEOREM DeliverersExclude == LockSpec => []OneDeliverer
BY LockInvariant, InvImpliesOneDeliverer, PTL

=============================================================================

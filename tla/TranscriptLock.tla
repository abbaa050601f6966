--------------------------- MODULE TranscriptLock ---------------------------
(***************************************************************************)
(* The lock file of a transcript (neuralscape-plugin, transcript-lock.ts).  *)
(*                                                                         *)
(* Every hook of an editor is a process of its own.  It links a record of   *)
(* itself to the lock's path, runs its body, and unlinks it.  A hook may    *)
(* stop at any point: its lock stays, and the others recover it when its    *)
(* process is gone and the record is old.  Recoverers exclude each other by *)
(* a second file, the recovery mutex, that is itself cleared when its       *)
(* recorder is gone.                                                        *)
(*                                                                         *)
(* A file is the set of records in it: {} if it does not exist, {h} if it   *)
(* holds the record of hook h.  Each file system call is a step.  A hook    *)
(* runs once and writes one lock record.  Its mutex records need not be     *)
(* told apart.  Processes are judged dead only when they are: the reuse of  *)
(* a pid and other pid namespaces are left out, and so are files that are   *)
(* not records, and calls that fail other than because a file does or does  *)
(* not exist (but for the link of the lock, see GiveUp).                    *)
(***************************************************************************)
EXTENDS Naturals

CONSTANTS
  Hooks,  \* hook processes
  Left    \* those that were gone at the start, and left what they held

ASSUME TranscriptLockAssumption == Left \subseteq Hooks

VARIABLES
  lock,      \* the lock file
  mutex,     \* the recovery mutex
  gone,      \* processes that no longer run: they finished, or were killed
  old,       \* hooks whose lock record is older than staleMs
  oldMutex,  \* hooks whose mutex record is older than mutexStaleMs
  ctx,       \* local state of every hook
  disturbed  \* history: a sweep moved a mutex that was not the one judged

lockVars == <<lock, mutex, gone, old, oldMutex, ctx, disturbed>>
files == <<lock, mutex>>
ages == <<old, oldMutex>>

\* What a hook does next.  Every stage up to "drop" belongs to acquiring the lock.
Acquiring == {"try", "read", "judge", "wait", "mutex", "suspect", "sweep",
              "contend", "verify", "rename", "check", "drop"}
Recovering == {"verify", "rename", "check", "drop"}
Delivering == {"body", "unlink"}
Stages == Acquiring \cup Delivering \cup {"done"}

\* seen is the record that is being judged: the holder, or the mutex's recorder; then
\* is where a recoverer goes on once it has released the mutex
Local == [stage: Stages, seen: SUBSET Hooks, then: {"try", "wait", "done"}]
Blank(stage) == [stage |-> stage, seen |-> {}, then |-> "wait"]

File(hooks) == {{}} \cup {{h} : h \in hooks}

LockTypeOK ==
  /\ lock \in File(Hooks)
  /\ mutex \in File(Hooks)
  /\ gone \subseteq Hooks
  /\ old \subseteq Hooks
  /\ oldMutex \subseteq Hooks
  /\ ctx \in [Hooks -> Local]
  /\ disturbed \in BOOLEAN

LockInit ==
  /\ lock \in File(Left)
  /\ mutex \in File(Left)
  /\ gone = Left
  /\ old = {}
  /\ oldMutex = {}
  /\ ctx = [h \in Hooks |-> Blank(IF h \in Left THEN "done" ELSE "try")]
  /\ disturbed = FALSE

Running(h) == h \notin gone
At(h, stage) == Running(h) /\ ctx[h].stage = stage
Goto(h, stage) == ctx' = [ctx EXCEPT ![h].stage = stage]
See(h, seen, stage) == ctx' = [ctx EXCEPT ![h].stage = stage, ![h].seen = seen]
Leap(h, stage) == ctx' = [ctx EXCEPT ![h] = Blank(stage)]

-----------------------------------------------------------------------------
(* withTranscriptLock: acquire *)

\* linkInto(path): the record appears complete, or the path exists
Link(h) ==
  /\ At(h, "try")
  /\ IF lock = {}
     THEN lock' = {h} /\ Leap(h, "body")
     ELSE UNCHANGED lock /\ Goto(h, "read")
  /\ UNCHANGED <<mutex, gone, ages, disturbed>>

ReadHolder(h) ==
  /\ At(h, "read")
  /\ IF lock = {} THEN Leap(h, "try") ELSE See(h, lock, "judge")
  /\ UNCHANGED <<files, gone, ages, disturbed>>

JudgeByAge(h) ==
  /\ At(h, "judge")
  /\ IF ctx[h].seen \subseteq old THEN Goto(h, "contend") ELSE Leap(h, "wait")
  /\ UNCHANGED <<files, gone, ages, disturbed>>
\* ownerGone(holder, staleMs)
Judge(h) ==
  /\ At(h, "judge")
  /\ IF ctx[h].seen \subseteq gone \cap old THEN Goto(h, "contend") ELSE Leap(h, "wait")
  /\ UNCHANGED <<files, gone, ages, disturbed>>

\* The poll, until the deadline
Poll(h) ==
  /\ At(h, "wait")
  /\ Leap(h, "try")
  /\ UNCHANGED <<files, gone, ages, disturbed>>

\* The deadline passed, or the link failed: the turns wait for the next flush
GiveUp(h) ==
  /\ At(h, "wait") \/ At(h, "try")
  /\ Leap(h, "done")
  /\ UNCHANGED <<files, gone, ages, disturbed>>

-----------------------------------------------------------------------------
(* recoverAbandoned *)

\* linkInto(mutexPath): seen is the record that was judged abandoned
Contend(h) ==
  /\ At(h, "contend")
  /\ IF mutex = {}
     THEN mutex' = {h} /\ oldMutex' = oldMutex \ {h} /\ Goto(h, "verify")
     ELSE UNCHANGED <<mutex, oldMutex>> /\ Goto(h, "mutex")
  /\ UNCHANGED <<lock, gone, old, disturbed>>

\* Under the mutex: is it still the very record?
Verify(h) ==
  /\ At(h, "verify")
  /\ ctx' = [ctx EXCEPT ![h].stage = IF lock = ctx[h].seen THEN "rename" ELSE "check",
                        ![h].then = "wait"]
  /\ UNCHANGED <<files, gone, ages, disturbed>>

\* Move the lock aside, whatever it is by now, and look at what was moved
Rename(h) ==
  /\ At(h, "rename")
  /\ lock' = {}
  /\ ctx' = [ctx EXCEPT ![h].stage = "check",
                        ![h].then = IF lock = {} THEN "wait"
                                    ELSE IF lock = ctx[h].seen THEN "try" ELSE "done"]
  /\ UNCHANGED <<mutex, gone, ages, disturbed>>

\* Release the mutex: read it, and unlink it if it is one's own
CheckMutex(h) ==
  /\ At(h, "check")
  /\ IF mutex = {h} THEN Goto(h, "drop") ELSE Leap(h, ctx[h].then)
  /\ UNCHANGED <<files, gone, ages, disturbed>>

DropMutex(h) ==
  /\ At(h, "drop")
  /\ mutex' = {}
  /\ Leap(h, ctx[h].then)
  /\ UNCHANGED <<lock, gone, ages, disturbed>>

-----------------------------------------------------------------------------
(* clearAbandonedMutex *)

ReadMutex(h) ==
  /\ At(h, "mutex")
  /\ IF mutex = {} THEN Leap(h, "wait") ELSE See(h, mutex, "suspect")
  /\ UNCHANGED <<files, gone, ages, disturbed>>

SuspectNobody(h) ==
  /\ At(h, "suspect")
  /\ Leap(h, "wait")
  /\ UNCHANGED <<files, gone, ages, disturbed>>
\* ownerGone(judged, mutexStaleMs)
Suspect(h) ==
  /\ At(h, "suspect")
  /\ IF ctx[h].seen \subseteq gone \cap oldMutex THEN Goto(h, "sweep") ELSE Leap(h, "wait")
  /\ UNCHANGED <<files, gone, ages, disturbed>>

\* Move the mutex aside and delete it, whoever's it is by now
Sweep(h) ==
  /\ At(h, "sweep")
  /\ mutex' = {}
  /\ disturbed' = (disturbed \/ ~ mutex \subseteq ctx[h].seen)
  /\ Leap(h, "wait")
  /\ UNCHANGED <<lock, gone, ages>>

-----------------------------------------------------------------------------
(* withTranscriptLock: release *)

\* held()
Held(h) == lock = {h}

\* The body returned or threw, and the lock file is read once more
Leave(h) ==
  /\ At(h, "body")
  /\ IF Held(h) THEN Goto(h, "unlink") ELSE Leap(h, "done")
  /\ UNCHANGED <<files, gone, ages, disturbed>>

Unlink(h) ==
  /\ At(h, "unlink")
  /\ lock' = {}
  /\ Leap(h, "done")
  /\ UNCHANGED <<mutex, gone, ages, disturbed>>

-----------------------------------------------------------------------------
(* Processes and time *)

\* The process ends, wherever it is, and its local state with it
Exit(h) ==
  /\ Running(h)
  /\ gone' = gone \cup {h}
  /\ Leap(h, "done")
  /\ UNCHANGED <<files, ages, disturbed>>

GrowOld(h) ==
  /\ Held(h) /\ h \notin old
  /\ old' = old \cup {h}
  /\ UNCHANGED <<files, gone, oldMutex, ctx, disturbed>>

MutexGrowsOld(h) ==
  /\ mutex = {h} /\ h \notin oldMutex
  /\ oldMutex' = oldMutex \cup {h}
  /\ UNCHANGED <<files, gone, old, ctx, disturbed>>

-----------------------------------------------------------------------------

Acquire(h) ==
  \/ Link(h) \/ ReadHolder(h) \/ Judge(h) \/ Poll(h)
  \/ Contend(h) \/ Verify(h) \/ Rename(h) \/ CheckMutex(h) \/ DropMutex(h)
  \/ ReadMutex(h) \/ Suspect(h) \/ Sweep(h)

Environment(h) == Exit(h) \/ GrowOld(h) \/ MutexGrowsOld(h)

LockNext == \E h \in Hooks : Acquire(h) \/ GiveUp(h) \/ Leave(h) \/ Unlink(h) \/ Environment(h)

LockSpec == LockInit /\ [][LockNext]_lockVars

-----------------------------------------------------------------------------
(* Properties *)

\* At most one running hook is between taking the lock and releasing it, as long as
\* no sweep took a mutex that another recoverer had linked since it was judged.
\* (Recovery, crashes at every point and any number of hooks notwithstanding.)
OneDeliverer ==
  ~disturbed => \A g, h \in Hooks \ gone :
    ctx[g].stage \in Delivering /\ ctx[h].stage \in Delivering => g = h

\* A lock that a process left behind does not keep the others out for good: as long
\* as hooks try, it is recovered, also when recoverers are killed on the way.
AbandonedLockRecovered ==
  \A d \in Hooks :
    d \in gone /\ lock = {d}
      ~> lock # {d} \/ \A h \in Hooks \ gone : ctx[h].stage \notin Acquiring

=============================================================================

----------------------------- MODULE DreamSweep -----------------------------
(***************************************************************************)
(* Sweeps over one pool of memories (extensions/dreaming: gate.py, sweep.py *)
(* and consolidate.py), the requests that write to the pool meanwhile, and  *)
(* Redis, which keeps the lock, the stamp of the last dream and the ids it  *)
(* was about.  A sweep lists the pool, passes the gates, takes the lock,    *)
(* reads the rows, has an LLM examine them, applies what it decided with    *)
(* one round trip per row, and records that it is done.                     *)
(*                                                                         *)
(* A fact is a number.  The fact a memory was stored with is the memory's   *)
(* id; an edit replaces what a row holds by a fact of its own; a merge      *)
(* unites what its rows held.  Time is the number of dreams completed: a    *)
(* row changed after the k-th stamp and before the next has at = k, so that *)
(* "changed_at > last_dreamt_at" is at >= last.                             *)
(***************************************************************************)
EXTENDS Naturals, FiniteSets

CONSTANTS
  Sweeps,    \* slots of jobs that run a sweep: the cron's and the admin's
  MinNew,    \* min_new_memories
  Cap,       \* max_memories_per_pool
  AtStart,   \* memories in the pool when sweeps begin
  MaxEvents  \* bound on what happens from outside: requests, forced sweeps, failures,
             \* cancellations and deaths, together

ASSUME DreamAssumption ==
  /\ MinNew \in Nat \ {0}
  /\ Cap \in Nat \ {0}
  /\ AtStart \in Nat
  /\ MaxEvents \in Nat

MaxFacts == AtStart + MaxEvents
Ids == 1 .. MaxFacts

VARIABLES
  rows,     \* the pool: id -> row, or Absent
  minted,   \* facts so far: 1 .. minted
  dreams,   \* dreaming:gate, last_dreamt_at, as the number of stamps
  due,      \* min_hours have passed since the last stamp
  marker,   \* the ids of the last dream's batch, which lets an unchanged pool be skipped
  lock,     \* dreaming:lock, by the sweep whose token it is
  ctx,      \* what each sweep knows, and where it is
  events,   \* how much has happened from outside
  \* History
  overran,  \* sweeps whose lock expired under them
  fate      \* what has become of each fact

pool == <<rows, minted>>
redis == <<dreams, due, marker, lock>>
history == <<overran, fate>>
vars == <<pool, redis, ctx, events, history>>

\* The fate of a fact, each outdoing those before it: nothing yet; staged, but the pool
\* was skipped as unchanged; passed by the stamp of a sweep that had not read it, or had
\* cut it off; examined by an LLM; and lost, by an edit, a delete or a decision of
\* the LLM, or because its row had changed when a sweep applied its decision to it
Pending == 0
Skipped == 1
PassedOver == 2
Examined == 3
Lost == 4
Raised(facts, level) ==
  [f \in Ids |-> IF f \in facts /\ fate[f] < level THEN level ELSE fate[f]]

Absent == [state |-> "absent"]
Row == [state: {"stored"}, holds: SUBSET Ids, tomb: BOOLEAN, at: Nat]
NewRow(f, t) == [state |-> "stored", holds |-> {f}, tomb |-> FALSE, at |-> t]
Nobody == [held |-> FALSE]
HeldBy(w) == [held |-> TRUE, by |-> w]

Exists(r) == rows[r] # Absent
\* What recall returns
Recallable(r) == Exists(r) /\ ~rows[r].tomb
FactsOf(r) == IF Exists(r) THEN rows[r].holds ELSE {}
StoredFacts == UNION {FactsOf(r) : r \in Ids}

Working == {"hydrate", "decide", "plan", "rewrite", "upsert", "fold",
            "marker", "stamp", "release"}
\* light: the rows as enumerated, without their content.  batch: the staged rows as
\* hydrated, and as this sweep has left them.  left: ids no action has taken yet.
\* into, fold: the action under way, a merge into a survivor (0: there is none) of
\* the rows in fold.  speaks: the facts read that a stamp of this sweep speaks for.
\* buried: the survivor was read tombstoned.  orphan: the job was cancelled, and only
\* the thread of its last call goes on.
NoRows == [r \in Ids |-> Absent]
Idle == [at |-> "idle", forced |-> FALSE, light |-> NoRows, last |-> 0, batch |-> NoRows,
         speaks |-> {}, left |-> {}, into |-> 0, fold |-> {}, buried |-> FALSE,
         orphan |-> FALSE]
Rows == [Ids -> Row \cup {Absent}]
Sweep == [at: {"idle", "listed"} \cup Working, forced: BOOLEAN, light: Rows,
          last: Nat, batch: Rows, speaks: SUBSET Ids, left: SUBSET Ids,
          into: 0 .. MaxFacts, fold: SUBSET Ids, buried: BOOLEAN, orphan: BOOLEAN]

Staged(w) == {r \in Ids : ctx[w].batch[r] # Absent}
BatchFacts(w) == UNION {ctx[w].batch[r].holds : r \in Staged(w)}
InBody(w) == ctx[w].at \in Working /\ ~ctx[w].orphan

TypeOK ==
  /\ rows \in Rows
  /\ minted \in 0 .. MaxFacts
  /\ dreams \in Nat
  /\ due \in BOOLEAN
  /\ marker \subseteq Ids
  /\ lock \in {Nobody} \cup {HeldBy(w) : w \in Sweeps}
  /\ ctx \in [Sweeps -> Sweep]
  /\ events \in 0 .. MaxEvents
  /\ overran \subseteq Sweeps
  /\ fate \in [Ids -> Pending .. Lost]

Init ==
  /\ rows = [r \in Ids |-> IF r <= AtStart THEN NewRow(r, 0) ELSE Absent]
  /\ minted = AtStart
  /\ dreams = 0
  /\ due = TRUE
  /\ marker = {}
  /\ lock = Nobody
  /\ ctx = [w \in Sweeps |-> Idle]
  /\ events = 0
  /\ overran = {}
  /\ fate = [f \in Ids |-> Pending]

Event ==
  /\ events < MaxEvents
  /\ events' = events + 1

-----------------------------------------------------------------------------
(* Requests.  Each is one step here: MemoryStore has what happens inside them. *)

Store ==
  /\ Event
  /\ minted' = minted + 1
  /\ rows' = [rows EXCEPT ![minted'] = NewRow(minted', dreams)]
  /\ UNCHANGED <<redis, ctx, history>>

\* An edit of the text of a memory the user was shown
Edit(r) ==
  /\ Recallable(r)
  /\ Event
  /\ minted' = minted + 1
  /\ rows' = [rows EXCEPT ![r] = NewRow(minted', dreams)]
  /\ fate' = Raised(rows[r].holds, Lost)
  /\ UNCHANGED <<redis, ctx, overran>>

Delete(r) ==
  /\ Recallable(r)
  /\ Event
  /\ rows' = [rows EXCEPT ![r] = Absent]
  /\ fate' = Raised(rows[r].holds, Lost)
  /\ UNCHANGED <<minted, redis, ctx, overran>>

-----------------------------------------------------------------------------
(* A sweep, up to the lock *)

Set(w, s) == ctx' = [ctx EXCEPT ![w] = s]
Go(w, stage) == Set(w, [ctx[w] EXCEPT !.at = stage])
\* The finally: of _dream_pool, whatever ended it
Leave(w) == Set(w, [Idle EXCEPT !.at = "release"])
ToStamp(w) == Set(w, [Idle EXCEPT !.at = "stamp", !.speaks = ctx[w].speaks])

\* enumerate_pools, before any gate or lock.  The pools in front of this one may
\* take hours.  A forced sweep is the admin's.
Begin(w, forced) ==
  /\ ctx[w].at = "idle"
  /\ \E r \in Ids : Recallable(r)
  /\ Set(w, [Idle EXCEPT !.at = "listed", !.forced = forced,
               !.light = [r \in Ids |-> IF Recallable(r) THEN [rows[r] EXCEPT !.holds = {}]
                                        ELSE Absent]])
  /\ IF forced THEN Event ELSE UNCHANGED events
  /\ UNCHANGED <<pool, redis, history>>

\* The time gate; the volume pre-gate, which counts the rows as enumerated; and
\* SET NX PX, with no await between them.  A sweep that finds the lock taken leaves
\* the pool alone.
NewListed(w, last) ==
  {r \in Ids : ctx[w].light[r] # Absent /\ ctx[w].light[r].at >= last}
PassGates(w, last, timePassed) ==
  /\ ctx[w].at = "listed"
  /\ IF /\ ctx[w].forced \/ (timePassed /\ Cardinality(NewListed(w, last)) >= MinNew)
        /\ lock = Nobody
     THEN /\ lock' = HeldBy(w)
          /\ Set(w, [ctx[w] EXCEPT !.at = "hydrate", !.last = last])
     ELSE UNCHANGED lock /\ Set(w, Idle)
  /\ UNCHANGED <<pool, dreams, due, marker, history>>
Acquire(w) == PassGates(w, dreams, due) /\ UNCHANGED events
\* A failed read of the stamp passes for a pool that has never dreamt
AcquireUngated(w) == Event /\ PassGates(w, 0, TRUE)

-----------------------------------------------------------------------------
(* A sweep that has taken the lock *)

\* hydrate_pool rereads the rows and drops those deleted, but not those tombstoned
Hydrated(w) == {r \in Ids : ctx[w].light[r] # Absent /\ Exists(r)}
NewHydrated(w) == {r \in Hydrated(w) : rows[r].at >= ctx[w].last}
\* newest first, and no more than the cap
Newest(S) == {r \in S : Cardinality({x \in S : x > r}) < Cap}

\* hydrate_pool, stage_pool with the old rows found weak, the volume gate again, and
\* the comparison with the last dream's ids
Stage(w, weak) ==
  LET staged == NewHydrated(w) \cup weak
      batch == Newest(staged)
      Facts(S) == UNION {rows[r].holds : r \in S}
  IN /\ ctx[w].at = "hydrate"
     /\ weak \subseteq Hydrated(w) \ NewHydrated(w)
     /\ IF /\ ~ctx[w].forced
           /\ Cardinality(NewHydrated(w)) < MinNew \/ batch = marker
        THEN /\ Leave(w)
             /\ fate' = Raised(IF Cardinality(NewHydrated(w)) < MinNew THEN {}
                               ELSE Facts(staged), Skipped)
        ELSE /\ Set(w, [Idle EXCEPT !.at = "decide",
                          !.batch = [r \in Ids |-> IF r \in batch THEN rows[r] ELSE Absent],
                          !.left = batch,
                          !.speaks = Facts(batch) \cup Facts(Hydrated(w) \ staged)])
             /\ UNCHANGED fate
     /\ UNCHANGED <<pool, redis, events, overran>>

\* decide: the LLM answers with a list of actions, if there is anything to ask
Examine(w) ==
  /\ ctx[w].at = "decide"
  /\ Go(w, "plan")
  /\ fate' = Raised(BatchFacts(w), Examined)
  /\ UNCHANGED <<pool, redis, events, overran>>
\* Mutants: a failed LLM passes for one that decided on nothing, and the sweep is
\* stamped, or its batch recorded
FailureIsStamped(w) ==
  /\ ctx[w].at = "decide" /\ Staged(w) # {}
  /\ Event
  /\ ToStamp(w)
  /\ UNCHANGED <<pool, redis, history>>
FailureIsMarked(w) ==
  /\ ctx[w].at = "decide" /\ Staged(w) # {}
  /\ Event
  /\ Go(w, "marker")
  /\ UNCHANGED <<pool, redis, history>>
\* DreamLLMFailure: nothing was examined, and nothing is recorded
ExamineFails(w) ==
  /\ ctx[w].at = "decide" /\ Staged(w) # {}
  /\ Event
  /\ Leave(w)
  /\ UNCHANGED <<pool, redis, history>>

\* apply_actions: the next one of the list.  A merge or a rewrite (a merge of nothing) ...
PlanMerge(w, survivor, losers) ==
  /\ ctx[w].at = "plan"
  /\ survivor \in ctx[w].left
  /\ losers \subseteq ctx[w].left \ {survivor}
  /\ Set(w, [ctx[w] EXCEPT !.at = "rewrite", !.into = survivor, !.fold = losers,
               !.left = @ \ (losers \cup {survivor})])
  /\ UNCHANGED <<pool, redis, events, history>>
\* ... or an invalidate or a prune, row by row
PlanDrop(w, r) ==
  /\ ctx[w].at = "plan"
  /\ r \in ctx[w].left
  /\ Set(w, [ctx[w] EXCEPT !.at = "fold", !.into = 0, !.fold = {r}, !.left = @ \ {r}])
  /\ UNCHANGED <<pool, redis, events, history>>
PlanDone(w) ==
  /\ ctx[w].at = "plan"
  /\ Go(w, "marker")
  /\ UNCHANGED <<pool, redis, events, history>>

\* The thread of a cancelled job ends with its call
Then(w, s) == Set(w, IF s.orphan THEN Idle ELSE s)
NextAction(w) == [ctx[w] EXCEPT !.at = "plan", !.into = 0, !.fold = {}, !.buried = FALSE]

\* The row is not as this sweep read it, or left it, or it was read tombstoned
Overtaken(w, r) == ctx[w].batch[r].tomb \/ rows[r] # ctx[w].batch[r]

\* _rewrite_content: the survivor is read whole; one that is gone fails the action ...
RewriteRead(w) ==
  /\ ctx[w].at = "rewrite"
  /\ IF Exists(ctx[w].into)
     THEN Set(w, [ctx[w] EXCEPT !.at = "upsert", !.buried = rows[ctx[w].into].tomb])
     ELSE Then(w, NextAction(w))
  /\ UNCHANGED <<pool, redis, events, history>>

\* What the LLM wrote for the survivor, from the batch as it was hydrated
Content(w) ==
  UNION {ctx[w].batch[r].holds : r \in ctx[w].fold \cup {ctx[w].into}}
Rewritten(w) ==
  [state |-> "stored", holds |-> Content(w), tomb |-> ctx[w].buried, at |-> dreams]

\* ... and written whole, after the embedding
Upsert(w) ==
  LET s == ctx[w].into
      involved == ctx[w].fold \cup {s}
  IN /\ ctx[w].at = "upsert"
     /\ rows' = [rows EXCEPT ![s] = Rewritten(w)]
     /\ Then(w, IF ctx[w].fold = {} THEN NextAction(w)
                ELSE [ctx[w] EXCEPT !.at = "fold", !.batch[s] = Rewritten(w)])
     /\ fate' = Raised(IF ctx[w].buried \/ \E r \in involved : Overtaken(w, r)
                       THEN UNION {FactsOf(r) : r \in involved} ELSE {}, Lost)
     /\ UNCHANGED <<minted, redis, events, overran>>

\* A row of the action is hidden or removed: with facts that the LLM gives up, if it
\* is not merged, and with facts that nobody gave up, if it was overtaken
Fold(w, r, to) ==
  LET s == ctx[w].into
      rest == ctx[w].fold \ {r}
  IN /\ ctx[w].at = "fold"
     /\ r \in ctx[w].fold
     /\ rows' = [rows EXCEPT ![r] = to]
     /\ Then(w, IF rest = {} THEN NextAction(w) ELSE [ctx[w] EXCEPT !.fold = rest])
     /\ fate' = Raised((IF s = 0 THEN ctx[w].batch[r].holds ELSE {}) \cup
                       (IF Overtaken(w, r) \/ (s # 0 /\ Overtaken(w, s))
                        THEN FactsOf(r) ELSE {}), Lost)
     /\ UNCHANGED <<minted, redis, events, overran>>

\* Mutant: the payload is replaced by the one it should be merged with
TombstoneOverwrites(w, r) == Fold(w, r, [state |-> "stored", tomb |-> TRUE])
\* _tombstone, which merges into the metadata of a row, if it is there
Tombstone(w, r) ==
  Fold(w, r, IF Exists(r) THEN [rows[r] EXCEPT !.tomb = TRUE] ELSE Absent)
\* delete_memory, of a secret
Purge(w, r) == ctx[w].into = 0 /\ Fold(w, r, Absent)

\* Mutant: a failed rewrite does not fail the merge
MergeGoesOn(w) ==
  /\ ctx[w].at \in {"rewrite", "upsert", "fold"}
  /\ Event
  /\ Then(w, IF ctx[w].at # "fold" /\ ctx[w].fold # {}
             THEN [ctx[w] EXCEPT !.at = "fold"] ELSE NextAction(w))
  /\ UNCHANGED <<pool, redis, history>>
\* A call of an action fails: the action is left where it is, and the next one begins
ActionFails(w) ==
  /\ ctx[w].at \in {"rewrite", "upsert", "fold"}
  /\ Event
  /\ Then(w, NextAction(w))
  /\ UNCHANGED <<pool, redis, history>>

\* The marker is set and then the stamp, once the diary is written
SetMarker(w) ==
  /\ ctx[w].at = "marker"
  /\ marker' = Staged(w)
  /\ ToStamp(w)
  /\ UNCHANGED <<pool, dreams, due, lock, events, history>>
Stamp(w) ==
  /\ ctx[w].at = "stamp"
  /\ dreams' = dreams + 1
  /\ due' = FALSE
  /\ fate' = Raised(StoredFacts \ ctx[w].speaks, PassedOver)
  /\ Leave(w)
  /\ UNCHANGED <<pool, marker, lock, events, overran>>
\* A failed write of either is passed over
RecordFails(w) ==
  /\ ctx[w].at \in {"marker", "stamp"}
  /\ Event
  /\ IF ctx[w].at = "marker" THEN ToStamp(w) ELSE Leave(w)
  /\ UNCHANGED <<pool, redis, history>>

\* Mutant: the lock is deleted whoever holds it
ReleasedByAnyone(w) == Nobody
\* Compare and delete, by token
Released(w) == IF lock = HeldBy(w) THEN Nobody ELSE lock
Release(w) ==
  /\ ctx[w].at = "release" /\ ~ctx[w].orphan
  /\ Set(w, Idle)
  /\ lock' = Released(w)
  /\ overran' = overran \ {w}
  /\ UNCHANGED <<pool, dreams, due, marker, events, fate>>
ReleaseFails(w) ==
  /\ ctx[w].at = "release" /\ ~ctx[w].orphan
  /\ Event
  /\ Set(w, Idle)
  /\ overran' = overran \ {w}
  /\ UNCHANGED <<pool, redis, fate>>

-----------------------------------------------------------------------------
(* What happens to a sweep *)

\* An exception that no step of the sweep handles: Qdrant while hydrating, the
\* file system while the diary is written
Raises(w) ==
  /\ ctx[w].at \in {"hydrate", "marker"}
  /\ Event
  /\ Leave(w)
  /\ UNCHANGED <<pool, redis, history>>

\* The job times out and is cancelled, where it awaits something.  The lock is released,
\* but a thread that is in a call goes on.
Cancelled(w) ==
  /\ InBody(w) /\ ctx[w].at \notin {"stamp", "release"}
  /\ Event
  /\ Set(w, IF ctx[w].at \in {"rewrite", "upsert", "fold"}
            THEN [ctx[w] EXCEPT !.orphan = TRUE, !.left = {}, !.speaks = {}] ELSE Idle)
  /\ lock' = Released(w)
  /\ overran' = overran \ {w}
  /\ UNCHANGED <<pool, dreams, due, marker, fate>>

\* The worker dies, with the threads it runs; a sweep is not tried again
Killed(w) ==
  /\ ctx[w].at # "idle"
  /\ Event
  /\ Set(w, Idle)
  /\ overran' = overran \ {w}
  /\ UNCHANGED <<pool, redis, fate>>

\* Mutant: the lock is set without PX
NeverExpires == FALSE /\ UNCHANGED vars
\* An hour has passed since the lock was taken: its owner is no more ...
LockExpires ==
  /\ lock # Nobody
  /\ ~InBody(lock.by)
  /\ lock' = Nobody
  /\ UNCHANGED <<pool, dreams, due, marker, ctx, events, history>>
\* ... or was held up for that long
LockOutlived(w) ==
  /\ lock = HeldBy(w) /\ InBody(w)
  /\ Event
  /\ lock' = Nobody
  /\ overran' = overran \cup {w}
  /\ UNCHANGED <<pool, dreams, due, marker, ctx, fate>>

TimePasses ==
  /\ ~due
  /\ \A w \in Sweeps : ctx[w].at \in {"idle", "listed"}
  /\ due' = TRUE
  /\ UNCHANGED <<pool, dreams, marker, lock, ctx, events, history>>

-----------------------------------------------------------------------------
Request == Store \/ \E r \in Ids : Edit(r) \/ Delete(r)

Plan(w) ==
  \/ \E survivor \in ctx[w].left : \E losers \in SUBSET ctx[w].left :
       PlanMerge(w, survivor, losers)
  \/ \E r \in ctx[w].left : PlanDrop(w, r)
  \/ PlanDone(w)

\* What a running sweep does next
Advance(w) ==
  \/ Acquire(w)
  \/ \E weak \in SUBSET Ids : Stage(w, weak)
  \/ Examine(w) \/ Plan(w) \/ RewriteRead(w) \/ Upsert(w)
  \/ \E r \in Ids : Tombstone(w, r) \/ Purge(w, r)
  \/ SetMarker(w) \/ Stamp(w) \/ Release(w)

Mishap(w) ==
  \/ AcquireUngated(w) \/ ExamineFails(w) \/ ActionFails(w) \/ RecordFails(w)
  \/ ReleaseFails(w) \/ Raises(w) \/ Cancelled(w) \/ Killed(w) \/ LockOutlived(w)

Next ==
  \/ Request
  \/ \E w \in Sweeps : Begin(w, TRUE) \/ Begin(w, FALSE) \/ Advance(w) \/ Mishap(w)
  \/ LockExpires \/ TimePasses

Spec == Init /\ [][Next]_vars

\* The cron comes round, a sweep goes on, and time passes; nothing makes a request
\* come, an admin force a sweep, or anything fail
Fairness ==
  /\ \A w \in Sweeps : WF_vars(Begin(w, FALSE)) /\ WF_vars(Advance(w))
  /\ WF_vars(LockExpires) /\ WF_vars(TimePasses)
FairSpec == Spec /\ Fairness

-----------------------------------------------------------------------------
(* Properties *)

\* At most one sweep works on the pool, other than those whose lock expired under
\* them and the last calls of those cancelled: a sweep that comes late to its release
\* does not free the next one's lock (gate.py, the release script).
OneSweep ==
  \A v, w \in Sweeps \ overran : InBody(v) /\ InBody(w) => v = w

\* Consolidation loses nothing.  Every fact that was stored is in a row that recall
\* returns, unless it was given up on purpose or its row changed under a sweep:
\* whatever fails, is cancelled or dies between the rewrite of a merge's survivor
\* and the tombstones of the others.
NothingForgotten ==
  \A f \in 1 .. minted : fate[f] # Lost =>
    \E r \in Ids : Recallable(r) /\ f \in rows[r].holds

\* "Keeps (a) everything new/changed since the last dream", the docstring of stage_pool
\* says, and the cap is there "so huge pools consolidate incrementally" (consolidate.py):
\* a row becomes old once an LLM has examined what it holds.  The stamp makes every
\* row old that was there when the sweep ended, those cut off by the cap and those
\* stored or edited while it ran among them, so that later sweeps leave them out.
NewAreExamined ==
  \A r \in Ids : Exists(r) /\ rows[r].at < dreams =>
    \A f \in rows[r].holds : fate[f] >= Examined

\* What is left of NewAreExamined: a row from before the last stamp that no LLM examined
\* came after the stamping sweep had read the pool or was beyond its cap.  It is never
\* one that sweep had in its batch, or found old: no failed LLM pass, no gate and no
\* crash in front of one is stamped.
NoneStampedUnseen ==
  \A r \in Ids : Exists(r) /\ rows[r].at < dreams =>
    \A f \in rows[r].holds : fate[f] >= PassedOver

\* The ids that let a pool be skipped are of memories that an LLM examined as they
\* were stored, or that are no more: a sweep that came to nothing does not make the
\* next ones skip.
MarkerWasExamined == \A r \in marker : fate[r] >= Examined

\* No pool is wedged, however sweeps fail and die (gate.py, acquire_lock): whatever is
\* stored meets a sweep that ends.  That sweep examined it, or passed it over, or found
\* the pool unchanged and skipped it; whether each row is read in the end is another
\* question, and NewAreExamined says that some are not.
EventuallyConsidered ==
  \A f \in Ids : f <= minted ~> fate[f] # Pending

=============================================================================

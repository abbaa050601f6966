---------------------------- MODULE ConnectorSync ----------------------------
(***************************************************************************)
(* Syncs of one connector: the HTTP routes and the cron that register,      *)
(* remove and enqueue (main.py, worker.py), the ingest queue, and the job   *)
(* process_connector_sync, on the vault of ConnectorVault.                  *)
(*                                                                         *)
(* The source is a list of pages of resources, and a page token is the      *)
(* cursor.  It is edited while syncs run; every edit of a resource gives it *)
(* a newer revision.  Each request to the source, each ingestion and each   *)
(* round trip to Redis is a step; a sync between two of them goes by what   *)
(* it read.  The jobs of ARQ have an id: enqueueing one that waits, runs, or*)
(* whose result is still kept, does nothing.                                *)
(***************************************************************************)
EXTENDS ConnectorVault

CONSTANTS
  Routes, Workers, \* slots of requests (and of the cron), and of ingest workers
  Paused,          \* the configs with enabled = False
  Pages,           \* pages of the source, 1 .. Pages; each holds Resources
  MaxEvents        \* bound on what happens from outside: registrations, removals, edits
                   \* of the source, failures and deaths, together

ASSUME SyncAssumption ==
  /\ Callers = Routes \cup Workers
  /\ Routes \cap Workers = {}
  /\ Paused \subseteq Configs
  /\ Pages \in Nat \ {0}
  /\ Resources \subseteq (1 .. Pages) \X Nat
  /\ MaxEvents \in Nat

VARIABLES
  source,   \* revision of each resource
  queue,    \* jobs that wait
  kept,     \* jobs whose result ARQ still keeps
  local,    \* state of each route and worker, apart from its vault call
  ingested, \* history: what was ingested, and for whom
  missed,   \* history: what could not be fetched (a warning in the log) or is blank, for whom
  events    \* how much has happened from outside

syncVars == <<source, queue, kept, local, ingested, missed, events>>
vars == <<key, minted, calls, syncVars>>

\* A job is its id (connector_sync_job_id).  One queued before generations were
\* introduced has an id of its own and carries none.
Job == [gen: Nat, owner: Owners, old: BOOLEAN]
Seen == [owner: Owners, res: Resources, rev: Nat]

Free == [stage |-> "free"]
\* A sync under way: the record as read, what list_resources said, and what is
\* not done yet
Syncing == [stage: {"fetch"}, job: Job, record: Record, next: Nat,
            listed: [Resources -> Nat], left: SUBSET Resources, revs: [Resources -> Nat]]
Local == {Free} \cup [stage: {"enqueue", "save"}, job: Job]
         \cup [stage: {"list"}, job: Job, record: Record] \cup Syncing

TypeOK ==
  /\ VaultTypeOK
  /\ key # Absent => key.progress.cursor \in 0 .. Pages
  /\ source \in [Resources -> Nat]
  /\ queue \subseteq Job
  /\ kept \subseteq Job
  /\ local \in [Callers -> Local]
  /\ ingested \subseteq Seen
  /\ missed \subseteq Owners \X Resources
  /\ events \in 0 .. MaxEvents

OldJob(owner) == [gen |-> 0, owner |-> owner, old |-> TRUE]

\* A record from before generations may still have a job from then in the queue
Init ==
  /\ VaultInit
  /\ source = [r \in Resources |-> 1]
  /\ queue \in {{}} \cup (IF key = Absent THEN {} ELSE {{OldJob(key.owner)}})
  /\ kept = {}
  /\ local = [c \in Callers |-> Free]
  /\ ingested = {}
  /\ missed = {}
  /\ events = 0

Go(c, l) == local' = [local EXCEPT ![c] = l]
Event ==
  /\ events < MaxEvents
  /\ events' = events + 1

-----------------------------------------------------------------------------
(* Requests and the cron *)

\* POST /connectors.  Only a caller without an identity may replace another
\* owner's connector.
RegisterRoute(c, owner, config, mayTake) ==
  /\ local[c] = Free
  /\ Event
  /\ Begin(c, [op |-> "put", owner |-> owner, config |-> config, mayTake |-> mayTake])
  /\ UNCHANGED <<source, queue, kept, local, ingested, missed>>

\* DELETE /connectors/{id}: _require_owned_connector, then vault.delete of the
\* generation it saw
RemoveRoute(c) ==
  /\ local[c] = Free
  /\ key # Absent
  /\ Event
  /\ Begin(c, [op |-> "delete", gen |-> key.gen])
  /\ UNCHANGED <<source, queue, kept, local, ingested, missed>>

\* POST /connectors/{id}/sync by the owner, or connector_sync_cron: the record is read ...
SyncRequested(c) ==
  /\ local[c] = Free /\ ~Busy(c)
  /\ key # Absent
  /\ Go(c, [stage |-> "enqueue",
            job |-> [gen |-> key.gen, owner |-> key.owner, old |-> FALSE]])
  /\ UNCHANGED <<key, minted, calls, source, queue, kept, ingested, missed, events>>
\* ... by the cron, which passes over a connector that is not enabled
CronSync(c) == key # Absent /\ key.config \notin Paused /\ SyncRequested(c)

Running == {local[w].job : w \in {v \in Workers : local[v] # Free}}
\* ... and the job is queued, unless ARQ knows its id
Enqueue(c) ==
  /\ local[c].stage = "enqueue"
  /\ queue' = IF local[c].job \in kept \cup Running THEN queue
              ELSE queue \cup {local[c].job}
  /\ Go(c, Free)
  /\ UNCHANGED <<key, minted, calls, source, kept, ingested, missed, events>>

-----------------------------------------------------------------------------
(* process_connector_sync *)

\* The job ends, and ARQ keeps its result
End(w, job) ==
  /\ kept' = kept \cup {job}
  /\ Go(w, Free)

Due(job) == key # Absent /\ key.gen = job.gen /\ key.config \notin Paused

\* The job starts with vault.get
Take(w, job) ==
  /\ local[w] = Free
  /\ job \in queue
  /\ queue' = queue \ {job}
  /\ UNCHANGED <<key, minted, calls, source, ingested, missed, events>>

Skip(w, job) ==
  /\ Take(w, job)
  /\ ~Due(job)
  /\ End(w, job)

Start(w, job) ==
  /\ Take(w, job)
  /\ Due(job)
  /\ Go(w, [stage |-> "list", job |-> job, record |-> key])
  /\ UNCHANGED kept

\* list_resources: one page, and the token of the one after it.  Resources whose
\* revision is the one last seen are passed over.
Page(cursor) == IF cursor = 0 THEN 1 ELSE cursor
On(page) == {r \in Resources : r[1] = page}
FollowingAlways(page) == page + 1
Following(page) == IF page < Pages THEN page + 1 ELSE 0

List(w) ==
  /\ local[w].stage = "list"
  /\ LET was == local[w].record.progress
         page == Page(was.cursor)
     IN Go(w, [stage |-> "fetch", job |-> local[w].job, record |-> local[w].record,
               next |-> Following(page),
               listed |-> [r \in Resources |-> IF r \in On(page) THEN source[r] ELSE 0],
               left |-> {r \in On(page) : was.revs[r] # source[r]},
               revs |-> was.revs])
  /\ UNCHANGED <<key, minted, calls, source, queue, kept, ingested, missed, events>>

\* fetch and ingest_document, for the owner the record had.  The resource may have been
\* edited since it was listed: what is recorded is the revision of the list.
Fetch(w, r) ==
  /\ local[w].stage = "fetch" /\ r \in local[w].left
  /\ Go(w, [local[w] EXCEPT !.left = @ \ {r}, !.revs[r] = local[w].listed[r]])
  /\ ingested' = ingested \cup {[owner |-> local[w].record.owner, res |-> r, rev |-> source[r]]}
  /\ UNCHANGED <<key, minted, calls, source, queue, kept, missed, events>>

\* The fetch fails, which is a warning, or the resource is blank, which is none: on to
\* the next
FetchFails(w, r) ==
  /\ local[w].stage = "fetch" /\ r \in local[w].left
  /\ Event
  /\ Go(w, [local[w] EXCEPT !.left = @ \ {r}])
  /\ missed' = missed \cup {<<local[w].record.owner, r>>}
  /\ UNCHANGED <<key, minted, calls, source, queue, kept, ingested>>

\* list_resources or ingest_document raises: nothing is saved
JobFails(w) ==
  /\ local[w].stage \in {"list", "fetch"}
  /\ Event
  /\ End(w, local[w].job)
  /\ UNCHANGED <<key, minted, calls, source, queue, ingested, missed>>

SaveProgress(w, cursor) ==
  /\ local[w].stage = "fetch" /\ local[w].left = {}
  /\ LET record == local[w].record
     IN Begin(w, [op |-> "update", gen |-> record.gen, from |-> record.progress,
                  to |-> [cursor |-> cursor, revs |-> local[w].revs]])
  /\ Go(w, [stage |-> "save", job |-> local[w].job])
  /\ UNCHANGED <<source, queue, kept, ingested, missed, events>>

SaveWhereItBegan(w) == SaveProgress(w, local[w].record.progress.cursor)
\* update_sync_state with what the sync started from.  next_cursor None leaves the
\* cursor as it was.
Save(w) ==
  SaveProgress(w, IF local[w].next = 0 THEN local[w].record.progress.cursor ELSE local[w].next)

\* Its call goes on; written or not, the sync is over with it
SaveStep(w) ==
  /\ local[w].stage = "save"
  /\ VaultStep(w)
  /\ IF calls'[w] = Idle THEN End(w, local[w].job) ELSE UNCHANGED <<kept, local>>
  /\ UNCHANGED <<source, queue, ingested, missed, events>>

-----------------------------------------------------------------------------
(* What happens around them *)

\* The vault call of a request goes on
CallStep(c) ==
  /\ VaultStep(c)
  /\ UNCHANGED syncVars

\* A worker dies: ARQ runs its job again
WorkerKilled(w) ==
  /\ local[w] # Free
  /\ Event
  /\ queue' = queue \cup {local[w].job}
  /\ Go(w, Free)
  /\ Drop(w)
  /\ UNCHANGED <<source, kept, ingested, missed>>

ResultExpires(job) ==
  /\ job \in kept
  /\ kept' = kept \ {job}
  /\ UNCHANGED <<key, minted, calls, source, queue, local, ingested, missed, events>>

\* Somebody edits the source
Edit(r) ==
  /\ Event
  /\ source' = [source EXCEPT ![r] = @ + 1]
  /\ UNCHANGED <<key, minted, calls, queue, kept, local, ingested, missed>>

RouteStep(c) ==
  \/ CallStep(c)
  \/ Enqueue(c)

WorkerStep(w) ==
  \/ \E job \in queue : Skip(w, job) \/ Start(w, job)
  \/ List(w) \/ Save(w) \/ SaveStep(w)
  \/ \E r \in Resources : Fetch(w, r)

Next ==
  \/ \E c \in Routes :
       \/ RouteStep(c)
       \/ \E owner \in Owners, config \in Configs, mayTake \in BOOLEAN :
            RegisterRoute(c, owner, config, mayTake)
       \/ RemoveRoute(c)
       \/ SyncRequested(c)
  \/ \E w \in Workers :
       \/ WorkerStep(w)
       \/ \E r \in Resources : FetchFails(w, r)
       \/ JobFails(w)
       \/ WorkerKilled(w)
  \/ \E job \in kept : ResultExpires(job)
  \/ \E r \in Resources : Edit(r)

Spec == Init /\ [][Next]_vars

\* Requests and workers go on, the cron comes round, and results expire
Fairness ==
  /\ \A c \in Routes : WF_vars(RouteStep(c))
  /\ \A w \in Workers : WF_vars(WorkerStep(w))
  /\ WF_vars(\E c \in Routes : CronSync(c))
  /\ WF_vars(\E job \in kept : ResultExpires(job))

FairSpec == Spec /\ Fairness

-----------------------------------------------------------------------------
(* Properties *)

\* A revision that is on record was ingested, for the owner on record: progress never
\* claims what another owner's instance, or nobody, has ingested.  (update_sync_state
\* under its generation; put, which starts a new owner's instance with nothing.)
SavedIsIngested ==
  key # Absent =>
    \A r \in Resources :
      key.progress.revs[r] = 0
        \/ \E s \in ingested :
             s.owner = key.owner /\ s.res = r /\ s.rev >= key.progress.revs[r]

\* Overlapping syncs of one instance, such as one queued under an old job id and one
\* under the new, never roll its progress back, nor does a registration
\* (update_sync_state: "cannot move the cursor backwards").
Ahead(old, new) ==
  /\ old.cursor <= new.cursor
  /\ \A r \in Resources : old.revs[r] <= new.revs[r]
ProgressForward ==
  [][(key # Absent /\ key' # Absent /\ key'.gen = key.gen)
       => Ahead(key.progress, key'.progress)]_vars

\* Every change of the key is one of the register's, though each call reads and
\* writes in separate steps (the module comment of vault.py)
RegisterSpec == Register!Spec

\* A connector that stays registered and enabled gets through a first pass over its
\* source: all of it was ingested for its owner at some revision, but for resources that
\* could not be fetched (the log says so) or are blank (nothing says so).  Jobs that fail,
\* die or are coalesced, and registrations in between, delay that pass and do not end it.
\* Of later passes it says nothing: the cursor then stays on the last page.
Settled == <>[](key # Absent /\ key.config \notin Paused)
Covered(r) == \E s \in ingested : s.owner = key.owner /\ s.res = r
FirstPassCompletes ==
  Settled => <>(key # Absent
                /\ \A r \in Resources : Covered(r) \/ <<key.owner, r>> \in missed)

=============================================================================

# Neuralscape: TLA+ models and proofs

This directory holds a TLA+ development of Neuralscape's memory service: modules
translated from the source, TLC configurations that model-check them, and
TLAPS proofs. All paths below are relative to the repository
(`src/` in `PROJECT.json`); *service* stands for `neuralscape-service`.

## 1. Inventory

Neuralscape stores what a user's assistants learn as *memories*. A memory is a
row of a vector store (Qdrant) and, some minutes later, an episode of a knowledge
graph (Graphiti on Neo4j). An HTTP API and an MCP server take requests, two ARQ
workers (a default and a graph queue on Redis) run the slow parts, crons
consolidate, and an editor plugin feeds transcripts in.

| Part | State | Operations | Talks to |
|---|---|---|---|
| Write path (`service/memory/write.py`, `worker.py`) | rows of Qdrant | `store_raw`, hash lookup, reinforcement, revival, insert | Qdrant directly, graph queue through Redis |
| Graph enrichment (`worker.py`, `write.py:enrich_graph`) | episodes, entity nodes and edges of Neo4j; the episode ref on the row | `process_graph_enrichment` | Qdrant, Graphiti (an LLM call of minutes) |
| Edit (`memory/edit.py`) | row, graph | `patch_memory`: read, write metadata or upsert, cascade, re-ingest | mem0's `Memory.update`, cascade, graph queue |
| Delete and cascade (`memory/delete.py`, `memory/provenance.py`) | row, graph | `delete_memory`, `_cascade_or_fallback_expire` | Qdrant, Neo4j, one Cypher statement per call |
| Dedup (`memory/delete.py`) | rows, `times_derived` | `dedup_memories` from a cron and from the conversation compiler | Qdrant |
| Task manager (`task_manager.py`) | ARQ jobs and kept results in Redis, task lists per user | enqueue with hashed job ids, status, cancel | Redis |
| Dreaming (`extensions/dreaming`) | last dream, its ids and the lock of each pool in Redis; tombstones and rewrites of rows | a sweep: enumerate, gates, lock, hydrate, stage, decide, apply, record | Redis, Qdrant, LLM |
| Connectors (`connectors/`) | encrypted records in Redis with generations and sync progress | put, delete, `update_sync_state`; the sync job and its cron | Redis compare-and-set, ingest queue, the source's pages |
| Plugin (`neuralscape-plugin/src`) | cursor, lock file and recovery mutex per transcript | flush of turns by hooks that are processes of their own, compaction, session note | the file system, HTTP |
| Conversation compiler, session summarizer, strategy synthesizer | daily logs, notes | LLM jobs | vault files, write path |
| OAuth and identity | codes, tokens, users | authorize, exchange, refresh | Redis, Supabase |
| Search, ranking, context assembly | none | scoring and fusion | Qdrant, Neo4j |
| Ingest, OKF, code index, contracts | files, schemas | parse, validate, look up | write path |

`PROJECT.json` lists each with its status.

**What is hard.** No row and no episode is ever locked. Every call to Qdrant,
Neo4j or Redis is a network round trip made from a thread of its own
(`asyncio.to_thread`), so requests, jobs and crons interleave between any two
calls. The graph is brought up to date from queued *arguments*, minutes after
the row changed. Jobs are retried, coalesced by id, and killed with their
worker. Edits read a row, compute, and write back. Dedup acts on a paginated
snapshot. The section "hazards" of `PROJECT.json` lists these at their lines.

**What correctness means**, per component:

- write, edit, delete and graph: what reaches a graph group is what a request put
  into that tier; no memory's enrichment vanishes unreported, but for a process killed
  between its commit and the enqueue; a cascade takes only what belongs to the
  memory or has its very text; after a flip or a delete nothing of it stays
  shared (documented, and violated);
- rows: concurrent stores, dedup passes and edits never lose the last row of a
  text; duplicates end up as one row; counters do not grow beyond what happened;
- queue: a job id that coalesces drops nothing that still has to run;
- plugin: one hook delivers a transcript at a time, no turn is skipped, none is
  delivered twice, the cursor only moves forward (documented, and violated), and an
  abandoned lock is recovered;
- dreaming: one sweep per pool at a time, no crash wedges a pool, what a merge
  consolidates stays recallable wherever the merge ends, and what is recorded as
  dreamt was examined (violated by the cap and for rows stored meanwhile; what is
  left of it holds);
- connectors: the vault is an atomic register although its calls read and write in
  separate round trips; progress on record is what was ingested for the owner on
  record, never goes back, and ends in a first pass over the source.

## 2. Modules

```
MemoryGraph  <- MCMemoryGraph   (TLC)      MemoryStore  <- MCMemoryStore   (TLC)
             <- MemoryGraph_proofs (TLAPS)              <- MemoryStore_proofs (TLAPS)
                                                           <- MemoryStoreCount_proofs (TLAPS)

TranscriptLock  <- TranscriptFlush  <- MCTranscriptFlush (TLC)
                <- TranscriptLock_proofs  <- TranscriptFlush_proofs (TLAPS, with TranscriptFlush)

ConnectorRegister  <= ConnectorVault  <- ConnectorSync  <- MCConnectorSync (TLC)
                   <- ConnectorVault_proofs  <- ConnectorSync_proofs (TLAPS, with ConnectorSync)

DreamSweep  <- MCDreamSweep (TLC)
            <- DreamSweep_proofs (TLAPS)
```

`<-` is EXTENDS, `<=` is a refinement: `ConnectorVault` instantiates the register
with `record <- key`.

### MemoryGraph: rows, graph jobs and the cascade

State: `rows` (content, tier, episode ref), `episodes`, `facts` (live edges),
`queue` (graph jobs), `kept` (job ids ARQ still knows), and `ctx`, the local
state of every request and worker slot, that is the values a thread holds between two
calls. History, each a set of (memory, text, tier): `granted`, what an accepted request
meant to commit; `settled`, what was tried on the graph or given up with a report;
`killed`, what was still to be handed on when its process died; `owed`, what a commit
owes the graph and was neither tried nor given up since.

| Actions | Code |
|---|---|
| `Store`, `EnqueueStored`, `EnqueueStoredFails` | `store_raw` with the sensitivity gate; `process_memory_raw` hands the row to the graph queue, or enriches inline if Redis is out of reach |
| `PatchRead`, `PatchMetadata`, `PatchUpdate`, `PatchUpsert`, `PatchEnqueue`, `PatchEnqueueFails` | `patch_memory`, mem0's `_update_memory`, the route's enqueue |
| `DeleteRead`, `DeleteRow` | `delete_memory`, and the bulk paths that delete from an earlier scroll |
| `Lookup`, `ExpireEdges`, `DeleteNode` | `_cascade_expire_episode`, a step per call: the lookups by uuid, by content and by name, each of which passes for one that found nothing when it fails; then the edges, and the node, whatever became of the edges |
| `FallbackSearch`, `FallbackSave` | `_expire_graph_edges_for_memory`, if no lookup found an episode |
| `EnrichStart`, `EnrichAdd`, `AddUnanswered`, `EnrichFails`, `EnrichStamp` | `process_graph_enrichment`, `enrich_graph` with its retries, an add that failed although the episode was written, `_persist_graph_episode_ref` |
| `RequestKilled`, `WorkerKilled`, `ResultExpires` | the processes, and ARQ's retry and `keep_result` |

Abstractions. Content is a model value and a fact is its content in a group:
the LLM's paraphrase is left out, since the cascade no longer depends on it, and so is
which episode an edge is of when two assert the same text. The
fallback search by substring may or may not find the edge. One user, no project
and the default workspace, so the tier alone selects the group. The name of an episode is
minted and stamped together with its uuid, so the lookup by name asks for the same
episode. Entity nodes and summaries follow their episode and have no state of their
own; clearing them is part of `DeleteNode`. `AddUnanswered` keeps the slot where it is, so
that a retry or `EnrichFails` follows it.

### MemoryStore: the rows of one partition

State: `rows` (text, `created_at`, `times_derived`, `dream_tombstoned`), the
clock, `ctx` with every call's local state, and history: the newest row stored of each text
(`newest`), how often each was stored (`observed`), and the texts of which a row was
`deleted` on request or `rewritten` by an upsert, which promises cannot cover.

| Actions | Code |
|---|---|
| `StoreBegin`, `LookupHit`, `LookupMiss`, `Insert` | `_prepare_raw_store`, `_find_by_content_hash`, `_finalize_raw_store` |
| `BumpRead`, `BumpWrite`, `ReviveRead`, `ReviveWrite` | `_bump_times_derived`, `_revive_if_tombstoned`: each one read and one merge |
| `DedupBegin`, `DedupScroll`, `DedupScrolled`, `DedupDelete`, `DedupEnd` | `dedup_memories`, exact phase, on a snapshot read row by row |
| `PatchRead`, `PatchMetadata`, `PatchUpdate`, `RewriteRead`, `Upsert` | `patch_memory`, `_update_memory`, the dream's `_rewrite_content` |
| `Tombstone`, `Delete` | the dream's `_tombstone`; `delete_memory`, secret purge, expiry |

Abstractions. The hash of a row follows its text in every path, so the text
stands for both. A partition is what `_dedup_partition` groups by; rows of
different partitions never meet. The worker's semantic probe before a store
writes nothing and is not a step. A dedup pass may take its groups in any order;
within a group it follows the code's. The semantic phase of dedup is left out:
the deployment that dreams skips it.

### TranscriptLock and TranscriptFlush: hooks that share a transcript

`TranscriptLock` is the lock protocol alone, for any body. State: the two
files (`lock`, `mutex`), each the set of records in it; `gone`, the processes that no
longer run; `old` and `oldMutex`, whose record has passed its age bound; `ctx`,
where each hook is and which record it is judging. Every file system call is a
step, and a hook may exit before any of them. `disturbed` is history: a sweep took a
mutex other than the one it had judged.

| Actions | Code (`transcript-lock.ts`) |
|---|---|
| `Link`, `ReadHolder`, `Judge`, `Poll`, `GiveUp` | the loop of `withTranscriptLock`, `linkInto`, `readOwner`, `ownerGone` |
| `Contend`, `Verify`, `Rename`, `CheckMutex`, `DropMutex` | `recoverAbandoned` |
| `ReadMutex`, `Suspect`, `Sweep` | `clearAbandonedMutex` |
| `Leave`, `Unlink` | the `finally` of `withTranscriptLock` |
| `Exit`, `GrowOld`, `MutexGrowsOld` | a process ends; time passes |

`TranscriptFlush` adds what hooks do while they hold the lock: `written` and
`cursor` (a turn is its number), `sent`, and `flush`, the state of each body.

| Actions | Code |
|---|---|
| `ReadOffset`, `ReadTranscript` | `readFlushOffset`, `extractClaudeCodeTurns`, `parseTranscript` (`claude-code.ts`) |
| `Ask`, `Post`, `PostFails` | `flushTurns` (`flush.ts`): noise, `held()`, the POST |
| `Commit`, `Compare`, `Write` | `commitClaudeCodeFlush`, `writeFlushOffset` |
| `Speak`, `Killed` | the conversation goes on; a hook is killed |

Abstractions. A process is judged dead only when it is (no pid reuse, no second pid
namespace), which is the assumption under which the code's comments promise
exclusion. A hook runs once. Turns are complete: the one still being written is
not counted until it is finished. An event that carries its own prompt, the
fallback when the transcript yields no turn, is left out.

### ConnectorRegister, ConnectorVault and ConnectorSync: a connector and its syncs

`ConnectorRegister` is what the vault promises for one connector: a record that
changes in single steps (`Renew`, `Adopt`, `Create`, `Remove`, `Save`), each computed from
the record it replaces. `ConnectorVault` is how `vault.py` does it: `key`, what
Redis holds; `minted`, the generations given out; `calls`, the vault call each
request or job is in, with what it has read.

| Actions | Code (`connectors/vault.py`) |
|---|---|
| `Begin`, `Read` (with `PutRefused`, `DeleteRefused`, `UpdateRefused`) | `put`, `delete` of a generation, `update_sync_state`: the read, and what it decides |
| `Write`, `WriteLost` | `_compare_and_set`, the compare-and-delete, the rounds of the loop |
| `Drop` | the process of the call is gone |

`ConnectorSync` composes the vault with its users: `source` (revisions of the resources),
`queue` and `kept` (ARQ), `local` (what a route or a worker knows between two calls),
and `ingested` and `missed`, history.

| Actions | Code |
|---|---|
| `RegisterRoute`, `RemoveRoute`, `SyncRequested`, `CronSync`, `Enqueue` | the routes of `main.py`, `connector_sync_cron`, `enqueue_connector_sync` |
| `Take`, `Skip`, `Start`, `List`, `Fetch`, `FetchFails`, `JobFails`, `Save`, `SaveStep` | `process_connector_sync` (`worker.py`), the adapters' `list_resources` |
| `WorkerKilled`, `ResultExpires`, `Edit` | ARQ, and whoever edits the source |

Abstractions. Credentials and settings are one value; encryption and `last_synced_at`
are left out (two records the code tells apart by them cost one more round of the loop).
A generation is a UUID in the code and the next number here. The source is paged and the token of a page is the cursor, as in
the Notion and Drive adapters; every resource has a revision; resources of a page are
fetched in any order.

### DreamSweep: sweeps over a pool

State: `rows` (what each holds, tombstone, when it changed), Redis (`dreams`,
the stamp of the last dream as a number; `due`; `marker`, the ids of the last batch;
`lock`), and `ctx`, what each sweep knows between two steps. `overran` and `fate` are
history: whose lock expired under it, and what has become of each fact.

| Actions | Code (`extensions/dreaming`) |
|---|---|
| `Begin`, `PassGates` (`Acquire`, `AcquireUngated`) | `enumerate_pools`; the time gate, the volume pre-gate and `acquire_lock` in `_dream_pool` |
| `Stage`, `Examine`, `ExamineFails` | `hydrate_pool`, `stage_pool`, the volume gate, the idempotent skip; `decide` and `DreamLLMFailure` |
| `PlanMerge`, `PlanDrop`, `PlanDone` | the loop of `apply_actions` |
| `RewriteRead`, `Upsert`, `Tombstone`, `Purge`, `ActionFails` | `_rewrite_content`, `_tombstone`, the delete of a secret, the `except` of an action |
| `SetMarker`, `Stamp`, `RecordFails`, `Release`, `ReleaseFails`, `Raises` | the end of `_dream_pool`, `record_completion`, `release_lock` |
| `Cancelled`, `Killed`, `LockExpires`, `LockOutlived`, `TimePasses` | ARQ's timeout and deaths, the PX of the lock, the clock |
| `Store`, `Edit`, `Delete` | requests, each one step (`MemoryStore` has their insides) |

Abstractions. One pool, of memories that users wrote: insights of the dream itself, the
REM, librarian, card and bridge passes, liveness reframes, dry runs, events and the graph's
side of an action are left out. The settling guard only defers and is left out. Time is
the number of stamps, so that "changed since the last dream" is a comparison of
numbers. `min_hours` (24 by default) exceeds the life of a sweep's job (an hour), so
`TimePasses` waits for sweeps to end. No await lies between the time gate and the
lock, and one graph worker runs sweeps, so `PassGates` is one step. Which old
rows are weak enough to be staged is any choice. The LLM is
what its prompt asks for: an action per memory at most, and a merged text that keeps every
fact; anything else about its answer is free. A fact is new: a store that hits an existing text is
`MemoryStore`'s.

## 3. Runs

| Run | Asks | Result |
|---|---|---|
| `graph` | `EpisodeProvenance`, `EnrichmentAccountedFor`, `DebtsCarried`, `CascadeStaysWithin` under failing calls and one killed process or unanswered add | holds |
| `graph_flip` | nothing of a flipped or deleted memory stays shared (`provenance.py:3-5`) | **violated** |
| `graph_reingest` | a migrated memory is re-ingested (`task_manager.py:514-517`) | **violated** |
| `store` | `NoFactLost` and `RecallLostOnlyToTombstone` with failing calls, edits, deletes, tombstones, two passes | holds |
| `store_count` | `NeverOverCounted`, with an edit of metadata; `DuplicatesCollapse` | holds |
| `store_lossless` | the exact phase loses nothing recallable (`delete.py:624`) | **violated** |
| `store_patch` | a key absent from a patch is untouched (`edit.py:80`) | **violated** |
| `flush` | `OneDeliverer`, `NoTurnSkipped`, `NeverTwice`, and under fairness `AbandonedLockRecovered` | holds |
| `flush_race` | the cursor only moves forward (`transcript-lock.ts:37-38`, `CHANGELOG.md:16` of the plugin) | **violated** |
| `connectors` | `RegisterSpec` (the vault implements the register), `SavedIsIngested`, `ProgressForward`, and under fairness `FirstPassCompletes` | holds |
| `dream` | `OneSweep`, `NothingForgotten`, `NoneStampedUnseen`, `MarkerWasExamined`, and under fairness `EventuallyConsidered` | holds |
| `dream_cap` | `NewAreExamined`: a row is new until an LLM has examined it (`consolidate.py:295`, `:336`) | **violated** |

The six violations, as shortest behaviours:

- **graph_flip.** Store shared; the job checks that the row exists; the row is
  deleted and its cascade finds no episode; the job adds the episode, shared and
  for good. The same with a flip to private.
- **graph_reingest.** Flip to shared, to private, and to shared again while ARQ
  keeps the first flip's result: the third flip expires the private episode and
  its job is coalesced with the first one's. The memory is in no group.
- **store_lossless.** Two rows of a text, the newer one tombstoned: the pass keeps
  the newer and deletes the one recall would return. `RecallLostOnlyToTombstone`
  says that this is the only way.
- **store_patch.** An edit of tags reads the row, the dream tombstones it, the
  edit writes its copy of the metadata: the tombstone is gone.
- **flush_race.** A dead hook has left its lock and its mutex. Two recoverers judge
  the mutex abandoned; the first sweeps it, links its own and verifies the lock; the
  second sweeps that one, links its own and verifies the same lock. The first
  removes the lock and takes it; the second renames this live lock away and
  gives up, and a third hook takes the free path. Two hooks now deliver. The
  first is past `held()` and its comparison when the third commits, and writes
  the older cursor over the newer one. No live process was taken for dead, which
  is what `transcript-lock.ts:34-35` says this takes.
- **dream_cap.** Two memories and a cap of one: the sweep stages both, keeps the newer,
  has it examined, and its stamp makes both old. From then on only weak retention
  lets a sweep stage the other. A row stored while the sweep runs fares the
  same. `NoneStampedUnseen` is what is left: these two are the only ways.

**Bounds.** `graph`: two memories, two texts (one sensitive), two request slots,
one graph worker, three requests, one mishap. Two slots with three requests give
every pair of overlapping operations on one memory after it exists, and the
second memory is what a cascade could hit wrongly. One mishap is a kill or an add left
unanswered; more are left to the theorems. The two violations of `MemoryGraph` need one memory, one
text and up to four requests. `store`: two writers race on two texts while two passes and an edit
overlap. Two rows and two times make both a tie and a strict order, which is
where two passes could choose different survivors; three rows of one text, with a
row inserted behind a scroll, are left to the theorem `NothingLost`. `store_count`: three stores of one text and one edit, at one
time; two texts with an editor were checked once (3.1 million states), and failing calls are
left to the theorem `NothingInvented`. `flush`: two live
hooks, one that is gone and may have left the lock, the mutex or both, two turns one of
which is noise; the turns are few, since what is hard is who delivers them. Two reads of the
cursor may fail, which is what it takes to write the cursor back under the lock.
`flush_race` needs a third live hook, and no failed read. `connectors`: one request at a time, two workers, two
owners, a source of two pages, two rounds of the compare-and-set loop, and any two of
registration, removal, edit of the source, failure and killed worker; a record from before generations and a job
queued under its old id may be there. Two overlapping syncs of one record, one of them from before the
other's progress, and a replaced record under a running sync both fit, which is what the
guards of `update_sync_state` are for; more calls at once, and more rounds, are left to the
theorems. `dream`: two sweeps, one memory at the start, a cap of two, and any two of store,
edit, delete, forced sweep, failed call, cancellation, death and outlived lock. A merge needs two rows and hence one
of the two; the other one breaks it anywhere. The cap bites only with three rows,
so with two stores; `dream_cap` needs nothing from outside. The same safety properties were checked once with two memories at
the start (5.2 million states), which allows a merge that is disturbed twice. Deadlock is not checked where the
bounds let the system stop.

**Symmetry** is used in safety runs only: ids and request slots of `MemoryGraph`,
slots and texts of `MemoryStore`; `connectors` and `dream` check liveness and use none. Row ids of `MemoryStore` are ordered by the
scroll and are not symmetric. `flush_race` permutes the hooks that are alive.

**Fairness.** Weak fairness of each request's and each worker's own steps: threads
are scheduled and the worker polls its queue. A dedup pass begins again and again,
as its cron does. No fairness makes a request arrive, a call fail or a
process die, and none chooses a retry's outcome. In `flush`, a hook that runs goes on,
since a POST is answered or times out, and records age; nothing makes a waiter give up. In
`connectors`, requests and workers go on, the cron comes round, and some kept result expires in the
end; the cron is what makes a lost or coalesced sync come again. In `dream`, the cron begins a sweep
of each slot when it can, a sweep goes on, the lock's hour ends, and time passes. `store_count`
runs with working calls: with calls that may fail for ever the code gives up. `graph`
states no liveness. What it would add follows by hand from `DebtsCarried`: a debt sits
in a request, a waiting job or a run, each of these ends after a bounded number of its own
steps (a job that is killed waits again), and where it ends the debt is tried, reported or
killed.

## 4. Proofs

The theorems hold for every value of the constants allowed by
`MemoryGraphAssumption`, `MemoryStoreAssumption` (slots are disjoint, ids of rows are
naturals, bounds are naturals), `TranscriptLockAssumption` and
`TranscriptFlushAssumption` (`Left` are hooks, the bounds are naturals),
`VaultAssumption` and `SyncAssumption` (callers are routes or workers, and not both; there are pages and
rounds), and `DreamAssumption` (`MinNew` and `Cap` are positive).

- `MemoryGraph_proofs!TypeCorrect`, `MemoryStore_proofs!TypeCorrect`: the type
  invariants.
- `MemoryGraph_proofs!ProvenanceCorrect`: `Spec => []EpisodeProvenance`. An episode is
  made from a job, and a job from a request that has committed, so the invariant has to follow the
  value: every queued or running job was granted (`JobsGranted`), and so was the target of
  every request past its commit (`SlotsGranted`).
- `MemoryGraph_proofs!NoSilentLoss`: `Spec => []EnrichmentAccountedFor`. The text and the
  tier of a live row were each tried, reported, are under way, or were `killed`. Two kinds of edit
  enqueue nothing. One changes neither text nor partition: it is covered because the
  snapshot it read was (`SnapshotsCovered`, as nothing leaves `AccountedFor`: `Monotone`).
  The other meets a job id that ARQ still knows: `KeptUnderway` says that such a job was
  tried, waits or runs, which is more than being the target of some request, since
  the request that coalesces is about to stop being one.
- `MemoryGraph_proofs!DebtsAreCarried`: `Spec => []DebtsCarried`. Here text and tier go together
  and an earlier attempt does not count. A step lets go of at most what its own slot
  carries and the job it takes, and each is handed to the queue or a run, settled or killed
  (`StepCarried`); that a request carries its target at every stage between commit and
  enqueue needs to know which stages an operation can be in (`OpsFit`).
- `MemoryGraph_proofs!CascadeIsContained`: `Spec => CascadeStaysWithin`. A uuid on a live row, in a
  request's snapshot or in a run about to stamp is older than the next one to be minted and names
  no episode of another memory (`RowsNamed`, `SlotsNamed`); what a lookup has found is of the
  snapshot's group, and its memory's or of its text, and remains so until the node is removed, since
  uuids are minted once (`UuidsMinted`) and episodes do not change (`Grows`). A lookup by uuid that
  fails leads to the one by content, and that is where another memory's episode of the same
  text can be hit: the property allows for it, as the code does.
- `MemoryStore_proofs!NothingLost`: `Spec => []NoFactLost`. The argument is that no
  pass ever deletes the newest row of a text: a pass deletes a row only if it saw a
  newer one, and the newest row ever inserted has none. The invariant says that
  the newest row lives, at its time and with its text (`NewestLives`), that nothing
  in the store or in a pass's snapshot is newer (`RowsKnown`,
  `SnapshotsOK`), and that ids are minted once (`RowsMinted`, `EditsMinted`), so that an
  edit cannot write to a row not yet inserted. `DupNotNewest` is the lemma that
  rests on it. It needs the order of `Newer` to be strict, which is what its mutant breaks.
- `MemoryStore_proofs!LossesAreTombstoned`: `Spec => RecallLostOnlyToTombstone`. It follows from the
  same invariant: the newest row outlives the step, so if it can be recalled the text can.
- `MemoryStoreCount_proofs!NothingInvented`: `OnePass => (Spec => []NeverOverCounted)`. `OnePass`
  says that rows and calls are finitely many (the sum is over a finite set) and that one pass
  runs at a time, since passes that overlap count a dropped row twice. The sum is not
  inductive: what a call is about to write, and the counters of deleted rows that a pass
  carries, count as well. So every store is credited to an *account*, of a row or of a call,
  and the invariant (`Audited`) says that accounts exist which add up to no more than the
  stores and back every counter and every claim: of a bump what it adds and what it
  read, of an edit what it read, of a pass its snapshot and its sum. A hit credits its
  call, an insert its row, a bump moves the credit of its call to the row, a deleted row hands its
  credit to the pass. Rows may be credited with more than their counter, since bumps that
  overtake each other lose ticks. The prover cannot instantiate an induction over the set a sum
  ranges over; a sum is therefore the cardinality of a set of cells (`Total`), for which the
  library's theorems about finite sets give what is needed, and that `MapThenSumSet`
  computes it is shown by its smallest counterexample (`FoldIsTotal`).
- `TranscriptLock_proofs!DeliverersExclude`: `LockSpec => []OneDeliverer`. Exclusion of
  deliverers rests on exclusion of recoverers, and that on death being final. The
  invariant `LockInv` says that until a sweep takes a wrong mutex, a hook past its
  link is the one in the lock file, a recoverer past its own the one in the mutex,
  and a lock that is about to be moved is still the one judged (`Holds`); that
  whoever goes on to recover has seen a process that is gone (`JudgedGone`); and that the gone do
  nothing (`GoneIsDone`). `FilesKept` is the lemma that no step of one hook takes
  what another holds. The hypothesis `~disturbed` marks the one step that does, the
  sweep of `flush_race`.
- `TranscriptFlush_proofs!FlushRunsUnderLock`: `Spec => LockSpec`. The flush
  implements the lock's specification, so that `LockInv` holds of it too.
- `TranscriptFlush_proofs!CursorIsCovered`: `Spec => []NoTurnSkipped`, with no
  hypothesis about the lock: what a body has passed was received or is noise
  (`Delivered`), which writes by hooks that lost their lock do not change.
- `TranscriptFlush_proofs!PostedOnce`: `Spec => NeverTwice`. Only a hook in its body
  works (`OwnsBody`), and while the lock excludes nobody else moves the cursor past
  the offset it read, if it could read it (`Ahead`).
- `TranscriptFlush_proofs!FlushTypeCorrect`: the types.
- `ConnectorVault_proofs!VaultIsRegister`: `VaultSpec => Register!Spec`, for any number of
  concurrent calls and rounds. Reads, lost writes and drops stutter; a write is a step of
  the register because the key is what its call read, so that what it decided then still
  holds. The invariant is the types, with every write's decision justified by the record
  it has seen.
- `ConnectorSync_proofs!SyncsUseVault`: `Spec => VaultSpec`, whence
  `SyncsSeeRegister`: `Spec => RegisterSpec`.
- `ConnectorSync_proofs!SavedWasIngested` and `ProgressNeverBack`. `SyncInv` follows a sync
  from the record it took: revisions on record, in a sync and in its vault call were ingested for the
  record's owner (`Backed`) and do not exceed the source's (`Within`); a job's generation is the
  connector's only if the job's owner is (`Entitled`); and an update under way extends the
  progress it compares with (`SoundCall`), so that what the comparison lets through is ahead.
- `DreamSweep_proofs`: `OneSweepAtATime`, `NothingIsForgotten`, `StampsSpeakForSeen`
  (the weaker remainder of what `dream_cap` violates), `MarkersExamined`, `DreamTypeCorrect`, from one invariant, `IInv`. A row holds the fact it was
  stored with unless that is lost (`RowsOwn`), which ties the marker's ids to facts; a sweep in its body
  has the lock until it expires (`LockHeld`); and each sweep is `Sound`: the facts its stamp
  will speak for are examined or were old (`SpeaksForSeen`), its batch is examined once
  it acts (`BatchExamined`), and while tombstones are being set the survivor, as the sweep left it,
  holds all that the remaining rows do (`ActsOnBatch`). `RowStep` is the lemma that a step which
  changes one row keeps what the pool guarantees, if what that row made recallable is
  in another or lost; every write of a request or of a sweep is an instance of it.

Model-checked only: the liveness properties (the prover has no rule for fairness here) and
every violation. Every safety property of a passing run has its theorem.

## 5. Not modelled, and why

Semantic dedup and ranking (floating-point similarity), extraction and merge
decisions (an LLM's), permissions and consent, parsing and formatting, telemetry,
and everything under *not_modelled* in `PROJECT.json`.

**Known limits of the code** that the models show and no property forbids, since no
text of the repository rules them out or an LLM's judgement is involved; each is a hazard of `PROJECT.json` with its line:

- two edits that overlap can leave a row with the text of one and the tier of the other, a pair
  that no request asked for and no job carries (`edit.py:186`); `EnrichmentAccountedFor` speaks
  of text and tier separately for this reason;
- a cascade whose lookup by uuid fails, or that has no uuid, removes the newest episode with the
  same text in the group, be it another memory's (`provenance.py:117`);
- a connector's stored cursor stays at the last page's token, so later syncs list that page only
  and edits on the pages before it are not seen (`worker.py:1356`);
- a resource whose fetch fails is not tried again (`worker.py:1326`), and a blank one is passed
  over without a word (`worker.py:1329`);
- a pool whose staged ids have not changed is skipped although a row was edited, and a
  stamp that fails after its marker can make later sweeps skip a pool beyond the cap
  (`sweep.py:481`; `Skipped`);
- a merge may choose a survivor that was tombstoned since the enumeration
  (`consolidate.py:244`), and overwrites what an edit wrote during the LLM call.

**Limits that a text does rule out**, beside the six violations, and that no run states:

- a process killed between the insert of a row and the enqueue of its job leaves the row without
  an enrichment, and nothing reports it (`worker.py:264`). The comment at `worker.py:281-284`
  says *not silently lost* of a failed enqueue, which holds; the kill is `killed` in the
  model, and the one exception of `EnrichmentAccountedFor`;
- the dedup cron does not take the dream's lock, although `gate.py:6-8` says that a sweep
  racing it is impossible: the two are in different modules so far;
- an offset file that cannot be read passes for one that says 0 (`claude-code.ts:58-60`), so
  delivered turns are posted again, and with a second failed read the cursor goes back, although
  the comment at lines 50-51 says neither can happen: `NeverTwice` excepts the hook that could not
  read.

## 6. Plan

1. *Done*: `MemoryGraph`, `MemoryStore`, their runs and theorems.
2. *Done*: `TranscriptLock` and `TranscriptFlush`, their runs, exclusion, the cursor and
   the single post proved, with reads of the cursor that fail. Left: turns that are still being written, which a session
   end delivers as they are.
3. *Done*: `ConnectorRegister`, `ConnectorVault`, `ConnectorSync`, with the refinements proved.
4. *Done*: `DreamSweep`. Left: its composition with `MemoryStore`'s rows and the dedup cron, with
   the claim of `gate.py:6-8` as its property; the feedback guard on insights, the graph's side of an action.
5. `TaskQueue`: ARQ's job life cycle with ids, results and retries as an abstract
   specification that `MemoryGraph`'s `queue` and `kept`, and those of `ConnectorSync`, refine.
6. The composition of dedup with the graph: the cascade by content of an unstamped
   duplicate; the workspace in group ids.
7. *Done*: the safety properties of `MemoryGraph` and `MemoryStore`, all proved. Left: what
   overlapping passes may count at most.
8. Session summarizer, OAuth codes, conversation compiler, fusion and budget
   operators, the lifecycle tables of the contracts.

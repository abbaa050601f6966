----------------------------- MODULE MemoryGraph -----------------------------
(***************************************************************************)
(* A memory lives twice: as a row of the vector store (Qdrant) and as an    *)
(* episode of the knowledge graph (Graphiti on Neo4j).  The row is written  *)
(* on the request path; the episode is added minutes later by a job on the  *)
(* graph queue (ARQ on Redis).  An edit or a delete of the row has to find  *)
(* that episode again and expire what it contributed.                       *)
(*                                                                         *)
(* This module models the requests that write a row (store_raw with its     *)
(* deferred enrichment, patch_memory, delete_memory), the queue with ARQ's  *)
(* job-id coalescing, the graph workers that run process_graph_enrichment   *)
(* and the provenance cascade.  Requests and workers interleave at every    *)
(* call to Qdrant, Neo4j or Redis, because each call is a network round     *)
(* trip from a thread of its own.                                           *)
(*                                                                         *)
(* One owner, no project, the default workspace: visibility alone selects   *)
(* the graph group.  Deduplication, reinforcement and tombstones of rows    *)
(* are the subject of MemoryStore.                                          *)
(***************************************************************************)
EXTENDS Naturals, FiniteSets

CONSTANTS
  Ids,          \* memory ids (uuid4 of the row)
  Contents,     \* texts a memory can hold
  Sensitive,    \* the texts the sensitivity gate classifies as private
  Reqs,         \* request slots: API or worker threads writing rows
  Workers,      \* slots of the graph worker (max_jobs)
  GraphMayFail, \* may calls to Neo4j, Graphiti or Redis fail?
  MaxRequests,  \* bound on the requests of a behaviour
  MaxMishaps    \* bound on the processes killed and the adds left unanswered

ASSUME MemoryGraphAssumption ==
  /\ MaxRequests \in Nat
  /\ MaxMishaps \in Nat
  /\ GraphMayFail \in BOOLEAN
  /\ Sensitive \subseteq Contents
  /\ Reqs \cap Workers = {}

Visibilities == {"private", "shared"}

Groups == {"user", "shared"}

GroupOfAnyVisibility(vis) == vis
\* _build_group_id: the owner's namespace, or the pool every user reads
GroupOf(vis) == IF vis = "shared" THEN "shared" ELSE "user"

Gone == [state |-> "gone"]
Row == [state: {"live"}, data: Contents, vis: Visibilities, ref: Nat]
NoRef == 0

\* The arguments of a process_graph_enrichment job.  "store" jobs have a random
\* ARQ id; an "edit" job's id is a hash of (memory, visibility, content), so two
\* equal edit jobs are one job.
Job == [src: {"store", "edit"}, mem: Ids, data: Contents, vis: Visibilities]

Episode == [uuid: Nat \ {NoRef}, mem: Ids, data: Contents, group: Groups]
Fact == [data: Contents, group: Groups]

VARIABLES
  rows,       \* the vector store: [Ids -> Row or Gone]
  used,       \* ids minted so far
  episodes,   \* Episodic nodes of the graph
  facts,      \* RELATES_TO edges with expired_at null, by what they assert
  nextUuid,   \* the next episode uuid
  queue,      \* graph jobs waiting
  kept,       \* edit jobs whose id ARQ still knows (waiting, running, or result kept)
  ctx,        \* local state of every request and worker slot
  requests,   \* requests started so far
  mishaps,    \* processes killed and adds left unanswered so far
  \* History, of the (memory, content, visibility) that
  granted,    \* ... an accepted request meant to commit
  settled,    \* ... was tried on the graph, or given up with a log line or an answer
  killed,     \* ... was still to be handed on when its process died: reported nowhere
  owed        \* ... a commit owes the graph, and that was not tried or given up since

vars == <<rows, used, episodes, facts, nextUuid, queue, kept, ctx,
          requests, mishaps, granted, settled, killed, owed>>
graphVars == <<episodes, facts, nextUuid>>
history == <<granted, settled, killed, owed>>

Idle == [stage |-> "idle"]
Lookups == {"by uuid", "by content", "by name"}
Cascading == Lookups \cup {"edges", "node", "search", "save"}
\* The snapshot (data, vis, ref) a request read, the target it computed, and the
\* episode its cascade has found
Request == [op: {"store", "patch", "delete"},
            stage: {"created", "patch", "upsert", "delete", "enqueue"} \cup Cascading,
            mem: Ids, data: Contents, vis: Visibilities, ref: Nat,
            newData: Contents, newVis: Visibilities, found: Nat]
\* A run of enrich_graph, in a graph worker or inline in a store job
Enrichment == [stage: {"add", "stamp"}, job: Job, uuid: Nat]

RowStates == [mem: Ids, data: Contents, vis: Visibilities]
RowState(m, data, vis) == [mem |-> m, data |-> data, vis |-> vis]
Target(r) == RowState(ctx[r].mem, ctx[r].newData, ctx[r].newVis)
Args(j) == RowState(j.mem, j.data, j.vis)
Live(m) == rows[m].state = "live"

\* What a slot has committed and still has to hand to the queue or the graph
Carries(p) ==
  IF ctx[p].stage = "add" THEN {Args(ctx[p].job)}
  ELSE IF /\ ctx[p].stage \in {"created", "enqueue"} \cup Cascading
          /\ ctx[p].op # "delete"
       THEN {Target(p)}
  ELSE {}

TypeOK ==
  /\ rows \in [Ids -> Row \cup {Gone}]
  /\ used \subseteq Ids
  /\ episodes \subseteq Episode
  /\ facts \subseteq Fact
  /\ nextUuid \in Nat \ {NoRef}
  /\ queue \subseteq Job
  /\ kept \subseteq Job
  /\ ctx \in [Reqs \cup Workers -> {Idle} \cup Request \cup Enrichment]
  /\ requests \in Nat
  /\ mishaps \in Nat
  /\ granted \subseteq RowStates
  /\ settled \subseteq RowStates
  /\ killed \subseteq RowStates
  /\ owed \subseteq RowStates

Init ==
  /\ rows = [m \in Ids |-> Gone]
  /\ used = {}
  /\ episodes = {}
  /\ facts = {}
  /\ nextUuid = 1
  /\ queue = {}
  /\ kept = {}
  /\ ctx = [p \in Reqs \cup Workers |-> Idle]
  /\ requests = 0
  /\ mishaps = 0
  /\ granted = {}
  /\ settled = {}
  /\ killed = {}
  /\ owed = {}

-----------------------------------------------------------------------------
(* Steps of a slot, and the provenance cascade *)

Step(p, c) == ctx' = [ctx EXCEPT ![p] = c]
Goto(r, stage) == Step(r, [ctx[r] EXCEPT !.stage = stage])

\* _cascade_or_fallback_expire, with the snapshot the request read.  The name is stamped
\* together with the uuid: a row has both or none.
StartCascade(r) == Goto(r, IF ctx[r].ref # NoRef THEN "by uuid" ELSE "by content")
EndCascade(r) == IF ctx[r].op = "delete" THEN Step(r, Idle) ELSE Goto(r, "enqueue")

Newest(S) == {e \in S : \A f \in S : f.uuid <= e.uuid}
HitsInAnyGroup(r) ==
  IF ctx[r].stage = "by content" THEN Newest({e \in episodes : e.data = ctx[r].data})
  ELSE {e \in episodes : e.uuid = ctx[r].ref}
\* _lookup_episode_uuid, in the group of the snapshot: the episode with the uuid on the
\* row, or the one with the name on it, which is the same; or the newest with the very
\* same content
Hits(r) ==
  LET here == {e \in episodes : e.group = GroupOf(ctx[r].vis)} IN
  IF ctx[r].stage = "by content" THEN Newest({e \in here : e.data = ctx[r].data})
  ELSE {e \in here : e.uuid = ctx[r].ref}

\* _cascade_expire_episode asks by uuid, then by content, then by name.  Each lookup
\* fails open: one that breaks passes for one that found nothing.
Lookup(r) ==
  /\ ctx[r].stage \in Lookups
  /\ \/ \E e \in Hits(r) : Step(r, [ctx[r] EXCEPT !.stage = "edges", !.found = e.uuid])
     \/ /\ Hits(r) = {} \/ GraphMayFail
        /\ Goto(r, CASE ctx[r].stage = "by uuid" -> "by content"
                     [] ctx[r].stage = "by content" /\ ctx[r].ref # NoRef -> "by name"
                     [] OTHER -> "search")
  /\ UNCHANGED <<rows, used, graphVars, queue, kept, requests, mishaps, history>>

\* _expire_episode_edges, by way of the node, if it is still there.  A failure is logged
\* and the next call is made all the same.
ExpireEdges(r) ==
  /\ ctx[r].stage = "edges"
  /\ LET expired == {[data |-> e.data, group |-> e.group] :
                       e \in {x \in episodes : x.uuid = ctx[r].found}}
     IN facts' \in {facts \ expired} \cup (IF GraphMayFail THEN {facts} ELSE {})
  /\ Goto(r, "node")
  /\ UNCHANGED <<rows, used, episodes, nextUuid, queue, kept, requests, mishaps, history>>

\* _delete_episode_node
DeleteNode(r) ==
  /\ ctx[r].stage = "node"
  /\ episodes' \in {{e \in episodes : e.uuid # ctx[r].found}}
                     \cup (IF GraphMayFail THEN {episodes} ELSE {})
  /\ EndCascade(r)
  /\ UNCHANGED <<rows, used, facts, nextUuid, queue, kept, requests, mishaps, history>>

\* _expire_graph_edges_for_memory, if no episode was found: the search may surface an
\* edge of the group whose fact contains the text ...
FallbackSearch(r) ==
  /\ ctx[r].stage = "search"
  /\ \/ /\ [data |-> ctx[r].data, group |-> GroupOf(ctx[r].vis)] \in facts
        /\ Goto(r, "save")
     \/ EndCascade(r)
  /\ UNCHANGED <<rows, used, graphVars, queue, kept, requests, mishaps, history>>

\* ... which is then saved as expired, unless the call fails or the text is asserted by
\* another edge by now
FallbackSave(r) ==
  /\ ctx[r].stage = "save"
  /\ facts' \in {facts, facts \ {[data |-> ctx[r].data, group |-> GroupOf(ctx[r].vis)]}}
  /\ EndCascade(r)
  /\ UNCHANGED <<rows, used, episodes, nextUuid, queue, kept, requests, mishaps, history>>

Cascade(r) ==
  Lookup(r) \/ ExpireEdges(r) \/ DeleteNode(r) \/ FallbackSearch(r) \/ FallbackSave(r)

-----------------------------------------------------------------------------
(* Requests *)

Mishap ==
  /\ mishaps < MaxMishaps
  /\ mishaps' = mishaps + 1

Begin(r) ==
  /\ ctx[r] = Idle
  /\ requests < MaxRequests
  /\ requests' = requests + 1

\* The history of an attempt, or of a failure that is reported
Settle(states) ==
  /\ settled' = settled \cup states
  /\ owed' = owed \ states
  /\ UNCHANGED <<granted, killed>>

\* resolve_gated_visibility: sensitive text is forced private unless the caller
\* overrides the gate
GatedVisibility(data, vis, override) ==
  IF data \in Sensitive /\ ~override THEN "private" ELSE vis

\* store_raw of a text with no duplicate: the row is inserted under a fresh id
Store(r, m, data, vis, override) ==
  LET effective == GatedVisibility(data, vis, override) IN
  /\ Begin(r)
  /\ m \notin used
  /\ used' = used \cup {m}
  /\ rows' = [rows EXCEPT ![m] = [state |-> "live", data |-> data, vis |-> effective,
                                  ref |-> NoRef]]
  /\ granted' = granted \cup {RowState(m, data, effective)}
  /\ owed' = owed \cup {RowState(m, data, effective)}
  /\ Step(r, [op |-> "store", stage |-> "created", mem |-> m, data |-> data, vis |-> vis,
              ref |-> NoRef, newData |-> data, newVis |-> effective, found |-> NoRef])
  /\ UNCHANGED <<graphVars, queue, kept, mishaps, settled, killed>>

StoreJobAsRequested(r) == [src |-> "store", mem |-> ctx[r].mem, data |-> ctx[r].newData,
                           vis |-> ctx[r].vis]
\* The job carries the visibility the row landed at (ctx[r].vis is what was asked)
StoreJob(r) == [src |-> "store", mem |-> ctx[r].mem, data |-> ctx[r].newData,
                vis |-> ctx[r].newVis]

\* process_memory_raw: hand the new row to the graph queue
EnqueueStored(r) ==
  /\ ctx[r].stage = "created"
  /\ queue' = queue \cup {StoreJob(r)}
  /\ Step(r, Idle)
  /\ UNCHANGED <<rows, used, graphVars, kept, requests, mishaps, history>>

\* ... and enrich inline, in the same thread, when the queue cannot be reached
EnqueueStoredFails(r) ==
  /\ GraphMayFail
  /\ ctx[r].stage = "created"
  /\ Step(r, [stage |-> "add", job |-> StoreJob(r), uuid |-> NoRef])
  /\ UNCHANGED <<rows, used, graphVars, queue, kept, requests, mishaps, history>>

\* patch_memory reads the row and computes the whole new metadata from it.  The
\* target repeats what the request does not change.
PatchRead(r, m, data, vis) ==
  /\ Begin(r)
  /\ Live(m)
  /\ Step(r, [op |-> "patch", stage |-> "patch", mem |-> m,
              data |-> rows[m].data, vis |-> rows[m].vis, ref |-> rows[m].ref,
              newData |-> data, newVis |-> vis, found |-> NoRef])
  /\ UNCHANGED <<rows, used, graphVars, queue, kept, mishaps, history>>

EditsContent(r) == ctx[r].newData # ctx[r].data
Migrates(r) == GroupOf(ctx[r].newVis) # GroupOf(ctx[r].vis)

AfterCommitOnlyMigrations(r) ==
  IF Migrates(r) THEN StartCascade(r) ELSE Step(r, Idle)
\* A migration cascades and re-ingests, a content edit re-ingests
AfterCommit(r) ==
  IF Migrates(r) THEN StartCascade(r)
  ELSE IF EditsContent(r) THEN Goto(r, "enqueue")
  ELSE Step(r, Idle)

\* The history of a commit: a new text, or a new partition, is owed to the graph
Grant(r) ==
  /\ granted' = granted \cup {Target(r)}
  /\ owed' = IF EditsContent(r) \/ Migrates(r) THEN owed \cup {Target(r)} ELSE owed
  /\ UNCHANGED <<settled, killed>>

\* A metadata-only edit replaces the metadata of the row, and nothing if it is gone
PatchMetadata(r) ==
  /\ ctx[r].stage = "patch" /\ ~EditsContent(r)
  /\ LET m == ctx[r].mem IN
       rows' = IF Live(m)
               THEN [rows EXCEPT ![m] = [@ EXCEPT !.vis = ctx[r].newVis, !.ref = ctx[r].ref]]
               ELSE rows
  /\ Grant(r)
  /\ AfterCommit(r)
  /\ UNCHANGED <<used, graphVars, queue, kept, requests, mishaps>>

\* A content edit goes through Memory.update, which checks that the row exists ...
PatchUpdate(r) ==
  /\ ctx[r].stage = "patch" /\ EditsContent(r)
  /\ IF Live(ctx[r].mem) THEN Goto(r, "upsert") ELSE Step(r, Idle)
  /\ UNCHANGED <<rows, used, graphVars, queue, kept, requests, mishaps, history>>

\* ... embeds the text, and upserts the whole point
PatchUpsert(r) ==
  /\ ctx[r].stage = "upsert"
  /\ rows' = [rows EXCEPT ![ctx[r].mem] = [state |-> "live", data |-> ctx[r].newData,
                                           vis |-> ctx[r].newVis, ref |-> ctx[r].ref]]
  /\ Grant(r)
  /\ AfterCommit(r)
  /\ UNCHANGED <<used, graphVars, queue, kept, requests, mishaps>>

EditJob(r) == [src |-> "edit", mem |-> ctx[r].mem, data |-> ctx[r].newData,
               vis |-> ctx[r].newVis]

\* enqueue_graph_enrichment: ARQ ignores a job whose id it still knows.  If that job is
\* no longer waiting, the edit is given up for what it did or is doing.
PatchEnqueue(r) ==
  /\ ctx[r].stage = "enqueue"
  /\ IF EditJob(r) \in kept
     THEN /\ UNCHANGED <<queue, kept>>
          /\ owed' = IF EditJob(r) \in queue THEN owed ELSE owed \ {Target(r)}
     ELSE /\ queue' = queue \cup {EditJob(r)}
          /\ kept' = kept \cup {EditJob(r)}
          /\ UNCHANGED owed
  /\ Step(r, Idle)
  /\ UNCHANGED <<rows, used, graphVars, requests, mishaps, granted, settled, killed>>

\* The route answers graph = "enqueue_failed"
PatchEnqueueFails(r) ==
  /\ GraphMayFail
  /\ ctx[r].stage = "enqueue"
  /\ Settle({Target(r)})
  /\ Step(r, Idle)
  /\ UNCHANGED <<rows, used, graphVars, queue, kept, requests, mishaps>>

\* delete_memory (and every bulk path that deletes from an earlier scroll): read
\* the row, delete it, cascade with what was read
DeleteRead(r, m) ==
  /\ Begin(r)
  /\ Live(m)
  /\ Step(r, [op |-> "delete", stage |-> "delete", mem |-> m,
              data |-> rows[m].data, vis |-> rows[m].vis, ref |-> rows[m].ref,
              newData |-> rows[m].data, newVis |-> rows[m].vis, found |-> NoRef])
  /\ UNCHANGED <<rows, used, graphVars, queue, kept, mishaps, history>>

DeleteRow(r) ==
  /\ ctx[r].stage = "delete"
  /\ IF Live(ctx[r].mem)
     THEN /\ rows' = [rows EXCEPT ![ctx[r].mem] = Gone]
          /\ StartCascade(r)
     ELSE /\ UNCHANGED rows
          /\ Step(r, Idle)
  /\ UNCHANGED <<used, graphVars, queue, kept, requests, mishaps, history>>

\* The process dies with the request.  A store job is retried by ARQ, but the retry
\* finds the row, answers created = FALSE and enqueues nothing; nothing says so.
RequestKilled(r) ==
  /\ ctx[r] # Idle
  /\ Mishap
  /\ killed' = killed \cup Carries(r)
  /\ owed' = owed \ Carries(r)
  /\ Step(r, Idle)
  /\ UNCHANGED <<rows, used, graphVars, queue, kept, requests, granted, settled>>

-----------------------------------------------------------------------------
(* Graph workers *)

EnrichStartUnlessStamped(w, j) ==
  /\ ctx[w] = Idle
  /\ j \in queue
  /\ queue' = queue \ {j}
  /\ IF Live(j.mem)
     THEN /\ IF rows[j.mem].ref = NoRef
             THEN Step(w, [stage |-> "add", job |-> j, uuid |-> NoRef])
             ELSE UNCHANGED ctx
          /\ UNCHANGED history
     ELSE /\ Settle({Args(j)})
          /\ UNCHANGED ctx
  /\ UNCHANGED <<rows, used, graphVars, kept, requests, mishaps>>
\* process_graph_enrichment: skip a memory that left the store while the job waited, and
\* say so
EnrichStart(w, j) ==
  /\ ctx[w] = Idle
  /\ j \in queue
  /\ queue' = queue \ {j}
  /\ IF Live(j.mem)
     THEN /\ Step(w, [stage |-> "add", job |-> j, uuid |-> NoRef])
          /\ UNCHANGED history
     ELSE /\ Settle({Args(j)})
          /\ UNCHANGED ctx
  /\ UNCHANGED <<rows, used, graphVars, kept, requests, mishaps>>

\* What an add writes, in the group of the job's arguments
NewEpisode(j) == [uuid |-> nextUuid, mem |-> j.mem, data |-> j.data, group |-> GroupOf(j.vis)]
NewFact(j) == [data |-> j.data, group |-> GroupOf(j.vis)]

\* enrich_graph: add_episode
EnrichAdd(p) ==
  /\ ctx[p].stage = "add"
  /\ LET j == ctx[p].job IN
       /\ episodes' = episodes \cup {NewEpisode(j)}
       /\ facts' = facts \cup {NewFact(j)}
       /\ Settle({Args(j)})
  /\ nextUuid' = nextUuid + 1
  /\ Step(p, [ctx[p] EXCEPT !.stage = "stamp", !.uuid = nextUuid])
  /\ UNCHANGED <<rows, used, queue, kept, requests, mishaps>>

\* An add that fails or times out although Graphiti wrote the episode, and perhaps its
\* edges.  It is tried again, or given up.
AddUnanswered(p) ==
  /\ GraphMayFail
  /\ ctx[p].stage = "add"
  /\ Mishap
  /\ LET j == ctx[p].job IN
       /\ episodes' = episodes \cup {NewEpisode(j)}
       /\ facts' \in {facts, facts \cup {NewFact(j)}}
  /\ nextUuid' = nextUuid + 1
  /\ UNCHANGED <<rows, used, queue, kept, ctx, requests, history>>

\* The error is swallowed, logged, and the job reports enriched = FALSE
EnrichFails(p) ==
  /\ GraphMayFail
  /\ ctx[p].stage = "add"
  /\ Settle({Args(ctx[p].job)})
  /\ Step(p, Idle)
  /\ UNCHANGED <<rows, used, graphVars, queue, kept, requests, mishaps>>

\* _persist_graph_episode_ref: a nested-key merge onto the row, if it is there
EnrichStamp(p) ==
  /\ ctx[p].stage = "stamp"
  /\ LET m == ctx[p].job.mem IN
       \/ /\ Live(m)
          /\ rows' = [rows EXCEPT ![m].ref = ctx[p].uuid]
       \/ /\ ~Live(m) \/ GraphMayFail
          /\ UNCHANGED rows
  /\ Step(p, Idle)
  /\ UNCHANGED <<used, graphVars, queue, kept, requests, mishaps, history>>

\* The graph worker restarts: ARQ runs the unfinished job again
WorkerKilled(w) ==
  /\ ctx[w].stage \in {"add", "stamp"}
  /\ Mishap
  /\ queue' = queue \cup {ctx[w].job}
  /\ Step(w, Idle)
  /\ UNCHANGED <<rows, used, graphVars, kept, requests, history>>

\* ARQ forgets a finished job's result after keep_result seconds
ResultExpires(j) ==
  /\ j \in kept
  /\ j \notin queue
  /\ \A w \in Workers : ctx[w] # Idle => ctx[w].job # j
  /\ kept' = kept \ {j}
  /\ UNCHANGED <<rows, used, graphVars, queue, ctx, requests, mishaps, history>>

-----------------------------------------------------------------------------

RequestStep(r) ==
  \/ EnqueueStored(r) \/ EnqueueStoredFails(r)
  \/ PatchMetadata(r) \/ PatchUpdate(r) \/ PatchUpsert(r)
  \/ PatchEnqueue(r) \/ PatchEnqueueFails(r)
  \/ DeleteRow(r) \/ Cascade(r)

EnrichStep(p) == EnrichAdd(p) \/ AddUnanswered(p) \/ EnrichFails(p) \/ EnrichStamp(p)

WorkerStep(w) == EnrichStep(w) \/ \E j \in Job : EnrichStart(w, j)

NewRequest(r) ==
  \/ \E m \in Ids, data \in Contents, vis \in Visibilities :
       \/ PatchRead(r, m, data, vis)
       \/ \E override \in BOOLEAN : Store(r, m, data, vis, override)
  \/ \E m \in Ids : DeleteRead(r, m)

Next ==
  \/ \E r \in Reqs : NewRequest(r) \/ RequestStep(r) \/ EnrichStep(r) \/ RequestKilled(r)
  \/ \E w \in Workers : WorkerStep(w) \/ WorkerKilled(w)
  \/ \E j \in Job : ResultExpires(j)

Spec == Init /\ [][Next]_vars

-----------------------------------------------------------------------------
(* Properties *)

\* Nothing waits to run: every request ended and the graph queue is drained
Quiescent == queue = {} /\ \A p \in Reqs \cup Workers : ctx[p] = Idle

\* What a request or a job will still try on the graph
Pending == {Args(j) : j \in queue} \cup UNION {Carries(p) : p \in Reqs \cup Workers}

\* Every episode is what one accepted request made of its memory: that request
\* asked for, or was gated to, this text in this tier.  However stores, edits,
\* deletes, queued jobs, retries and coalesced job ids interleave, nothing reaches
\* the shared pool that no request shared (process_graph_enrichment acts on its
\* arguments and not on the row; the gate decides them when the row is stored).
EpisodeProvenance ==
  \A e \in episodes : \E h \in granted :
    h.mem = e.mem /\ h.data = e.data /\ GroupOf(h.vis) = e.group

\* The text and the tier of every live memory were each tried on the graph, or given
\* up with a report, or are about to be tried, or died with the process of a request
\* between its commit and its enqueue.  The last is the one way to lose an enrichment that
\* nothing reports (process_memory_raw: the retry enqueues nothing).  Text and tier may be
\* of different requests: two edits that overlap can compose a row that none of them wrote.
EnrichmentAccountedFor ==
  LET accounted == settled \cup Pending \cup killed IN
  \A m \in Ids : Live(m) =>
    /\ \E a \in accounted : a.mem = m /\ a.data = rows[m].data
    /\ \E a \in accounted : a.mem = m /\ a.vis = rows[m].vis

\* Every text, with the tier it was committed in, that is owed to the graph is on its way:
\* in a request, in a waiting job or in a run of enrich_graph.  A debt ends when it is
\* tried, reported, killed, or given up for an equal job that has already started; an
\* attempt made before the commit does not pay it.
DebtsCarried == owed \subseteq Pending

\* A cascade removes no episode of another group, and none of another memory unless its
\* text is the very same (which the lookup by content finds, be it that the row has no
\* uuid or that the lookup by uuid failed).  Between the lookup and the removal of the node
\* lie other calls, and other cascades and adds.
CascadeStaysWithin ==
  [][\A e \in episodes \ episodes' :
       \E r \in Reqs :
         /\ ctx[r].stage = "node"
         /\ e.group = GroupOf(ctx[r].vis)
         /\ e.mem = ctx[r].mem \/ e.data = ctx[r].data]_vars

\* memory/provenance.py:3-5 says that a flip (shared to private) or a delete must
\* not leave the memory's contribution to the shared graph live.  Stated for the
\* state in which everything has run, no process died and no call failed.
FlipLeavesNothingShared ==
  Quiescent => \A e \in episodes :
    e.group = "shared" => Live(e.mem) /\ rows[e.mem].vis = "shared"

\* task_manager.py:514-517 says that after a partition migration the content must
\* be re-ingested into the new group: once everything has run, a live memory's
\* text is asserted in the group of its tier.
MigrationIsReingested ==
  Quiescent => \A m \in Ids : Live(m) =>
    [data |-> rows[m].data, group |-> GroupOf(rows[m].vis)] \in facts

=============================================================================

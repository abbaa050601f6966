------------------------- MODULE MemoryGraph_proofs -------------------------
(***************************************************************************)
(* Proofs about MemoryGraph, for any sets of memories, texts, requests and  *)
(* workers and any bounds: its types; that every episode of the graph       *)
(* stands where an accepted request put its memory; that an enrichment is   *)
(* lost in silence in one way only; that what is owed to the graph is       *)
(* carried by someone; and that a cascade keeps to its memory's group and   *)
(* to its memory or its text.                                               *)
(***************************************************************************)
EXTENDS MemoryGraph, TLAPS

Procs == Reqs \cup Workers
RequestStages == {"created", "patch", "upsert", "delete", "enqueue"} \cup Cascading
SlotStates == {Idle} \cup Request \cup Enrichment
StepCtx == ctx' \in [Procs -> SlotStates]

\* A slot in a stage of a request holds a request, in a stage of enrich_graph an
\* enrichment.
LEMMA CtxByStage ==
  ASSUME TypeOK, NEW p \in Procs
  PROVE  /\ ctx[p].stage \in RequestStages => ctx[p] \in Request
         /\ ctx[p].stage \in {"add", "stamp"} => ctx[p] \in Enrichment
         /\ ctx[p].stage = "idle" => ctx[p] = Idle
         /\ ctx[p].stage \in RequestStages \cup {"add", "stamp", "idle"}
<1>1. ctx[p] \in {Idle} \cup Request \cup Enrichment
  BY DEF TypeOK, Procs
<1>2. Idle.stage = "idle"
  BY DEF Idle
<1>3. \A c \in Request : c.stage \in RequestStages
  BY DEF Request, RequestStages
<1>4. \A c \in Enrichment : c.stage \in {"add", "stamp"}
  BY DEF Enrichment
<1> QED
  BY <1>1, <1>2, <1>3, <1>4 DEF RequestStages, Cascading, Lookups

\* A step of one slot to a well-typed local state keeps the slots well typed.
LEMMA StepType ==
  ASSUME TypeOK, NEW p \in Procs, NEW c \in SlotStates, Step(p, c)
  PROVE  StepCtx
BY DEF TypeOK, Step, Procs, StepCtx, SlotStates

LEMMA StepIdle ==
  ASSUME TypeOK, NEW p \in Procs, Step(p, Idle)
  PROVE  StepCtx
BY StepType DEF SlotStates

LEMMA GotoType ==
  ASSUME TypeOK, NEW r \in Procs, ctx[r] \in Request, NEW s \in RequestStages, Goto(r, s)
  PROVE  StepCtx
<1>1. [ctx[r] EXCEPT !.stage = s] \in Request
  BY DEF Request, RequestStages
<1> QED
  BY <1>1, StepType DEF Goto, SlotStates

\* A slot's fields after a step.
LEMMA StepSlots ==
  ASSUME TypeOK, NEW p \in Procs, NEW c, Step(p, c)
  PROVE  \A q \in Procs : ctx'[q] = IF q = p THEN c ELSE ctx[q]
BY DEF Step, TypeOK, Procs

LEMMA GotoFields ==
  ASSUME NEW r, ctx[r] \in Request, NEW s \in RequestStages
  PROVE  LET c == [ctx[r] EXCEPT !.stage = s] IN
           /\ c.stage = s /\ c.op = ctx[r].op /\ c.mem = ctx[r].mem
           /\ c.data = ctx[r].data /\ c.vis = ctx[r].vis /\ c.ref = ctx[r].ref
           /\ c.newData = ctx[r].newData /\ c.newVis = ctx[r].newVis /\ c.found = ctx[r].found
BY DEF Request, RequestStages

LEMMA HitFields ==
  ASSUME NEW r, ctx[r] \in Request, NEW u
  PROVE  LET c == [ctx[r] EXCEPT !.stage = "edges", !.found = u] IN
           /\ c.stage = "edges" /\ c.op = ctx[r].op /\ c.mem = ctx[r].mem
           /\ c.data = ctx[r].data /\ c.vis = ctx[r].vis /\ c.ref = ctx[r].ref
           /\ c.newData = ctx[r].newData /\ c.newVis = ctx[r].newVis /\ c.found = u
BY DEF Request

-----------------------------------------------------------------------------
(* What a step of the cascade does *)

LEMMA HitsAreEpisodes ==
  ASSUME NEW r, NEW e \in Hits(r)
  PROVE  /\ e \in episodes
         /\ e.group = GroupOf(ctx[r].vis)
         /\ e.uuid = ctx[r].ref \/ e.data = ctx[r].data
BY DEF Hits, Newest

LEMMA EndCascadeMoves ==
  ASSUME NEW r, EndCascade(r)
  PROVE  \/ ctx[r].op = "delete" /\ Step(r, Idle)
         \/ ctx[r].op # "delete" /\ Goto(r, "enqueue")
BY DEF EndCascade

\* A cascade goes on to another of its steps, with or without an episode found, or ends;
\* it only removes episodes and facts, and touches nothing else.
LEMMA CascadeMoves ==
  ASSUME NEW r, Cascade(r)
  PROVE  /\ ctx[r].stage \in Cascading
         /\ episodes' \subseteq episodes
         /\ facts' \subseteq facts
         /\ UNCHANGED <<rows, used, nextUuid, queue, kept, requests, mishaps, granted,
                        settled, killed, owed>>
         /\ \/ \E e \in Hits(r) : Step(r, [ctx[r] EXCEPT !.stage = "edges", !.found = e.uuid])
            \/ \E s \in {"by content", "by name", "search", "save"} : Goto(r, s)
            \/ ctx[r].stage = "edges" /\ Goto(r, "node")
            \/ EndCascade(r)
<1>1. CASE Lookup(r)
  <2>1. /\ ctx[r].stage \in Cascading
        /\ UNCHANGED <<rows, used, episodes, facts, nextUuid, queue, kept, requests, mishaps,
                       granted, settled, killed, owed>>
    BY <1>1 DEF Lookup, graphVars, history, Cascading
  <2>2. CASE \E e \in Hits(r) : Step(r, [ctx[r] EXCEPT !.stage = "edges", !.found = e.uuid])
    BY <2>1, <2>2
  <2>3. CASE Goto(r, CASE ctx[r].stage = "by uuid" -> "by content"
                       [] ctx[r].stage = "by content" /\ ctx[r].ref # NoRef -> "by name"
                       [] OTHER -> "search")
    <3>1. \E s \in {"by content", "by name", "search", "save"} : Goto(r, s)
      BY <2>3
    <3> QED
      BY <2>1, <3>1
  <2> QED
    BY <1>1, <2>2, <2>3 DEF Lookup
<1>2. CASE ExpireEdges(r)
  <2>1. facts' \subseteq facts
    BY <1>2 DEF ExpireEdges
  <2> QED
    BY <1>2, <2>1 DEF ExpireEdges, history, Cascading
<1>3. CASE DeleteNode(r)
  <2>1. episodes' \subseteq episodes
    BY <1>3 DEF DeleteNode
  <2> QED
    BY <1>3, <2>1 DEF DeleteNode, history, Cascading
<1>4. CASE FallbackSearch(r)
  BY <1>4 DEF FallbackSearch, graphVars, history, Cascading
<1>5. CASE FallbackSave(r)
  BY <1>5 DEF FallbackSave, history, Cascading
<1> QED
  BY <1>1, <1>2, <1>3, <1>4, <1>5 DEF Cascade

LEMMA StartCascadeMoves ==
  ASSUME NEW r, StartCascade(r)
  PROVE  \E s \in {"by uuid", "by content"} : Goto(r, s)
BY DEF StartCascade

\* After a commit a patch cascades, enqueues or is done.
LEMMA AfterCommitMoves ==
  ASSUME NEW r, AfterCommit(r)
  PROVE  \/ /\ Migrates(r) \/ EditsContent(r)
            /\ \E s \in {"by uuid", "by content", "enqueue"} : Goto(r, s)
         \/ ~Migrates(r) /\ ~EditsContent(r) /\ Step(r, Idle)
<1>1. CASE Migrates(r)
  BY <1>1, StartCascadeMoves DEF AfterCommit
<1>2. CASE ~Migrates(r)
  BY <1>2 DEF AfterCommit
<1> QED
  BY <1>1, <1>2

\* The stages of a request, and that it holds a request in them.
LEMMA RequestStepSlot ==
  ASSUME TypeOK, NEW r \in Reqs, RequestStep(r)
  PROVE  /\ r \in Procs
         /\ ctx[r].stage \in RequestStages
         /\ ctx[r] \in Request
<1>1. r \in Procs
  BY DEF Procs
<1>2. Cascade(r) => ctx[r].stage \in Cascading
  BY CascadeMoves
<1>3. ctx[r].stage \in RequestStages
  BY <1>2 DEF RequestStep, RequestStages, EnqueueStored, EnqueueStoredFails,
     PatchMetadata, PatchUpdate, PatchUpsert, PatchEnqueue, PatchEnqueueFails, DeleteRow
<1> QED
  BY <1>1, <1>3, CtxByStage

LEMMA EnrichStepSlot ==
  ASSUME TypeOK, NEW p \in Procs, EnrichStep(p)
  PROVE  ctx[p].stage \in {"add", "stamp"} /\ ctx[p] \in Enrichment
<1>1. ctx[p].stage \in {"add", "stamp"}
  BY DEF EnrichStep, EnrichAdd, AddUnanswered, EnrichFails, EnrichStamp
<1> QED
  BY <1>1, CtxByStage

\* A request begins in an idle slot and leaves the graph alone.
LEMMA NewRequestFrame ==
  ASSUME NEW r \in Reqs, NewRequest(r)
  PROVE  ctx[r] = Idle /\ UNCHANGED <<episodes, facts, nextUuid>>
<1>1. ASSUME NEW m, NEW data, NEW vis, PatchRead(r, m, data, vis)
      PROVE  ctx[r] = Idle /\ UNCHANGED <<episodes, facts, nextUuid>>
  BY <1>1 DEF PatchRead, Begin, graphVars
<1>2. ASSUME NEW m, NEW data, NEW vis, NEW override, Store(r, m, data, vis, override)
      PROVE  ctx[r] = Idle /\ UNCHANGED <<episodes, facts, nextUuid>>
  BY <1>2 DEF Store, Begin, graphVars
<1>3. ASSUME NEW m, DeleteRead(r, m)
      PROVE  ctx[r] = Idle /\ UNCHANGED <<episodes, facts, nextUuid>>
  BY <1>3 DEF DeleteRead, Begin, graphVars
<1> QED
  BY <1>1, <1>2, <1>3 DEF NewRequest

\* Of the steps of a request only the cascade touches the graph.
LEMMA RequestStepFrame ==
  ASSUME NEW r \in Reqs, RequestStep(r)
  PROVE  UNCHANGED <<episodes, facts, nextUuid>> \/ Cascade(r)
<1>1. CASE EnqueueStored(r) \/ EnqueueStoredFails(r) \/ PatchEnqueue(r) \/ PatchEnqueueFails(r)
  BY <1>1 DEF EnqueueStored, EnqueueStoredFails, PatchEnqueue, PatchEnqueueFails, graphVars
<1>2. CASE PatchMetadata(r) \/ PatchUpdate(r) \/ PatchUpsert(r) \/ DeleteRow(r)
  BY <1>2 DEF PatchMetadata, PatchUpdate, PatchUpsert, DeleteRow, graphVars
<1> QED
  BY <1>1, <1>2 DEF RequestStep

-----------------------------------------------------------------------------
(* Types *)

\* What a request holds is well typed.
LEMMA RequestFields ==
  ASSUME NEW c \in Request
  PROVE  /\ c.mem \in Ids
         /\ c.data \in Contents /\ c.newData \in Contents
         /\ c.vis \in Visibilities /\ c.newVis \in Visibilities
         /\ c.ref \in Nat /\ c.found \in Nat
BY DEF Request

LEMMA JobTypes ==
  ASSUME NEW r \in Reqs, ctx[r] \in Request
  PROVE  StoreJob(r) \in Job /\ EditJob(r) \in Job
BY RequestFields DEF StoreJob, EditJob, Job

LEMMA TargetType ==
  ASSUME NEW r \in Reqs, ctx[r] \in Request
  PROVE  Target(r) \in RowStates
BY RequestFields DEF Target, RowState, RowStates

LEMMA ArgsType == ASSUME NEW j \in Job PROVE Args(j) \in RowStates
BY DEF Job, Args, RowState, RowStates

LEMMA LiveRow ==
  ASSUME TypeOK, NEW m \in Ids, Live(m)
  PROVE  rows[m] \in Row
BY DEF TypeOK, Live, Gone

LEMMA TypeInit == Init => TypeOK
<1> SUFFICES ASSUME Init PROVE TypeOK
  OBVIOUS
<1> QED
  BY MemoryGraphAssumption DEF Init, TypeOK, Gone, Idle, NoRef

\* The conjuncts of TypeOK that speak of the slots and the rest, apart.
TypeRest ==
  /\ rows \in [Ids -> Row \cup {Gone}]
  /\ used \subseteq Ids
  /\ episodes \subseteq Episode
  /\ facts \subseteq Fact
  /\ nextUuid \in Nat \ {NoRef}
  /\ queue \subseteq Job
  /\ kept \subseteq Job
  /\ requests \in Nat
  /\ mishaps \in Nat
  /\ granted \subseteq RowStates
  /\ settled \subseteq RowStates
  /\ killed \subseteq RowStates
  /\ owed \subseteq RowStates

LEMMA TypeSplitNext == TypeOK' <=> TypeRest' /\ StepCtx
BY DEF TypeOK, TypeRest, Procs, StepCtx, SlotStates

LEMMA StoreType ==
  ASSUME TypeOK, NEW r \in Reqs, NEW m \in Ids, NEW data \in Contents,
         NEW vis \in Visibilities, NEW override \in BOOLEAN, Store(r, m, data, vis, override)
  PROVE  TypeOK'
<1>1. GatedVisibility(data, vis, override) \in Visibilities
  BY DEF GatedVisibility, Visibilities
<1> DEFINE effective == GatedVisibility(data, vis, override)
           new == [state |-> "live", data |-> data, vis |-> effective, ref |-> NoRef]
           c == [op |-> "store", stage |-> "created", mem |-> m, data |-> data, vis |-> vis,
                 ref |-> NoRef, newData |-> data, newVis |-> effective, found |-> NoRef]
<1>2. new \in Row
  BY <1>1 DEF Row, NoRef
<1>3. c \in Request
  BY <1>1 DEF Request, NoRef
<1>4. rows' = [rows EXCEPT ![m] = new] /\ Step(r, c)
  BY DEF Store
<1>5. StepCtx
  <2> HIDE DEF c
  <2> QED
    BY <1>3, <1>4, StepType DEF Procs, SlotStates
<1>6. rows' \in [Ids -> Row \cup {Gone}]
  <2> HIDE DEF new
  <2> QED
    BY <1>2, <1>4 DEF TypeOK
<1>7. RowState(m, data, effective) \in RowStates
  BY <1>1 DEF RowState, RowStates
<1>8. TypeRest'
  BY <1>6, <1>7 DEF TypeOK, TypeRest, Store, Begin, graphVars
<1> QED
  BY <1>5, <1>8, TypeSplitNext

LEMMA PatchReadType ==
  ASSUME TypeOK, NEW r \in Reqs, NEW m \in Ids, NEW data \in Contents,
         NEW vis \in Visibilities, PatchRead(r, m, data, vis)
  PROVE  TypeOK'
<1> DEFINE c == [op |-> "patch", stage |-> "patch", mem |-> m,
                 data |-> rows[m].data, vis |-> rows[m].vis, ref |-> rows[m].ref,
                 newData |-> data, newVis |-> vis, found |-> NoRef]
<1>1. rows[m] \in Row /\ Step(r, c)
  BY LiveRow DEF PatchRead
<1>2. c \in Request
  BY <1>1 DEF Row, Request, NoRef
<1>3. StepCtx
  <2> HIDE DEF c
  <2> QED
    BY <1>1, <1>2, StepType DEF Procs, SlotStates
<1>4. TypeRest'
  BY DEF TypeOK, TypeRest, PatchRead, Begin, graphVars, history
<1> QED
  BY <1>3, <1>4, TypeSplitNext

LEMMA DeleteReadType ==
  ASSUME TypeOK, NEW r \in Reqs, NEW m \in Ids, DeleteRead(r, m)
  PROVE  TypeOK'
<1> DEFINE c == [op |-> "delete", stage |-> "delete", mem |-> m,
                 data |-> rows[m].data, vis |-> rows[m].vis, ref |-> rows[m].ref,
                 newData |-> rows[m].data, newVis |-> rows[m].vis, found |-> NoRef]
<1>1. rows[m] \in Row /\ Step(r, c)
  BY LiveRow DEF DeleteRead
<1>2. c \in Request
  BY <1>1 DEF Row, Request, NoRef
<1>3. StepCtx
  <2> HIDE DEF c
  <2> QED
    BY <1>1, <1>2, StepType DEF Procs, SlotStates
<1>4. TypeRest'
  BY DEF TypeOK, TypeRest, DeleteRead, Begin, graphVars, history
<1> QED
  BY <1>3, <1>4, TypeSplitNext

LEMMA CascadeType ==
  ASSUME TypeOK, NEW r \in Reqs, ctx[r] \in Request, Cascade(r)
  PROVE  TypeOK'
<1>1. r \in Procs
  BY DEF Procs
<1>2. CASE \E e \in Hits(r) : Step(r, [ctx[r] EXCEPT !.stage = "edges", !.found = e.uuid])
  <2>1. PICK e \in Hits(r) : Step(r, [ctx[r] EXCEPT !.stage = "edges", !.found = e.uuid])
    BY <1>2
  <2>2. e.uuid \in Nat
    BY HitsAreEpisodes DEF TypeOK, Episode
  <2>3. [ctx[r] EXCEPT !.stage = "edges", !.found = e.uuid] \in Request
    BY <2>2 DEF Request, Cascading
  <2> QED
    <3>1. StepCtx
      BY <1>1, <2>1, <2>3, StepType DEF SlotStates
    <3>2. TypeRest'
      BY CascadeMoves DEF TypeOK, TypeRest
    <3> QED
      BY <3>1, <3>2, TypeSplitNext
<1>3. CASE \/ \E s \in RequestStages : Goto(r, s)
           \/ Step(r, Idle)
  <2>1. StepCtx
    BY <1>1, <1>3, GotoType, StepIdle
  <2>2. TypeRest'
    BY CascadeMoves DEF TypeOK, TypeRest
  <2> QED
    BY <2>1, <2>2, TypeSplitNext
<1> QED
  BY <1>2, <1>3, CascadeMoves, EndCascadeMoves DEF RequestStages, Cascading, Lookups

\* The slot of a committed patch.
LEMMA AfterCommitType ==
  ASSUME TypeOK, NEW r \in Reqs, ctx[r] \in Request, AfterCommit(r)
  PROVE  StepCtx
<1>1. r \in Procs /\ {"by uuid", "by content", "enqueue"} \subseteq RequestStages
  BY DEF Procs, RequestStages, Cascading, Lookups
<1> QED
  BY <1>1, AfterCommitMoves, GotoType, StepIdle

\* The steps of a request that has read its row.
LEMMA RequestStepType ==
  ASSUME TypeOK, NEW r \in Reqs, RequestStep(r)
  PROVE  TypeOK'
<1>1. r \in Procs /\ ctx[r] \in Request
  BY RequestStepSlot
<1>2. /\ StoreJob(r) \in Job
      /\ EditJob(r) \in Job
      /\ Target(r) \in RowStates
      /\ ctx[r].mem \in Ids
  BY <1>1, JobTypes, TargetType, RequestFields
<1>3. CASE EnqueueStored(r)
  <2>1. StepCtx
    BY <1>1, <1>3, StepIdle DEF EnqueueStored
  <2>2. TypeRest'
    BY <1>2, <1>3 DEF TypeOK, TypeRest, EnqueueStored, graphVars, history
  <2> QED
    BY <2>1, <2>2, TypeSplitNext
<1>4. CASE EnqueueStoredFails(r)
  <2>1. [stage |-> "add", job |-> StoreJob(r), uuid |-> NoRef] \in Enrichment
    BY <1>2 DEF Enrichment, NoRef
  <2>2. StepCtx
    BY <1>1, <1>4, <2>1, StepType DEF EnqueueStoredFails, SlotStates
  <2>3. TypeRest'
    BY <1>4 DEF TypeOK, TypeRest, EnqueueStoredFails, graphVars, history
  <2> QED
    BY <2>2, <2>3, TypeSplitNext
<1>5. CASE PatchMetadata(r)
  <2>1. StepCtx
    BY <1>1, <1>5, AfterCommitType DEF PatchMetadata
  <2>2. rows' \in [Ids -> Row \cup {Gone}]
    <3>1. CASE Live(ctx[r].mem)
      <4>1. rows[ctx[r].mem] \in Row
        BY <1>2, <3>1, LiveRow
      <4> DEFINE new == [rows[ctx[r].mem] EXCEPT !.vis = ctx[r].newVis,
                                                 !.ref = ctx[r].ref]
      <4>2. new \in Row
        BY <1>1, <4>1, RequestFields DEF Row
      <4>3. rows' = [rows EXCEPT ![ctx[r].mem] = new]
        BY <1>5, <3>1 DEF PatchMetadata
      <4> HIDE DEF new
      <4> QED
        BY <1>2, <4>2, <4>3 DEF TypeOK
    <3>2. CASE ~Live(ctx[r].mem)
      BY <1>5, <3>2 DEF PatchMetadata, TypeOK
    <3> QED
      BY <3>1, <3>2
  <2>3. TypeRest'
    BY <1>2, <1>5, <2>2 DEF TypeOK, TypeRest, PatchMetadata, Grant, graphVars
  <2> QED
    BY <2>1, <2>3, TypeSplitNext
<1>6. CASE PatchUpdate(r)
  <2>1. "upsert" \in RequestStages
    BY DEF RequestStages
  <2>2. StepCtx
    BY <1>1, <1>6, <2>1, GotoType, StepIdle DEF PatchUpdate
  <2>3. TypeRest'
    BY <1>6 DEF TypeOK, TypeRest, PatchUpdate, graphVars, history
  <2> QED
    BY <2>2, <2>3, TypeSplitNext
<1>7. CASE PatchUpsert(r)
  <2> DEFINE new == [state |-> "live", data |-> ctx[r].newData,
                     vis |-> ctx[r].newVis, ref |-> ctx[r].ref]
  <2>1. StepCtx
    BY <1>1, <1>7, AfterCommitType DEF PatchUpsert
  <2>2. new \in Row /\ rows' = [rows EXCEPT ![ctx[r].mem] = new]
    BY <1>1, <1>7, RequestFields DEF Row, PatchUpsert
  <2>3. rows' \in [Ids -> Row \cup {Gone}]
    <3> HIDE DEF new
    <3> QED
      BY <1>2, <2>2 DEF TypeOK
  <2>4. TypeRest'
    BY <1>2, <1>7, <2>3 DEF TypeOK, TypeRest, PatchUpsert, Grant, graphVars
  <2> QED
    BY <2>1, <2>4, TypeSplitNext
<1>8. CASE PatchEnqueue(r)
  <2>1. StepCtx
    BY <1>1, <1>8, StepIdle DEF PatchEnqueue
  <2>2. TypeRest'
    BY <1>2, <1>8 DEF TypeOK, TypeRest, PatchEnqueue, graphVars
  <2> QED
    BY <2>1, <2>2, TypeSplitNext
<1>9. CASE PatchEnqueueFails(r)
  <2>1. StepCtx
    BY <1>1, <1>9, StepIdle DEF PatchEnqueueFails
  <2>2. TypeRest'
    BY <1>2, <1>9 DEF TypeOK, TypeRest, PatchEnqueueFails, Settle, graphVars
  <2> QED
    BY <2>1, <2>2, TypeSplitNext
<1>10. CASE DeleteRow(r)
  <2>1. {"by uuid", "by content"} \subseteq RequestStages
    BY DEF RequestStages, Cascading, Lookups
  <2>2. StepCtx
    BY <1>1, <1>10, <2>1, StartCascadeMoves, GotoType, StepIdle DEF DeleteRow
  <2>3. rows' \in [Ids -> Row \cup {Gone}]
    BY <1>2, <1>10 DEF TypeOK, DeleteRow
  <2>4. TypeRest'
    BY <1>10, <2>3 DEF TypeOK, TypeRest, DeleteRow, graphVars, history
  <2> QED
    BY <2>2, <2>4, TypeSplitNext
<1>11. CASE Cascade(r)
  BY <1>1, <1>11, CascadeType
<1> QED
  BY <1>3, <1>4, <1>5, <1>6, <1>7, <1>8, <1>9, <1>10, <1>11 DEF RequestStep

\* A run of enrich_graph, in a request thread or a worker.
LEMMA EnrichStepType ==
  ASSUME TypeOK, NEW p \in Procs, EnrichStep(p)
  PROVE  TypeOK'
<1>1. ctx[p] \in Enrichment
  BY EnrichStepSlot
<1>2. ctx[p].job \in Job /\ ctx[p].uuid \in Nat
  BY <1>1 DEF Enrichment
<1> DEFINE e == NewEpisode(ctx[p].job)
           f == NewFact(ctx[p].job)
<1>3. nextUuid \in Nat \ {NoRef} /\ nextUuid + 1 \in Nat \ {NoRef}
  BY DEF TypeOK, NoRef
<1>4. ctx[p].job.mem \in Ids /\ e \in Episode /\ f \in Fact
  BY <1>2, <1>3 DEF NewEpisode, NewFact, Job, GroupOf, Groups, Episode, Fact
<1>5. Args(ctx[p].job) \in RowStates
  BY <1>2, ArgsType
<1> HIDE DEF e, f
<1>6. CASE EnrichAdd(p)
  <2> DEFINE c == [ctx[p] EXCEPT !.stage = "stamp", !.uuid = nextUuid]
  <2>1. c \in Enrichment
    BY <1>1, <1>3 DEF Enrichment
  <2>2. StepCtx
    <3>1. Step(p, c)
      BY <1>6 DEF EnrichAdd
    <3> HIDE DEF c
    <3> QED
      BY <2>1, <3>1, StepType DEF SlotStates
  <2>3. /\ episodes' = episodes \cup {e}
        /\ facts' = facts \cup {f}
        /\ nextUuid' = nextUuid + 1
    BY <1>6 DEF EnrichAdd, e, f
  <2>4. TypeRest'
    <3> HIDE DEF c
    <3> QED
      BY <1>3, <1>4, <1>5, <1>6, <2>3 DEF TypeOK, TypeRest, EnrichAdd, Settle
  <2> QED
    BY <2>2, <2>4, TypeSplitNext
<1>7. CASE AddUnanswered(p)
  <2>1. /\ episodes' = episodes \cup {e}
        /\ facts' \subseteq facts \cup {f}
        /\ nextUuid' = nextUuid + 1
    BY <1>7 DEF AddUnanswered, e, f
  <2>2. StepCtx
    BY <1>7 DEF AddUnanswered, TypeOK, StepCtx, SlotStates, Procs
  <2>3. TypeRest'
    BY <1>3, <1>4, <1>7, <2>1 DEF TypeOK, TypeRest, AddUnanswered, Mishap, history
  <2> QED
    BY <2>2, <2>3, TypeSplitNext
<1>8. CASE EnrichFails(p)
  <2>1. StepCtx
    BY <1>8, StepIdle DEF EnrichFails
  <2>2. TypeRest'
    BY <1>5, <1>8 DEF TypeOK, TypeRest, EnrichFails, Settle, graphVars
  <2> QED
    BY <2>1, <2>2, TypeSplitNext
<1>9. CASE EnrichStamp(p)
  <2>1. StepCtx
    BY <1>9, StepIdle DEF EnrichStamp
  <2>2. rows' \in [Ids -> Row \cup {Gone}]
    <3>1. CASE Live(ctx[p].job.mem) /\ rows' = [rows EXCEPT ![ctx[p].job.mem].ref = ctx[p].uuid]
      <4> DEFINE new == [rows[ctx[p].job.mem] EXCEPT !.ref = ctx[p].uuid]
      <4>1. rows[ctx[p].job.mem] \in Row
        BY <1>4, <3>1, LiveRow
      <4>2. new \in Row
        BY <1>2, <4>1 DEF Row
      <4>3. rows' = [rows EXCEPT ![ctx[p].job.mem] = new]
        BY <3>1
      <4> HIDE DEF new
      <4> QED
        BY <1>4, <4>2, <4>3 DEF TypeOK
    <3>2. CASE UNCHANGED rows
      BY <3>2 DEF TypeOK
    <3> QED
      BY <1>9, <3>1, <3>2 DEF EnrichStamp
  <2>3. TypeRest'
    BY <1>9, <2>2 DEF TypeOK, TypeRest, EnrichStamp, graphVars, history
  <2> QED
    BY <2>1, <2>3, TypeSplitNext
<1> QED
  BY <1>6, <1>7, <1>8, <1>9 DEF EnrichStep

\* What a slot carries is well typed.
LEMMA CarriesType ==
  ASSUME TypeOK, NEW p \in Procs
  PROVE  Carries(p) \subseteq RowStates
<1>1. CASE ctx[p].stage = "add"
  BY <1>1, CtxByStage, ArgsType DEF Carries, Enrichment
<1>2. CASE ctx[p].stage \in RequestStages
  <2>1. ctx[p] \in Request /\ ctx[p].stage # "add"
    BY <1>2, CtxByStage DEF RequestStages, Cascading, Lookups
  <2>2. Target(p) \in RowStates
    BY <2>1, RequestFields DEF Target, RowState, RowStates
  <2> QED
    BY <2>1, <2>2 DEF Carries
<1> QED
  BY <1>1, <1>2 DEF Carries, RequestStages

LEMMA KilledType ==
  ASSUME TypeOK, NEW r \in Reqs, RequestKilled(r)
  PROVE  TypeOK'
<1>1. r \in Procs
  BY DEF Procs
<1>2. StepCtx
  BY <1>1, StepIdle DEF RequestKilled
<1>3. TypeRest'
  BY <1>1, CarriesType DEF TypeOK, TypeRest, RequestKilled, Mishap, graphVars
<1> QED
  BY <1>2, <1>3, TypeSplitNext

LEMMA EnrichStartType ==
  ASSUME TypeOK, NEW w \in Workers, NEW j \in Job, EnrichStart(w, j)
  PROVE  TypeOK'
<1>1. w \in Procs
  BY DEF Procs
<1>2. [stage |-> "add", job |-> j, uuid |-> NoRef] \in Enrichment
  BY DEF Enrichment, NoRef
<1>3. StepCtx
  <2>1. CASE Live(j.mem)
    BY <1>1, <1>2, <2>1, StepType DEF EnrichStart, SlotStates
  <2>2. CASE ~Live(j.mem)
    BY <2>2 DEF EnrichStart, StepCtx, SlotStates, TypeOK, Procs
  <2> QED
    BY <2>1, <2>2
<1>4. Args(j) \in RowStates
  BY ArgsType
<1>5. TypeRest'
  BY <1>4 DEF TypeOK, TypeRest, EnrichStart, Settle, graphVars, history
<1> QED
  BY <1>3, <1>5, TypeSplitNext

LEMMA WorkerKilledType ==
  ASSUME TypeOK, NEW w \in Workers, WorkerKilled(w)
  PROVE  TypeOK'
<1>1. w \in Procs
  BY DEF Procs
<1>2. ctx[w].job \in Job
  BY <1>1, CtxByStage DEF WorkerKilled, Enrichment
<1>3. StepCtx
  BY <1>1, StepIdle DEF WorkerKilled
<1>4. TypeRest'
  BY <1>2 DEF TypeOK, TypeRest, WorkerKilled, Mishap, graphVars, history
<1> QED
  BY <1>3, <1>4, TypeSplitNext

LEMMA TypeNext == TypeOK /\ [Next]_vars => TypeOK'
<1> SUFFICES ASSUME TypeOK, [Next]_vars PROVE TypeOK'
  OBVIOUS
<1>1. ASSUME NEW r \in Reqs, NewRequest(r) PROVE TypeOK'
  BY <1>1, StoreType, PatchReadType, DeleteReadType DEF NewRequest
<1>2. ASSUME NEW r \in Reqs, RequestStep(r) PROVE TypeOK'
  BY <1>2, RequestStepType
<1>3. ASSUME NEW p \in Procs, EnrichStep(p) PROVE TypeOK'
  BY <1>3, EnrichStepType
<1>4. ASSUME NEW r \in Reqs, RequestKilled(r) PROVE TypeOK'
  BY <1>4, KilledType
<1>5. ASSUME NEW w \in Workers, WorkerKilled(w) PROVE TypeOK'
  BY <1>5, WorkerKilledType
<1>6. ASSUME NEW w \in Workers, NEW j \in Job, EnrichStart(w, j) PROVE TypeOK'
  BY <1>6, EnrichStartType
<1>7. ASSUME NEW j \in Job, ResultExpires(j) PROVE TypeOK'
  BY <1>7 DEF TypeOK, ResultExpires, graphVars, history
<1>8. CASE UNCHANGED vars
  BY <1>8 DEF TypeOK, vars
<1> QED
  BY <1>1, <1>2, <1>3, <1>4, <1>5, <1>6, <1>7, <1>8 DEF Next, WorkerStep, Procs

\* Every variable keeps its type, whatever the requests, workers, failures and
\* kills: in particular a slot never holds half of a request or of a job.
THEOREM TypeCorrect == Spec => []TypeOK
<1>1. Init => TypeOK
  BY TypeInit
<1>2. TypeOK /\ [Next]_vars => TypeOK'
  BY TypeNext
<1> QED
  BY <1>1, <1>2, PTL DEF Spec

-----------------------------------------------------------------------------
(* Stages and operations *)

\* Carries tells by the operation what a slot has committed, so the operation has to
\* fit the stage.
OpFits(c) ==
  /\ c.stage = "created" => c.op = "store"
  /\ c.stage \in {"patch", "upsert"} => c.op = "patch"
  /\ c.stage = "enqueue" => c.op # "delete"
  /\ c.stage = "delete" => c.op = "delete"

OpsFit == \A p \in Procs : OpFits(ctx[p])

LEMMA StepFits ==
  ASSUME TypeOK, OpsFit, NEW p \in Procs, NEW c, Step(p, c), OpFits(c)
  PROVE  OpsFit'
<1>1. \A q \in Procs : ctx'[q] = IF q = p THEN c ELSE ctx[q]
  BY StepSlots
<1> QED
  BY <1>1 DEF OpsFit, OpFits

LEMMA IdleFits == OpFits(Idle)
BY DEF OpFits, Idle

LEMMA GotoFits ==
  ASSUME TypeOK, OpsFit, NEW r \in Procs, ctx[r] \in Request, NEW s \in RequestStages,
         Goto(r, s),
         /\ s \notin {"created", "delete"}
         /\ s \in {"patch", "upsert"} => ctx[r].op = "patch"
         /\ s = "enqueue" => ctx[r].op # "delete"
  PROVE  OpsFit'
<1> DEFINE c == [ctx[r] EXCEPT !.stage = s]
<1>1. c.stage = s /\ c.op = ctx[r].op /\ Step(r, c)
  BY GotoFields DEF Goto
<1> HIDE DEF c
<1>2. OpFits(c)
  BY <1>1 DEF OpFits
<1> QED
  BY <1>1, <1>2, StepFits

LEMMA CascadeFits ==
  ASSUME TypeOK, OpsFit, NEW r \in Reqs, ctx[r] \in Request, Cascade(r)
  PROVE  OpsFit'
<1>1. r \in Procs /\ Cascading \subseteq RequestStages /\ "enqueue" \in RequestStages
  BY DEF Procs, RequestStages
<1>2. ASSUME NEW s \in Cascading, Goto(r, s) PROVE OpsFit'
  BY <1>1, <1>2, GotoFits DEF Cascading, Lookups
<1>3. CASE EndCascade(r)
  BY <1>1, <1>3, EndCascadeMoves, IdleFits, StepFits, GotoFits
<1>4. ASSUME NEW e \in Hits(r), Step(r, [ctx[r] EXCEPT !.stage = "edges", !.found = e.uuid])
      PROVE  OpsFit'
  <2> DEFINE c == [ctx[r] EXCEPT !.stage = "edges", !.found = e.uuid]
  <2>1. c.stage = "edges" /\ Step(r, c)
    BY <1>4, HitFields
  <2> HIDE DEF c
  <2> QED
    BY <1>1, <2>1, StepFits DEF OpFits
<1> QED
  BY <1>2, <1>3, <1>4, CascadeMoves DEF Cascading, Lookups

LEMMA AfterCommitFits ==
  ASSUME TypeOK, OpsFit, NEW r \in Reqs, ctx[r].stage \in {"patch", "upsert"}, AfterCommit(r)
  PROVE  OpsFit'
<1>1. r \in Procs /\ ctx[r].stage \in RequestStages
  BY DEF Procs, RequestStages
<1>2. ctx[r] \in Request /\ ctx[r].op = "patch"
  BY <1>1, CtxByStage DEF OpsFit, OpFits
<1>3. {"by uuid", "by content", "enqueue"} \subseteq RequestStages
  BY DEF RequestStages, Cascading, Lookups
<1> QED
  BY <1>1, <1>2, <1>3, AfterCommitMoves, IdleFits, StepFits, GotoFits

LEMMA RequestStepFits ==
  ASSUME TypeOK, OpsFit, NEW r \in Reqs, RequestStep(r)
  PROVE  OpsFit'
<1>1. r \in Procs /\ ctx[r] \in Request /\ OpFits(ctx[r])
  BY RequestStepSlot DEF OpsFit
<1>2. CASE Step(r, Idle)
  BY <1>1, <1>2, IdleFits, StepFits
<1>3. CASE EnqueueStoredFails(r)
  <2> DEFINE c == [stage |-> "add", job |-> StoreJob(r), uuid |-> NoRef]
  <2>1. Step(r, c) /\ c.stage = "add"
    BY <1>3 DEF EnqueueStoredFails
  <2> HIDE DEF c
  <2> QED
    BY <1>1, <2>1, StepFits DEF OpFits
<1>4. CASE PatchMetadata(r) \/ PatchUpsert(r)
  BY <1>4, AfterCommitFits DEF PatchMetadata, PatchUpsert
<1>5. CASE PatchUpdate(r)
  <2>1. "upsert" \in RequestStages /\ ctx[r].op = "patch"
    BY <1>1, <1>5 DEF PatchUpdate, OpFits, RequestStages
  <2> QED
    BY <1>1, <1>2, <1>5, <2>1, GotoFits DEF PatchUpdate
<1>6. CASE DeleteRow(r)
  <2>1. {"by uuid", "by content"} \subseteq RequestStages
    BY DEF RequestStages, Cascading, Lookups
  <2> QED
    BY <1>1, <1>2, <1>6, <2>1, StartCascadeMoves, GotoFits DEF DeleteRow
<1>7. CASE Cascade(r)
  BY <1>1, <1>7, CascadeFits
<1> QED
  BY <1>2, <1>3, <1>4, <1>5, <1>6, <1>7
  DEF RequestStep, EnqueueStored, PatchEnqueue, PatchEnqueueFails

LEMMA FitsNext == TypeOK /\ OpsFit /\ [Next]_vars => OpsFit'
<1> SUFFICES ASSUME TypeOK, OpsFit, [Next]_vars PROVE OpsFit'
  OBVIOUS
<1>1. ASSUME NEW p \in Procs, Step(p, Idle) PROVE OpsFit'
  BY <1>1, IdleFits, StepFits
<1>2. ASSUME UNCHANGED ctx PROVE OpsFit'
  BY <1>2 DEF OpsFit
<1>3. ASSUME NEW r \in Reqs, NewRequest(r) PROVE OpsFit'
  <2>1. r \in Procs
    BY DEF Procs
  <2>2. ASSUME NEW m, NEW data, NEW vis, PatchRead(r, m, data, vis) PROVE OpsFit'
    <3>1. OpFits([op |-> "patch", stage |-> "patch", mem |-> m,
                  data |-> rows[m].data, vis |-> rows[m].vis, ref |-> rows[m].ref,
                  newData |-> data, newVis |-> vis, found |-> NoRef])
      BY DEF OpFits
    <3> QED
      BY <2>1, <2>2, <3>1, StepFits DEF PatchRead
  <2>3. ASSUME NEW m, NEW data, NEW vis, NEW override, Store(r, m, data, vis, override)
        PROVE  OpsFit'
    <3> DEFINE effective == GatedVisibility(data, vis, override)
    <3>1. OpFits([op |-> "store", stage |-> "created", mem |-> m, data |-> data,
                  vis |-> vis, ref |-> NoRef, newData |-> data, newVis |-> effective,
                  found |-> NoRef])
      BY DEF OpFits
    <3> QED
      BY <2>1, <2>3, <3>1, StepFits DEF Store
  <2>4. ASSUME NEW m, DeleteRead(r, m) PROVE OpsFit'
    <3>1. OpFits([op |-> "delete", stage |-> "delete", mem |-> m,
                  data |-> rows[m].data, vis |-> rows[m].vis, ref |-> rows[m].ref,
                  newData |-> rows[m].data, newVis |-> rows[m].vis, found |-> NoRef])
      BY DEF OpFits
    <3> QED
      BY <2>1, <2>4, <3>1, StepFits DEF DeleteRead
  <2> QED
    BY <1>3, <2>2, <2>3, <2>4 DEF NewRequest
<1>4. ASSUME NEW r \in Reqs, RequestStep(r) PROVE OpsFit'
  BY <1>4, RequestStepFits
<1>5. ASSUME NEW p \in Procs, EnrichStep(p) PROVE OpsFit'
  <2>1. CASE EnrichAdd(p)
    <3> DEFINE c == [ctx[p] EXCEPT !.stage = "stamp", !.uuid = nextUuid]
    <3>1. Step(p, c) /\ c.stage = "stamp"
      BY <2>1, EnrichStepSlot DEF EnrichStep, EnrichAdd, Enrichment
    <3> HIDE DEF c
    <3> QED
      BY <3>1, StepFits DEF OpFits
  <2> QED
    BY <1>1, <1>2, <1>5, <2>1 DEF EnrichStep, AddUnanswered, EnrichFails, EnrichStamp
<1>6. ASSUME NEW r \in Reqs, RequestKilled(r) PROVE OpsFit'
  BY <1>1, <1>6 DEF RequestKilled, Procs
<1>7. ASSUME NEW w \in Workers, WorkerKilled(w) PROVE OpsFit'
  BY <1>1, <1>7 DEF WorkerKilled, Procs
<1>8. ASSUME NEW w \in Workers, NEW j \in Job, EnrichStart(w, j) PROVE OpsFit'
  <2>1. OpFits([stage |-> "add", job |-> j, uuid |-> NoRef])
    BY DEF OpFits
  <2> QED
    BY <1>2, <1>8, <2>1, StepFits DEF EnrichStart, Procs
<1>9. ASSUME NEW j \in Job, ResultExpires(j) PROVE OpsFit'
  BY <1>2, <1>9 DEF ResultExpires
<1>10. CASE UNCHANGED vars
  BY <1>2, <1>10 DEF vars
<1> QED
  BY <1>3, <1>4, <1>5, <1>6, <1>7, <1>8, <1>9, <1>10 DEF Next, WorkerStep, Procs

\* The types together with the operations.
Typed == TypeOK /\ OpsFit

LEMMA TypedInvariant == Spec => []Typed
<1>1. Init => Typed
  BY TypeInit, IdleFits DEF Init, Typed, OpsFit, Procs
<1>2. Typed /\ [Next]_vars => Typed'
  BY TypeNext, FitsNext DEF Typed
<1> QED
  BY <1>1, <1>2, PTL DEF Spec

-----------------------------------------------------------------------------
(* What the slots carry *)

\* Carries, of a local state
CarriesOf(c) ==
  IF c.stage = "add" THEN {Args(c.job)}
  ELSE IF c.stage \in {"created", "enqueue"} \cup Cascading /\ c.op # "delete"
       THEN {RowState(c.mem, c.newData, c.newVis)}
  ELSE {}

LEMMA CarriesIsOf ==
  ASSUME NEW p
  PROVE  Carries(p) = CarriesOf(ctx[p]) /\ Carries(p)' = CarriesOf(ctx'[p])
BY DEF Carries, CarriesOf, Target, Args, RowState

LEMMA IdleCarries == CarriesOf(Idle) = {}
BY DEF CarriesOf, Idle, Cascading, Lookups

LEMMA AddCarries ==
  ASSUME NEW j, NEW u
  PROVE  /\ CarriesOf([stage |-> "add", job |-> j, uuid |-> u]) = {Args(j)}
         /\ [stage |-> "add", job |-> j, uuid |-> u].stage = "add"
         /\ [stage |-> "add", job |-> j, uuid |-> u].job = j
BY DEF CarriesOf

LEMMA GotoCarries ==
  ASSUME NEW r, ctx[r] \in Request, NEW s \in RequestStages
  PROVE  /\ [ctx[r] EXCEPT !.stage = s].stage = s
         /\ CarriesOf([ctx[r] EXCEPT !.stage = s]) =
              IF s \in {"created", "enqueue"} \cup Cascading /\ ctx[r].op # "delete"
              THEN {Target(r)} ELSE {}
<1> DEFINE c == [ctx[r] EXCEPT !.stage = s]
<1>1. /\ c.stage = s /\ c.op = ctx[r].op /\ c.mem = ctx[r].mem
      /\ c.newData = ctx[r].newData /\ c.newVis = ctx[r].newVis
  BY GotoFields
<1>2. s # "add"
  BY DEF RequestStages, Cascading, Lookups
<1> HIDE DEF c
<1>3. CarriesOf(c) = IF s \in {"created", "enqueue"} \cup Cascading /\ ctx[r].op # "delete"
                     THEN {Target(r)} ELSE {}
  BY <1>1, <1>2 DEF CarriesOf, Target
<1> QED
  BY <1>1, <1>3 DEF c

LEMMA HitCarries ==
  ASSUME NEW r, ctx[r] \in Request, NEW u
  PROVE  /\ [ctx[r] EXCEPT !.stage = "edges", !.found = u].stage = "edges"
         /\ CarriesOf([ctx[r] EXCEPT !.stage = "edges", !.found = u]) =
              IF ctx[r].op # "delete" THEN {Target(r)} ELSE {}
<1> DEFINE c == [ctx[r] EXCEPT !.stage = "edges", !.found = u]
<1>1. /\ c.stage = "edges" /\ c.op = ctx[r].op /\ c.mem = ctx[r].mem
      /\ c.newData = ctx[r].newData /\ c.newVis = ctx[r].newVis
  BY HitFields
<1> HIDE DEF c
<1>2. CarriesOf(c) = IF ctx[r].op # "delete" THEN {Target(r)} ELSE {}
  BY <1>1 DEF CarriesOf, Target, Cascading
<1> QED
  BY <1>1, <1>2 DEF c

LEMMA RequestCarries ==
  ASSUME NEW r, ctx[r].stage \in RequestStages
  PROVE  Carries(r) = IF ctx[r].stage \in {"created", "enqueue"} \cup Cascading
                           /\ ctx[r].op # "delete"
                      THEN {Target(r)} ELSE {}
BY DEF Carries, RequestStages, Cascading, Lookups

\* A slot that reads no row and runs no job
Onward(c) == c.stage \notin {"patch", "upsert", "add", "stamp"}

LEMMA IdleOnward == Onward(Idle)
BY DEF Onward, Idle

\* A cascade carries on what it carried.
LEMMA CascadeCarries ==
  ASSUME NEW r, ctx[r] \in Request, Cascade(r)
  PROVE  \E c : Step(r, c) /\ Onward(c) /\ CarriesOf(c) = Carries(r)
<1>1. /\ ctx[r].stage \in RequestStages
      /\ Carries(r) = IF ctx[r].op # "delete" THEN {Target(r)} ELSE {}
  BY CascadeMoves, RequestCarries DEF RequestStages
<1>2. ASSUME NEW s \in {"enqueue"} \cup Cascading, Goto(r, s),
             s = "enqueue" => ctx[r].op # "delete"
      PROVE  \E c : Step(r, c) /\ Onward(c) /\ CarriesOf(c) = Carries(r)
  <2> DEFINE c == [ctx[r] EXCEPT !.stage = s]
  <2>1. s \in RequestStages
    BY DEF RequestStages
  <2>2. Step(r, c) /\ c.stage = s /\ CarriesOf(c) = Carries(r)
    BY <1>1, <1>2, <2>1, GotoCarries DEF Goto
  <2> HIDE DEF c
  <2> QED
    BY <2>2 DEF Onward, Cascading, Lookups
<1>3. ASSUME NEW u, Step(r, [ctx[r] EXCEPT !.stage = "edges", !.found = u])
      PROVE  \E c : Step(r, c) /\ Onward(c) /\ CarriesOf(c) = Carries(r)
  <2> DEFINE c == [ctx[r] EXCEPT !.stage = "edges", !.found = u]
  <2>1. Step(r, c) /\ c.stage = "edges" /\ CarriesOf(c) = Carries(r)
    BY <1>1, <1>3, HitCarries
  <2> HIDE DEF c
  <2> QED
    BY <2>1 DEF Onward
<1>4. CASE EndCascade(r)
  BY <1>1, <1>2, <1>4, EndCascadeMoves, IdleCarries, IdleOnward
<1> QED
  BY <1>2, <1>3, <1>4, CascadeMoves DEF Cascading, Lookups

\* A committed patch carries its target, if it has anything to tell the graph.
LEMMA AfterCommitCarries ==
  ASSUME Typed, NEW r \in Reqs, ctx[r].stage \in {"patch", "upsert"}, AfterCommit(r)
  PROVE  /\ Carries(r) = {}
         /\ \E c : /\ Step(r, c) /\ Onward(c)
                   /\ CarriesOf(c) = IF Migrates(r) \/ EditsContent(r)
                                     THEN {Target(r)} ELSE {}
<1>1. r \in Procs /\ ctx[r].stage \in RequestStages
  BY DEF Procs, RequestStages
<1>2. ctx[r] \in Request /\ ctx[r].op = "patch"
  BY <1>1, CtxByStage DEF OpsFit, OpFits, Typed
<1>3. Carries(r) = {}
  BY <1>1, RequestCarries DEF Cascading, Lookups
<1>4. ASSUME NEW s \in {"by uuid", "by content", "enqueue"}, Goto(r, s)
      PROVE  \E c : Step(r, c) /\ Onward(c) /\ CarriesOf(c) = {Target(r)}
  <2> DEFINE c == [ctx[r] EXCEPT !.stage = s]
  <2>1. s \in RequestStages /\ s \in {"enqueue"} \cup Cascading
    BY DEF RequestStages, Cascading, Lookups
  <2>2. Step(r, c) /\ c.stage = s /\ CarriesOf(c) = {Target(r)}
    BY <1>2, <1>4, <2>1, GotoCarries DEF Goto
  <2> HIDE DEF c
  <2> QED
    BY <2>2 DEF Onward
<1> QED
  BY <1>3, <1>4, AfterCommitMoves, IdleCarries, IdleOnward

-----------------------------------------------------------------------------
(* Provenance *)

\* EpisodeProvenance is not inductive: an episode is added from a job, and a job
\* is made from a request.  Each of these carries what a request committed; a run of
\* enrich_graph that has yet to stamp may be killed and its job run again.
SlotGranted(c, G) ==
  /\ CarriesOf(c) \subseteq G
  /\ c.stage = "stamp" => Args(c.job) \in G

SlotsGranted == \A p \in Procs : SlotGranted(ctx[p], granted)
JobsGranted == \A j \in queue : Args(j) \in granted

Provenance ==
  /\ JobsGranted
  /\ SlotsGranted
  /\ EpisodeProvenance

LEMMA StepGranted ==
  ASSUME TypeOK, SlotsGranted, NEW p \in Procs, NEW c, Step(p, c),
         granted \subseteq granted', SlotGranted(c, granted')
  PROVE  SlotsGranted'
<1>1. \A q \in Procs : ctx'[q] = IF q = p THEN c ELSE ctx[q]
  BY StepSlots
<1>2. \A q \in Procs : SlotGranted(ctx[q], granted')
  BY DEF SlotsGranted, SlotGranted
<1> QED
  BY <1>1, <1>2 DEF SlotsGranted

LEMMA IdleGranted == ASSUME NEW G PROVE SlotGranted(Idle, G)
BY IdleCarries DEF SlotGranted, Idle

LEMMA OnwardGranted ==
  ASSUME NEW c, Onward(c), NEW G, CarriesOf(c) \subseteq G
  PROVE  SlotGranted(c, G)
BY DEF SlotGranted, Onward

\* The rest of Provenance survives a step that adds no episode and no job.
LEMMA ProvenanceFrame ==
  ASSUME Provenance, SlotsGranted', granted \subseteq granted',
         episodes' \subseteq episodes, queue' \subseteq queue
  PROVE  Provenance'
BY DEF Provenance, JobsGranted, EpisodeProvenance

LEMMA NewRequestProvenance ==
  ASSUME TypeOK, Provenance, NEW r \in Reqs, NewRequest(r)
  PROVE  Provenance'
<1>1. r \in Procs
  BY DEF Procs
<1>2. ASSUME NEW m \in Ids, NEW data \in Contents, NEW vis \in Visibilities,
             NEW override \in BOOLEAN, Store(r, m, data, vis, override)
      PROVE  Provenance'
  <2> DEFINE effective == GatedVisibility(data, vis, override)
             c == [op |-> "store", stage |-> "created", mem |-> m, data |-> data,
                   vis |-> vis, ref |-> NoRef, newData |-> data, newVis |-> effective,
                   found |-> NoRef]
  <2>1. /\ CarriesOf(c) \subseteq {RowState(m, data, effective)}
        /\ c.stage = "created"
    BY DEF CarriesOf
  <2>2. Step(r, c) /\ granted' = granted \cup {RowState(m, data, effective)}
    BY <1>2 DEF Store
  <2>3. SlotsGranted'
    <3> HIDE DEF c, effective
    <3>1. SlotGranted(c, granted')
      BY <2>1, <2>2 DEF SlotGranted
    <3> QED
      BY <1>1, <2>2, <3>1, StepGranted DEF Provenance
  <2> QED
    BY <1>2, <2>2, <2>3, ProvenanceFrame DEF Store, graphVars
<1>3. ASSUME NEW m \in Ids, NEW data \in Contents, NEW vis \in Visibilities,
             PatchRead(r, m, data, vis)
      PROVE  Provenance'
  <2> DEFINE c == [op |-> "patch", stage |-> "patch", mem |-> m,
                   data |-> rows[m].data, vis |-> rows[m].vis, ref |-> rows[m].ref,
                   newData |-> data, newVis |-> vis, found |-> NoRef]
  <2>1. SlotGranted(c, granted') /\ Step(r, c)
    BY <1>3 DEF PatchRead, SlotGranted, CarriesOf, Cascading, Lookups
  <2>2. UNCHANGED <<granted, episodes, queue>>
    BY <1>3 DEF PatchRead, history, graphVars
  <2>3. SlotsGranted'
    <3> HIDE DEF c
    <3> QED
      BY <1>1, <2>1, <2>2, StepGranted DEF Provenance
  <2> QED
    BY <2>2, <2>3, ProvenanceFrame
<1>4. ASSUME NEW m \in Ids, DeleteRead(r, m)
      PROVE  Provenance'
  <2> DEFINE c == [op |-> "delete", stage |-> "delete", mem |-> m,
                   data |-> rows[m].data, vis |-> rows[m].vis, ref |-> rows[m].ref,
                   newData |-> rows[m].data, newVis |-> rows[m].vis, found |-> NoRef]
  <2>1. SlotGranted(c, granted') /\ Step(r, c)
    BY <1>4 DEF DeleteRead, SlotGranted, CarriesOf, Cascading, Lookups
  <2>2. UNCHANGED <<granted, episodes, queue>>
    BY <1>4 DEF DeleteRead, history, graphVars
  <2>3. SlotsGranted'
    <3> HIDE DEF c
    <3> QED
      BY <1>1, <2>1, <2>2, StepGranted DEF Provenance
  <2> QED
    BY <2>2, <2>3, ProvenanceFrame
<1> QED
  BY <1>2, <1>3, <1>4 DEF NewRequest

\* The two jobs a request can make carry its target.
LEMMA JobArgs ==
  ASSUME NEW r
  PROVE  Args(StoreJob(r)) = Target(r) /\ Args(EditJob(r)) = Target(r)
BY DEF Args, StoreJob, EditJob, Target, RowState

LEMMA RequestStepProvenance ==
  ASSUME Typed, Provenance, NEW r \in Reqs, RequestStep(r)
  PROVE  Provenance'
<1>1. r \in Procs /\ ctx[r] \in Request /\ ctx[r].stage \in RequestStages
  BY RequestStepSlot DEF Typed
<1>2. SlotsGranted /\ TypeOK /\ OpFits(ctx[r]) /\ Carries(r) \subseteq granted
  BY <1>1, CarriesIsOf DEF Provenance, SlotsGranted, SlotGranted, Typed, OpsFit
<1>3. ASSUME granted' = granted, Step(r, Idle) PROVE SlotsGranted'
  BY <1>1, <1>2, <1>3, IdleGranted, StepGranted
<1>4. ASSUME ctx[r].stage \in {"created", "enqueue"} PROVE Target(r) \in granted
  BY <1>1, <1>2, <1>4, RequestCarries DEF OpFits
<1>5. CASE EnqueueStored(r)
  <2>1. SlotsGranted' /\ Target(r) \in granted
    BY <1>3, <1>4, <1>5 DEF EnqueueStored, history
  <2> QED
    BY <1>5, <2>1, JobArgs
    DEF EnqueueStored, history, graphVars, Provenance, JobsGranted, EpisodeProvenance
<1>6. CASE EnqueueStoredFails(r)
  <2> DEFINE c == [stage |-> "add", job |-> StoreJob(r), uuid |-> NoRef]
  <2>1. granted' = granted /\ Step(r, c) /\ Target(r) \in granted
    BY <1>4, <1>6 DEF EnqueueStoredFails, history
  <2>2. CarriesOf(c) = {Target(r)} /\ c.stage = "add"
    BY JobArgs, AddCarries
  <2>3. SlotsGranted'
    <3> HIDE DEF c
    <3>1. SlotGranted(c, granted')
      BY <2>1, <2>2 DEF SlotGranted
    <3> QED
      BY <1>1, <1>2, <2>1, <3>1, StepGranted
  <2> QED
    BY <1>6, <2>1, <2>3, ProvenanceFrame DEF EnqueueStoredFails, graphVars
<1>7. CASE PatchMetadata(r) \/ PatchUpsert(r)
  <2>1. /\ granted' = granted \cup {Target(r)} /\ AfterCommit(r)
        /\ ctx[r].stage \in {"patch", "upsert"} /\ UNCHANGED <<episodes, queue>>
    BY <1>7 DEF PatchMetadata, PatchUpsert, Grant, graphVars
  <2>2. PICK c : Step(r, c) /\ Onward(c) /\ CarriesOf(c) \subseteq {Target(r)}
    BY <2>1, AfterCommitCarries
  <2>3. SlotsGranted'
    BY <1>1, <1>2, <2>1, <2>2, OnwardGranted, StepGranted
  <2> QED
    BY <2>1, <2>3, ProvenanceFrame
<1>8. CASE PatchUpdate(r)
  <2>1. UNCHANGED <<granted, episodes, queue>>
    BY <1>8 DEF PatchUpdate, history, graphVars
  <2>2. CASE Goto(r, "upsert")
    <3> DEFINE c == [ctx[r] EXCEPT !.stage = "upsert"]
    <3>1. "upsert" \in RequestStages
      BY DEF RequestStages
    <3>2. Step(r, c) /\ c.stage = "upsert" /\ CarriesOf(c) = {}
      BY <1>1, <2>2, <3>1, GotoCarries DEF Goto, Cascading, Lookups
    <3> HIDE DEF c
    <3>3. SlotsGranted'
      BY <1>1, <1>2, <2>1, <3>2, StepGranted DEF SlotGranted
    <3> QED
      BY <2>1, <3>3, ProvenanceFrame
  <2> QED
    BY <1>3, <1>8, <2>1, <2>2, ProvenanceFrame DEF PatchUpdate
<1>9. CASE PatchEnqueue(r)
  <2>1. SlotsGranted' /\ Target(r) \in granted /\ granted' = granted
    BY <1>3, <1>4, <1>9 DEF PatchEnqueue
  <2>2. queue' \subseteq queue \cup {EditJob(r)} /\ episodes' = episodes
    BY <1>9 DEF PatchEnqueue, graphVars
  <2> QED
    BY <2>1, <2>2, JobArgs DEF Provenance, JobsGranted, EpisodeProvenance
<1>10. CASE PatchEnqueueFails(r)
  BY <1>3, <1>10, ProvenanceFrame DEF PatchEnqueueFails, Settle, graphVars
<1>11. CASE DeleteRow(r)
  <2>1. UNCHANGED <<granted, episodes, queue>> /\ ctx[r].stage = "delete"
    BY <1>11 DEF DeleteRow, history, graphVars
  <2>2. ASSUME NEW s \in {"by uuid", "by content"}, Goto(r, s) PROVE SlotsGranted'
    \* what it carries it would carry as a delete does: nothing, or what it carried
    <3> DEFINE c == [ctx[r] EXCEPT !.stage = s]
    <3>1. s \in RequestStages
      BY DEF RequestStages, Cascading, Lookups
    <3>2. Step(r, c) /\ c.stage = s /\ (ctx[r].op = "delete" => CarriesOf(c) = {})
      BY <1>1, <2>2, <3>1, GotoCarries DEF Goto
    <3>3. ctx[r].op = "delete"
      BY <1>2, <2>1 DEF OpFits
    <3> HIDE DEF c
    <3> QED
      BY <1>1, <1>2, <2>1, <3>2, <3>3, StepGranted DEF SlotGranted
  <2> QED
    BY <1>3, <1>11, <2>1, <2>2, StartCascadeMoves, ProvenanceFrame DEF DeleteRow
<1>12. CASE Cascade(r)
  <2>1. granted' = granted /\ queue' = queue /\ episodes' \subseteq episodes
    BY <1>12, CascadeMoves
  <2>2. PICK c : Step(r, c) /\ Onward(c) /\ CarriesOf(c) = Carries(r)
    BY <1>1, <1>12, CascadeCarries
  <2>3. SlotsGranted'
    BY <1>1, <1>2, <2>1, <2>2, OnwardGranted, StepGranted
  <2> QED
    BY <2>1, <2>3, ProvenanceFrame
<1> QED
  BY <1>5, <1>6, <1>7, <1>8, <1>9, <1>10, <1>11, <1>12 DEF RequestStep

LEMMA EnrichStepProvenance ==
  ASSUME TypeOK, Provenance, NEW p \in Procs, EnrichStep(p)
  PROVE  Provenance'
<1>1. ctx[p] \in Enrichment
  BY EnrichStepSlot
<1>2. SlotsGranted /\ Args(ctx[p].job) \in granted
  BY EnrichStepSlot DEF Provenance, SlotsGranted, SlotGranted, CarriesOf
<1>3. granted' = granted /\ queue' = queue
  BY DEF EnrichStep, EnrichAdd, AddUnanswered, EnrichFails, EnrichStamp, Settle, history
<1>4. ASSUME SlotsGranted', episodes' = episodes \cup {NewEpisode(ctx[p].job)}
      PROVE  Provenance'
  <2> DEFINE e == NewEpisode(ctx[p].job)
  <2>1. \E h \in granted : h.mem = e.mem /\ h.data = e.data /\ GroupOf(h.vis) = e.group
    BY <1>2 DEF Args, RowState, NewEpisode
  <2> HIDE DEF e
  <2> QED
    BY <1>3, <1>4, <2>1 DEF Provenance, JobsGranted, EpisodeProvenance, e
<1>5. CASE EnrichAdd(p)
  <2> DEFINE c == [ctx[p] EXCEPT !.stage = "stamp", !.uuid = nextUuid]
  <2>1. c.stage = "stamp" /\ c.job = ctx[p].job
    BY <1>1 DEF Enrichment
  <2>2. Step(p, c) /\ episodes' = episodes \cup {NewEpisode(ctx[p].job)}
    BY <1>5 DEF EnrichAdd
  <2>3. SlotsGranted'
    <3> HIDE DEF c
    <3>1. SlotGranted(c, granted')
      BY <1>2, <1>3, <2>1 DEF SlotGranted, CarriesOf, Cascading, Lookups
    <3> QED
      BY <1>2, <1>3, <2>2, <3>1, StepGranted
  <2> QED
    BY <1>4, <2>2, <2>3
<1>6. CASE AddUnanswered(p)
  <2>1. UNCHANGED ctx /\ episodes' = episodes \cup {NewEpisode(ctx[p].job)}
    BY <1>6 DEF AddUnanswered
  <2>2. SlotsGranted'
    BY <1>2, <1>3, <2>1 DEF SlotsGranted
  <2> QED
    BY <1>4, <2>1, <2>2
<1>7. CASE EnrichFails(p) \/ EnrichStamp(p)
  <2>1. SlotsGranted'
    BY <1>2, <1>3, <1>7, IdleGranted, StepGranted DEF EnrichFails, EnrichStamp
  <2> QED
    BY <1>3, <1>7, <2>1, ProvenanceFrame DEF EnrichFails, EnrichStamp, graphVars
<1> QED
  BY <1>5, <1>6, <1>7 DEF EnrichStep

LEMMA ProvenanceNext == Typed /\ Provenance /\ [Next]_vars => Provenance'
<1> SUFFICES ASSUME Typed, Provenance, [Next]_vars PROVE Provenance'
  OBVIOUS
<1>0. TypeOK /\ SlotsGranted
  BY DEF Typed, Provenance
<1>1. ASSUME NEW r \in Reqs, NewRequest(r) PROVE Provenance'
  BY <1>0, <1>1, NewRequestProvenance
<1>2. ASSUME NEW r \in Reqs, RequestStep(r) PROVE Provenance'
  BY <1>2, RequestStepProvenance
<1>3. ASSUME NEW p \in Procs, EnrichStep(p) PROVE Provenance'
  BY <1>0, <1>3, EnrichStepProvenance
<1>4. ASSUME NEW r \in Reqs, RequestKilled(r) PROVE Provenance'
  <2>1. SlotsGranted'
    BY <1>0, <1>4, IdleGranted, StepGranted DEF RequestKilled, Procs
  <2> QED
    BY <1>4, <2>1, ProvenanceFrame DEF RequestKilled, graphVars
<1>5. ASSUME NEW w \in Workers, WorkerKilled(w) PROVE Provenance'
  <2>1. Args(ctx[w].job) \in granted
    BY <1>0, <1>5 DEF WorkerKilled, SlotsGranted, SlotGranted, CarriesOf, Procs
  <2>2. SlotsGranted'
    BY <1>0, <1>5, IdleGranted, StepGranted DEF WorkerKilled, history, Procs
  <2> QED
    BY <1>5, <2>1, <2>2
    DEF WorkerKilled, history, graphVars, Provenance, JobsGranted, EpisodeProvenance
<1>6. ASSUME NEW w \in Workers, NEW j \in Job, EnrichStart(w, j) PROVE Provenance'
  <2> DEFINE c == [stage |-> "add", job |-> j, uuid |-> NoRef]
  <2>1. Args(j) \in granted /\ granted' = granted
    BY <1>6 DEF EnrichStart, Settle, history, Provenance, JobsGranted
  <2>2. SlotGranted(c, granted)
    BY <2>1, AddCarries DEF SlotGranted
  <2>3. Step(w, c) \/ UNCHANGED ctx
    BY <1>6 DEF EnrichStart
  <2>4. SlotsGranted'
    <3> HIDE DEF c
    <3> QED
      BY <1>0, <2>1, <2>2, <2>3, StepGranted DEF Procs, SlotsGranted
  <2> QED
    BY <1>6, <2>1, <2>4, ProvenanceFrame DEF EnrichStart, graphVars
<1>7. ASSUME NEW j \in Job, ResultExpires(j) PROVE Provenance'
  BY <1>7 DEF ResultExpires, history, graphVars, Provenance, JobsGranted, SlotsGranted,
     EpisodeProvenance
<1>8. CASE UNCHANGED vars
  BY <1>8 DEF vars, Provenance, JobsGranted, SlotsGranted, EpisodeProvenance
<1> QED
  BY <1>1, <1>2, <1>3, <1>4, <1>5, <1>6, <1>7, <1>8 DEF Next, WorkerStep, Procs

\* Every episode of the graph is what one accepted request made of its memory:
\* whatever is queued, coalesced, retried, killed or edited meanwhile, nothing is
\* asserted in the shared pool that no request shared.
THEOREM ProvenanceCorrect == Spec => []EpisodeProvenance
<1>1. Init => Provenance
  <2>1. \A p \in Procs : SlotGranted(Idle, {})
    BY IdleGranted
  <2> QED
    BY <2>1 DEF Init, Provenance, JobsGranted, SlotsGranted, EpisodeProvenance, Procs
<1>2. Typed /\ Provenance /\ [Next]_vars => Provenance'
  BY ProvenanceNext
<1>3. Provenance => EpisodeProvenance
  BY DEF Provenance
<1> QED
  BY <1>1, <1>2, <1>3, TypedInvariant, PTL DEF Spec

-----------------------------------------------------------------------------
(* What is on its way to the graph *)

QueuedArgs == {Args(j) : j \in queue}

\* A step of one slot takes nothing off the way but what that slot carried and what
\* left the queue.
LEMMA PendingAfter ==
  ASSUME TypeOK, NEW p \in Procs, NEW c, Step(p, c)
  PROVE  /\ Carries(p) \subseteq Pending
         /\ CarriesOf(c) \subseteq Pending'
         /\ QueuedArgs' \subseteq Pending'
         /\ \A a \in Pending : \/ a \in Pending'
                               \/ a \in Carries(p)
                               \/ \E j \in queue \ queue' : a = Args(j)
<1> DEFINE Q == QueuedArgs'
           C(q) == Carries(q)'
<1>1. /\ Pending = {Args(j) : j \in queue} \cup UNION {Carries(q) : q \in Procs}
      /\ Pending' = Q \cup UNION {C(q) : q \in Procs}
      /\ Q = {Args(j) : j \in queue'}
  BY DEF Pending, Procs, QueuedArgs, Args
<1>2. \A q \in Procs : C(q) = IF q = p THEN CarriesOf(c) ELSE Carries(q)
  BY StepSlots, CarriesIsOf
<1> HIDE DEF Q, C
<1>3. ASSUME NEW a \in Pending, a \notin Carries(p),
             ~ \E j \in queue \ queue' : a = Args(j)
      PROVE  a \in Pending'
  <2>1. CASE a \in {Args(j) : j \in queue}
    BY <1>1, <1>3, <2>1
  <2>2. CASE a \notin {Args(j) : j \in queue}
    <3>1. PICK q \in Procs : a \in Carries(q)
      BY <1>1, <2>2
    <3>2. a \in C(q)
      BY <1>2, <1>3, <3>1
    <3> QED
      BY <1>1, <3>2
  <2> QED
    BY <2>1, <2>2
<1>4. Carries(p) \subseteq Pending
  BY <1>1
<1>5. CarriesOf(c) \subseteq Pending'
  <2>1. C(p) = CarriesOf(c)
    BY <1>2
  <2> QED
    BY <1>1, <2>1
<1>6. QueuedArgs' \subseteq Pending'
  BY <1>1 DEF Q
<1> QED
  BY <1>3, <1>4, <1>5, <1>6

\* A step of no slot, that leaves the queue alone, leaves what is on its way alone.
LEMMA PendingStays ==
  ASSUME UNCHANGED <<ctx, queue>>
  PROVE  Pending' = Pending
BY DEF Pending, Carries, Target, Args, RowState

-----------------------------------------------------------------------------
(* One way to lose an enrichment in silence *)

AccountedFor == settled \cup Pending \cup killed

\* What a job was queued for: no longer up to a request
Running == {Args(ctx[w].job) : w \in {v \in Workers : ctx[v].stage = "add"}}
Underway == settled \cup QueuedArgs \cup Running

\* The text and the tier are each accounted for, perhaps by two different requests
Covered(m, data, vis) ==
  /\ \E a \in AccountedFor : a.mem = m /\ a.data = data
  /\ \E a \in AccountedFor : a.mem = m /\ a.vis = vis

\* EnrichmentAccountedFor is not inductive.  A patch that changes neither the text
\* nor the partition enqueues nothing: the snapshot it read has to be covered
\* already.  An edit whose job id ARQ still knows enqueues nothing either: the job
\* of that id must be under way, and not merely the target of this same edit.
RowsCovered == \A m \in Ids : Live(m) => Covered(m, rows[m].data, rows[m].vis)
SnapshotsCovered ==
  \A r \in Procs : ctx[r].stage \in {"patch", "upsert"}
    => Covered(ctx[r].mem, ctx[r].data, ctx[r].vis)
KeptUnderway == \A j \in kept : Args(j) \in Underway

Accounting == RowsCovered /\ SnapshotsCovered /\ KeptUnderway

\* What is accounted for stays so, and what is under way stays under way.
Monotone == AccountedFor \subseteq AccountedFor' /\ Underway \subseteq Underway'

LEMMA RunningIsCarried ==
  ASSUME NEW w \in Workers, ctx[w].stage = "add"
  PROVE  Args(ctx[w].job) \in Pending
BY DEF Pending, Carries

LEMMA UnderwayAccounted == Underway \subseteq AccountedFor /\ Underway' \subseteq AccountedFor'
<1>1. QueuedArgs \subseteq Pending /\ QueuedArgs' \subseteq Pending'
  BY DEF QueuedArgs, Pending, Args
<1>2. Running \subseteq Pending
  BY RunningIsCarried DEF Running
<1>3. Running' \subseteq Pending'
  <2>1. Running' = {Args(ctx'[w].job) : w \in {v \in Workers : ctx'[v].stage = "add"}}
    BY DEF Running, Args
  <2>2. ASSUME NEW w \in Workers, ctx'[w].stage = "add"
        PROVE  Args(ctx'[w].job) \in Pending'
    BY <2>2 DEF Pending, Carries, Args
  <2> QED
    BY <2>1, <2>2
<1> QED
  BY <1>1, <1>2, <1>3 DEF Underway, AccountedFor

LEMMA StepMonotone ==
  ASSUME TypeOK, NEW p \in Procs, NEW c, Step(p, c),
         settled \subseteq settled', killed \subseteq killed',
         Carries(p) \subseteq AccountedFor',
         \A j \in queue \ queue' : Args(j) \in Underway',
         p \in Workers /\ ctx[p].stage = "add" => Args(ctx[p].job) \in Underway'
  PROVE  Monotone
<1>1. ASSUME NEW a \in Underway PROVE a \in Underway'
  <2>1. CASE a \in settled
    BY <2>1 DEF Underway
  <2>2. ASSUME NEW j \in queue, a = Args(j) PROVE a \in Underway'
    <3>1. j \in queue' => a \in QueuedArgs'
      BY <2>2 DEF QueuedArgs, Args
    <3> QED
      BY <2>2, <3>1 DEF Underway
  <2>3. ASSUME NEW w \in Workers, ctx[w].stage = "add", a = Args(ctx[w].job)
        PROVE  a \in Underway'
    <3>1. w # p => ctx'[w] = ctx[w]
      BY StepSlots DEF Procs
    <3>2. w # p => a \in Running'
      BY <2>3, <3>1 DEF Running, Args
    <3> QED
      BY <2>3, <3>2 DEF Underway
  <2> QED
    BY <2>1, <2>2, <2>3 DEF Underway, QueuedArgs, Running
<1>2. AccountedFor \subseteq AccountedFor'
  <2>1. ASSUME NEW a \in Pending PROVE a \in AccountedFor'
    <3>1. CASE \E j \in queue \ queue' : a = Args(j)
      BY <3>1, UnderwayAccounted
    <3> QED
      BY <3>1, PendingAfter DEF AccountedFor
  <2> QED
    BY <2>1 DEF AccountedFor
<1> QED
  BY <1>1, <1>2 DEF Monotone

LEMMA CoveredOnward ==
  ASSUME Monotone, NEW m, NEW data, NEW vis, Covered(m, data, vis)
  PROVE  Covered(m, data, vis)'
BY DEF Monotone, Covered

LEMMA SnapshotsOnward ==
  ASSUME TypeOK, SnapshotsCovered, Monotone, NEW p \in Procs, NEW c, Step(p, c),
         c.stage \in {"patch", "upsert"} => Covered(c.mem, c.data, c.vis)
  PROVE  SnapshotsCovered'
<1> SUFFICES ASSUME NEW r \in Procs, ctx'[r].stage \in {"patch", "upsert"}
             PROVE  Covered(ctx[r].mem, ctx[r].data, ctx[r].vis)'
  BY DEF SnapshotsCovered
<1>1. ctx'[r] = IF r = p THEN c ELSE ctx[r]
  BY StepSlots
<1>2. PICK m, data, vis : m = ctx'[r].mem /\ data = ctx'[r].data /\ vis = ctx'[r].vis
  OBVIOUS
<1>3. Covered(m, data, vis)
  BY <1>1, <1>2 DEF SnapshotsCovered
<1>4. Covered(m, data, vis)'
  BY <1>3, CoveredOnward
<1> QED
  BY <1>2, <1>4 DEF Covered

LEMMA RowsOnward ==
  ASSUME RowsCovered, Monotone,
         \A m \in Ids : rows'[m].state = "live" =>
           rows[m].state = "live" /\ rows'[m].data = rows[m].data /\ rows'[m].vis = rows[m].vis
  PROVE  RowsCovered'
<1> SUFFICES ASSUME NEW m \in Ids, rows'[m].state = "live"
             PROVE  Covered(m, rows[m].data, rows[m].vis)'
  BY DEF RowsCovered, Live
<1>1. Covered(m, rows[m].data, rows[m].vis)
  BY DEF RowsCovered, Live
<1>2. PICK data, vis : data = rows[m].data /\ vis = rows[m].vis
  OBVIOUS
<1>3. Covered(m, data, vis)'
  BY <1>1, <1>2, CoveredOnward
<1> QED
  BY <1>2, <1>3 DEF Covered

LEMMA KeptOnward ==
  ASSUME KeptUnderway, Monotone, \A j \in kept' \ kept : Args(j) \in Underway'
  PROVE  KeptUnderway'
<1> SUFFICES ASSUME NEW j \in kept' PROVE Args(j) \in Underway'
  BY DEF KeptUnderway, Args
<1>1. CASE j \in kept
  BY <1>1 DEF KeptUnderway, Monotone
<1> QED
  BY <1>1

\* A slot that goes idle, or to a stage of a request that has committed, adds no
\* snapshot.
LEMMA AccountingFrame ==
  ASSUME TypeOK, Accounting, Monotone, NEW p \in Procs, NEW c, Step(p, c),
         c.stage \notin {"patch", "upsert"}, UNCHANGED <<rows, kept>>
  PROVE  Accounting'
<1>1. RowsCovered'
  BY RowsOnward DEF Accounting, RowsCovered, Live
<1>2. SnapshotsCovered'
  BY SnapshotsOnward DEF Accounting
<1>3. KeptUnderway'
  BY KeptOnward DEF Accounting
<1> QED
  BY <1>1, <1>2, <1>3 DEF Accounting

LEMMA StageIdle == Idle.stage = "idle"
BY DEF Idle

LEMMA NewRequestAccounting ==
  ASSUME TypeOK, Accounting, NEW r \in Reqs, NewRequest(r)
  PROVE  Accounting'
<1>1. r \in Procs /\ ctx[r] = Idle
  BY NewRequestFrame DEF Procs
<1>2. Carries(r) = {} /\ ctx[r].stage # "add"
  BY <1>1, CarriesIsOf, IdleCarries, StageIdle
<1>3. ASSUME NEW m \in Ids, NEW data \in Contents, NEW vis \in Visibilities,
             NEW override \in BOOLEAN, Store(r, m, data, vis, override)
      PROVE  Accounting'
  <2> DEFINE effective == GatedVisibility(data, vis, override)
             c == [op |-> "store", stage |-> "created", mem |-> m, data |-> data,
                   vis |-> vis, ref |-> NoRef, newData |-> data, newVis |-> effective,
                   found |-> NoRef]
             a == RowState(m, data, effective)
             new == [state |-> "live", data |-> data, vis |-> effective, ref |-> NoRef]
  <2>1. /\ Step(r, c) /\ rows' = [rows EXCEPT ![m] = new]
        /\ UNCHANGED <<settled, killed, queue, kept>>
    BY <1>3 DEF Store
  <2>2. CarriesOf(c) = {a} /\ c.stage = "created"
    BY DEF CarriesOf
  <2>3. a.mem = m /\ a.data = data /\ a.vis = effective
    BY DEF RowState
  <2>4. new.state = "live" /\ new.data = data /\ new.vis = effective
    OBVIOUS
  <2> HIDE DEF c, a, new, effective
  <2>5. Monotone
    BY <1>1, <1>2, <2>1, StepMonotone
  <2>6. a \in AccountedFor'
    BY <1>1, <2>1, <2>2, PendingAfter DEF AccountedFor
  <2>7. RowsCovered'
    <3> SUFFICES ASSUME NEW n \in Ids, rows'[n].state = "live"
                 PROVE  Covered(n, rows[n].data, rows[n].vis)'
      BY DEF RowsCovered, Live
    <3>1. CASE n = m
      <4>1. rows'[n] = new
        BY <2>1, <3>1 DEF TypeOK
      <4> QED
        BY <2>3, <2>4, <2>6, <3>1, <4>1 DEF Covered
    <3>2. CASE n # m
      <4>1. rows'[n] = rows[n]
        BY <2>1, <3>2 DEF TypeOK
      <4>2. Covered(n, rows[n].data, rows[n].vis)
        BY <4>1 DEF Accounting, RowsCovered, Live
      <4>3. PICK d, v : d = rows[n].data /\ v = rows[n].vis
        OBVIOUS
      <4>4. Covered(n, d, v)'
        BY <2>5, <4>2, <4>3, CoveredOnward
      <4> QED
        BY <4>1, <4>3, <4>4 DEF Covered
    <3> QED
      BY <3>1, <3>2
  <2>8. SnapshotsCovered'
    BY <1>1, <2>1, <2>2, <2>5, SnapshotsOnward DEF Accounting
  <2>9. KeptUnderway'
    BY <2>1, <2>5, KeptOnward DEF Accounting
  <2> QED
    BY <2>7, <2>8, <2>9 DEF Accounting
<1>4. ASSUME NEW m \in Ids, NEW data \in Contents, NEW vis \in Visibilities,
             PatchRead(r, m, data, vis)
      PROVE  Accounting'
  <2> DEFINE c == [op |-> "patch", stage |-> "patch", mem |-> m,
                   data |-> rows[m].data, vis |-> rows[m].vis, ref |-> rows[m].ref,
                   newData |-> data, newVis |-> vis, found |-> NoRef]
  <2>1. Step(r, c) /\ UNCHANGED <<rows, settled, killed, queue, kept>>
    BY <1>4 DEF PatchRead, history
  <2>2. c.mem = m /\ c.data = rows[m].data /\ c.vis = rows[m].vis
    OBVIOUS
  <2> HIDE DEF c
  <2>3. Monotone
    BY <1>1, <1>2, <2>1, StepMonotone
  <2>4. Covered(m, rows[m].data, rows[m].vis)
    BY <1>4 DEF PatchRead, Accounting, RowsCovered
  <2>5. SnapshotsCovered'
    BY <1>1, <2>1, <2>2, <2>3, <2>4, SnapshotsOnward DEF Accounting
  <2>6. RowsCovered' /\ KeptUnderway'
    BY <2>1, <2>3, RowsOnward, KeptOnward DEF Accounting
  <2> QED
    BY <2>5, <2>6 DEF Accounting
<1>5. ASSUME NEW m \in Ids, DeleteRead(r, m)
      PROVE  Accounting'
  <2> DEFINE c == [op |-> "delete", stage |-> "delete", mem |-> m,
                   data |-> rows[m].data, vis |-> rows[m].vis, ref |-> rows[m].ref,
                   newData |-> rows[m].data, newVis |-> rows[m].vis, found |-> NoRef]
  <2>1. Step(r, c) /\ UNCHANGED <<rows, settled, killed, queue, kept>>
    BY <1>5 DEF DeleteRead, history
  <2>2. c.stage = "delete"
    OBVIOUS
  <2> HIDE DEF c
  <2>3. Monotone
    BY <1>1, <1>2, <2>1, StepMonotone
  <2> QED
    BY <1>1, <2>1, <2>2, <2>3, AccountingFrame
<1> QED
  BY <1>3, <1>4, <1>5 DEF NewRequest

\* A step that leaves the queue and the slots alone, and reports or kills nothing away.
LEMMA AccountingStays ==
  ASSUME Accounting, UNCHANGED <<rows, queue, ctx, settled, killed>>, kept' \subseteq kept
  PROVE  Accounting'
<1>1. AccountedFor' = AccountedFor /\ Underway' = Underway
  BY PendingStays DEF AccountedFor, Underway, QueuedArgs, Running, Args
<1> QED
  BY <1>1
  DEF Accounting, RowsCovered, SnapshotsCovered, KeptUnderway, Covered, Live, Args

\* enrich_graph: what it held it tried, or reported.
LEMMA EnrichStepAccounting ==
  ASSUME TypeOK, Accounting, NEW p \in Procs, EnrichStep(p)
  PROVE  Accounting'
<1>1. ctx[p] \in Enrichment /\ ctx[p].stage \in {"add", "stamp"}
  BY EnrichStepSlot
<1>2. /\ ctx[p].stage = "add" => Carries(p) = {Args(ctx[p].job)}
      /\ ctx[p].stage = "stamp" => Carries(p) = {}
  BY DEF Carries, Cascading, Lookups
<1>3. CASE EnrichAdd(p)
  <2> DEFINE c == [ctx[p] EXCEPT !.stage = "stamp", !.uuid = nextUuid]
  <2>1. c.stage = "stamp"
    BY <1>1 DEF Enrichment
  <2>2. /\ Step(p, c) /\ settled' = settled \cup {Args(ctx[p].job)}
        /\ ctx[p].stage = "add" /\ UNCHANGED <<rows, kept, queue, killed>>
    BY <1>3 DEF EnrichAdd, Settle
  <2> HIDE DEF c
  <2>3. Monotone
    BY <1>2, <2>2, StepMonotone DEF AccountedFor, Underway
  <2> QED
    BY <2>1, <2>2, <2>3, AccountingFrame
<1>4. CASE AddUnanswered(p)
  BY <1>4, AccountingStays DEF AddUnanswered, history
<1>5. CASE EnrichFails(p)
  <2>1. /\ Step(p, Idle) /\ settled' = settled \cup {Args(ctx[p].job)}
        /\ ctx[p].stage = "add" /\ UNCHANGED <<rows, kept, queue, killed>>
    BY <1>5 DEF EnrichFails, Settle
  <2>2. Monotone
    BY <1>2, <2>1, StepMonotone DEF AccountedFor, Underway
  <2> QED
    BY <2>1, <2>2, StageIdle, AccountingFrame
<1>6. CASE EnrichStamp(p)
  <2>1. /\ Step(p, Idle) /\ ctx[p].stage = "stamp"
        /\ UNCHANGED <<kept, queue, settled, killed>>
    BY <1>6 DEF EnrichStamp, history
  <2>2. Monotone
    BY <1>2, <2>1, StepMonotone
  <2>3. ctx[p].job.mem \in Ids
    BY <1>1 DEF Enrichment, Job
  <2>4. \A m \in Ids : rows'[m].state = "live" =>
          rows[m].state = "live" /\ rows'[m].data = rows[m].data /\ rows'[m].vis = rows[m].vis
    <3>1. CASE UNCHANGED rows
      BY <3>1
    <3>2. CASE Live(ctx[p].job.mem) /\ rows' = [rows EXCEPT ![ctx[p].job.mem].ref = ctx[p].uuid]
      <4> DEFINE k == ctx[p].job.mem
                 new == [rows[k] EXCEPT !.ref = ctx[p].uuid]
      <4>1. rows[k] \in Row
        BY <2>3, <3>2, LiveRow
      <4>2. new.state = rows[k].state /\ new.data = rows[k].data /\ new.vis = rows[k].vis
        BY <4>1 DEF Row
      <4>3. rows' = [rows EXCEPT ![k] = new] /\ k \in Ids
        BY <2>3, <3>2
      <4> HIDE DEF new, k
      <4> QED
        BY <4>2, <4>3 DEF TypeOK
    <3> QED
      BY <1>6, <3>1, <3>2 DEF EnrichStamp
  <2>5. RowsCovered' /\ SnapshotsCovered' /\ KeptUnderway'
    BY <2>1, <2>2, <2>4, StageIdle, RowsOnward, SnapshotsOnward, KeptOnward DEF Accounting
  <2> QED
    BY <2>5 DEF Accounting
<1> QED
  BY <1>3, <1>4, <1>5, <1>6 DEF EnrichStep

\* The worker takes a job, or dies and ARQ runs the job again.
LEMMA WorkerAccounting ==
  ASSUME TypeOK, Accounting, NEW w \in Workers,
         WorkerKilled(w) \/ \E j \in Job : EnrichStart(w, j)
  PROVE  Accounting'
<1>1. w \in Procs
  BY DEF Procs
<1>2. CASE WorkerKilled(w)
  <2>1. /\ Step(w, Idle) /\ queue' = queue \cup {ctx[w].job}
        /\ UNCHANGED <<rows, kept, settled, killed>>
    BY <1>2 DEF WorkerKilled, history
  <2>2. Carries(w) \subseteq {Args(ctx[w].job)}
    BY <1>2 DEF WorkerKilled, Carries, Cascading, Lookups
  <2>3. Args(ctx[w].job) \in QueuedArgs'
    BY <2>1 DEF QueuedArgs, Args
  <2>4. Args(ctx[w].job) \in Underway' /\ Args(ctx[w].job) \in AccountedFor'
    BY <2>3, UnderwayAccounted DEF Underway
  <2>5. Monotone
    BY <1>1, <2>1, <2>2, <2>4, StepMonotone
  <2> QED
    BY <1>1, <2>1, <2>5, StageIdle, AccountingFrame
<1>3. ASSUME NEW j \in Job, EnrichStart(w, j) PROVE Accounting'
  <2>1. /\ ctx[w] = Idle /\ queue' = queue \ {j}
        /\ settled \subseteq settled' /\ UNCHANGED <<rows, kept, killed>>
    BY <1>3 DEF EnrichStart, Settle, history
  <2>2. Carries(w) = {} /\ ctx[w].stage # "add"
    BY <2>1, CarriesIsOf, IdleCarries, StageIdle
  <2>3. CASE Live(j.mem)
    <3> DEFINE c == [stage |-> "add", job |-> j, uuid |-> NoRef]
    <3>1. Step(w, c) /\ c.stage = "add" /\ c.job = j
      BY <1>3, <2>3 DEF EnrichStart
    <3> HIDE DEF c
    <3>2. ctx'[w] = c
      BY <1>1, <3>1, StepSlots
    <3>3. Args(j) \in Running'
      BY <3>1, <3>2 DEF Running, Args
    <3>4. Monotone
      BY <1>1, <2>1, <2>2, <3>1, <3>3, StepMonotone DEF Underway
    <3> QED
      BY <1>1, <2>1, <3>1, <3>4, AccountingFrame
  <2>4. CASE ~Live(j.mem)
    <3>1. Step(w, Idle) /\ Args(j) \in settled'
      BY <1>3, <2>1, <2>4 DEF EnrichStart, Settle, Step, TypeOK
    <3>2. Monotone
      BY <1>1, <2>1, <2>2, <3>1, StepMonotone DEF Underway
    <3> QED
      BY <1>1, <2>1, <3>1, <3>2, StageIdle, AccountingFrame
  <2> QED
    BY <2>3, <2>4
<1> QED
  BY <1>2, <1>3

\* A committed patch leaves its target covered: it goes on to try it, or the
\* target is in the text and the tier of the snapshot.
LEMMA AfterCommitCovered ==
  ASSUME Typed, Accounting, NEW r \in Reqs, ctx[r].stage \in {"patch", "upsert"},
         AfterCommit(r), UNCHANGED <<settled, killed, queue>>
  PROVE  /\ Monotone
         /\ SnapshotsCovered'
         /\ \E a \in AccountedFor' : a.mem = ctx[r].mem /\ a.data = ctx[r].newData
         /\ \E a \in AccountedFor' : a.mem = ctx[r].mem /\ a.vis = ctx[r].newVis
<1>1. r \in Procs /\ ctx[r].stage \in RequestStages /\ ctx[r].stage # "add" /\ TypeOK
  BY DEF Procs, RequestStages, Typed
<1>2. ctx[r] \in Request
  BY <1>1, CtxByStage
<1>3. PICK c : /\ Step(r, c) /\ Onward(c) /\ Carries(r) = {}
               /\ CarriesOf(c) = IF Migrates(r) \/ EditsContent(r)
                                 THEN {Target(r)} ELSE {}
  BY AfterCommitCarries
<1>4. Monotone
  BY <1>1, <1>3, StepMonotone
<1>5. SnapshotsCovered'
  BY <1>1, <1>3, <1>4, SnapshotsOnward DEF Accounting, Onward
<1>6. CASE Migrates(r) \/ EditsContent(r)
  <2>1. Target(r) \in AccountedFor'
    BY <1>1, <1>3, <1>6, PendingAfter DEF AccountedFor
  <2>2. /\ Target(r).mem = ctx[r].mem
        /\ Target(r).data = ctx[r].newData /\ Target(r).vis = ctx[r].newVis
    BY DEF Target, RowState
  <2> QED
    BY <1>4, <1>5, <2>1, <2>2
<1>7. CASE ~Migrates(r) /\ ~EditsContent(r)
  <2>1. ctx[r].newData = ctx[r].data
    BY <1>7 DEF EditsContent
  <2>2. ctx[r].newVis = ctx[r].vis
    BY <1>2, <1>7, RequestFields DEF Migrates, GroupOf, Visibilities
  <2>3. Covered(ctx[r].mem, ctx[r].data, ctx[r].vis)
    BY <1>1 DEF Accounting, SnapshotsCovered
  <2> QED
    BY <1>4, <1>5, <2>1, <2>2, <2>3 DEF Covered, Monotone
<1> QED
  BY <1>6, <1>7

\* What a commit writes is the text and the tier of its target, or the text that was there.
LEMMA CommitWrites ==
  ASSUME TypeOK, NEW r \in Reqs, ctx[r] \in Request, PatchMetadata(r) \/ PatchUpsert(r)
  PROVE  \A m \in Ids : rows'[m].state = "live" =>
           \/ rows'[m] = rows[m]
           \/ /\ m = ctx[r].mem
              /\ rows'[m].vis = ctx[r].newVis
              /\ rows'[m].ref = ctx[r].ref
              /\ \/ rows[m].state = "live" /\ rows'[m].data = rows[m].data
                 \/ rows'[m].data = ctx[r].newData
<1> DEFINE k == ctx[r].mem
<1>1. k \in Ids
  BY RequestFields
<1>2. CASE PatchUpsert(r)
  <2> DEFINE new == [state |-> "live", data |-> ctx[r].newData,
                     vis |-> ctx[r].newVis, ref |-> ctx[r].ref]
  <2>1. rows' = [rows EXCEPT ![k] = new]
    BY <1>2 DEF PatchUpsert
  <2>2. new.data = ctx[r].newData /\ new.vis = ctx[r].newVis /\ new.ref = ctx[r].ref
    OBVIOUS
  <2> HIDE DEF new, k
  <2>3. \A m \in Ids : rows'[m] = IF m = k THEN new ELSE rows[m]
    BY <1>1, <2>1 DEF TypeOK
  <2> QED
    BY <2>2, <2>3 DEF k
<1>3. CASE PatchMetadata(r) /\ Live(k)
  <2> DEFINE new == [rows[k] EXCEPT !.vis = ctx[r].newVis, !.ref = ctx[r].ref]
  <2>1. rows' = [rows EXCEPT ![k] = new]
    BY <1>3 DEF PatchMetadata
  <2>2. new.data = rows[k].data /\ new.vis = ctx[r].newVis /\ new.ref = ctx[r].ref
    BY <1>1, <1>3, LiveRow DEF Row
  <2>3. rows[k].state = "live"
    BY <1>3 DEF Live
  <2> HIDE DEF new, k
  <2>4. \A m \in Ids : rows'[m] = IF m = k THEN new ELSE rows[m]
    BY <1>1, <2>1 DEF TypeOK
  <2> QED
    BY <2>2, <2>3, <2>4 DEF k
<1>4. CASE PatchMetadata(r) /\ ~Live(k)
  BY <1>4 DEF PatchMetadata
<1> QED
  BY <1>2, <1>3, <1>4

LEMMA RequestStepAccounting ==
  ASSUME Typed, Accounting, NEW r \in Reqs, RequestStep(r)
  PROVE  Accounting'
<1>1. r \in Procs /\ ctx[r] \in Request /\ ctx[r].stage \in RequestStages /\ TypeOK
  BY RequestStepSlot DEF Typed
<1>2. /\ ctx[r].stage # "add"
      /\ Carries(r) \subseteq {Target(r)}
      /\ ctx[r].stage \in {"patch", "upsert", "delete"} => Carries(r) = {}
  BY <1>1, RequestCarries DEF RequestStages, Cascading, Lookups
<1>3. CASE EnqueueStored(r)
  <2>1. /\ Step(r, Idle) /\ queue' = queue \cup {StoreJob(r)}
        /\ UNCHANGED <<rows, kept, settled, killed>>
    BY <1>3 DEF EnqueueStored, history
  <2>2. Target(r) \in QueuedArgs'
    BY <2>1, JobArgs DEF QueuedArgs, Args
  <2>3. Monotone
    BY <1>1, <1>2, <2>1, <2>2, PendingAfter, StepMonotone DEF AccountedFor
  <2> QED
    BY <1>1, <2>1, <2>3, StageIdle, AccountingFrame
<1>4. CASE EnqueueStoredFails(r)
  <2> DEFINE c == [stage |-> "add", job |-> StoreJob(r), uuid |-> NoRef]
  <2>1. /\ Step(r, c) /\ c.stage = "add" /\ CarriesOf(c) = {Target(r)}
        /\ UNCHANGED <<rows, kept, settled, killed, queue>>
    BY <1>4, JobArgs, AddCarries DEF EnqueueStoredFails, history
  <2> HIDE DEF c
  <2>2. Monotone
    BY <1>1, <1>2, <2>1, PendingAfter, StepMonotone DEF AccountedFor
  <2> QED
    BY <1>1, <2>1, <2>2, AccountingFrame
<1>5. CASE PatchMetadata(r) \/ PatchUpsert(r)
  <2> DEFINE k == ctx[r].mem
  <2>1. /\ ctx[r].stage \in {"patch", "upsert"} /\ AfterCommit(r)
        /\ UNCHANGED <<settled, killed, queue, kept>>
    BY <1>5 DEF PatchMetadata, PatchUpsert, Grant
  <2>2. /\ Monotone /\ SnapshotsCovered'
        /\ \E a \in AccountedFor' : a.mem = k /\ a.data = ctx[r].newData
        /\ \E a \in AccountedFor' : a.mem = k /\ a.vis = ctx[r].newVis
    BY <2>1, AfterCommitCovered
  <2>3. \A m \in Ids : rows'[m].state = "live" =>
           \/ rows'[m] = rows[m]
           \/ /\ m = k
              /\ rows'[m].vis = ctx[r].newVis
              /\ \/ rows[m].state = "live" /\ rows'[m].data = rows[m].data
                 \/ rows'[m].data = ctx[r].newData
    BY <1>1, <1>5, CommitWrites
  <2>4. RowsCovered'
    <3> SUFFICES ASSUME NEW m \in Ids, rows'[m].state = "live"
                 PROVE  /\ \E a \in AccountedFor' : a.mem = m /\ a.data = rows'[m].data
                        /\ \E a \in AccountedFor' : a.mem = m /\ a.vis = rows'[m].vis
      BY DEF RowsCovered, Live, Covered
    <3> HIDE DEF k
    <3>1. rows[m].state = "live" => Covered(m, rows[m].data, rows[m].vis)
      BY DEF Accounting, RowsCovered, Live
    <3>2. Covered(m, rows[m].data, rows[m].vis) =>
            /\ \E a \in AccountedFor' : a.mem = m /\ a.data = rows[m].data
            /\ \E a \in AccountedFor' : a.mem = m /\ a.vis = rows[m].vis
      BY <2>2 DEF Covered, Monotone
    <3> QED
      BY <2>2, <2>3, <3>1, <3>2
  <2>5. KeptUnderway'
    BY <2>1, <2>2, KeptOnward DEF Accounting
  <2> QED
    BY <2>2, <2>4, <2>5 DEF Accounting
<1>6. CASE PatchUpdate(r)
  <2>1. UNCHANGED <<rows, kept, settled, killed, queue>> /\ ctx[r].stage = "patch"
    BY <1>6 DEF PatchUpdate, history
  <2>2. PICK c : /\ Step(r, c)
                 /\ c.stage \in {"patch", "upsert"} =>
                      c.mem = ctx[r].mem /\ c.data = ctx[r].data /\ c.vis = ctx[r].vis
    <3>1. CASE Step(r, Idle)
      BY <3>1, StageIdle
    <3>2. CASE Goto(r, "upsert")
      <4> DEFINE next == [ctx[r] EXCEPT !.stage = "upsert"]
      <4>1. "upsert" \in RequestStages
        BY DEF RequestStages
      <4>2. /\ Step(r, next)
            /\ next.mem = ctx[r].mem /\ next.data = ctx[r].data /\ next.vis = ctx[r].vis
        BY <1>1, <3>2, <4>1, GotoFields DEF Goto
      <4> HIDE DEF next
      <4> QED
        BY <4>2
    <3> QED
      BY <1>6, <3>1, <3>2 DEF PatchUpdate
  <2>3. Monotone
    BY <1>1, <1>2, <2>1, <2>2, StepMonotone
  <2>4. Covered(ctx[r].mem, ctx[r].data, ctx[r].vis)
    BY <1>1, <2>1 DEF Accounting, SnapshotsCovered
  <2>5. SnapshotsCovered'
    BY <1>1, <2>2, <2>3, <2>4, SnapshotsOnward DEF Accounting
  <2>6. RowsCovered' /\ KeptUnderway'
    BY <2>1, <2>3, RowsOnward, KeptOnward DEF Accounting
  <2> QED
    BY <2>5, <2>6 DEF Accounting
<1>7. CASE PatchEnqueue(r)
  <2>1. Step(r, Idle) /\ UNCHANGED <<rows, settled, killed>>
    BY <1>7 DEF PatchEnqueue
  <2>2. CASE EditJob(r) \notin kept
    <3>1. queue' = queue \cup {EditJob(r)} /\ kept' = kept \cup {EditJob(r)}
      BY <1>7, <2>2 DEF PatchEnqueue
    <3>2. Target(r) \in QueuedArgs'
      BY <3>1, JobArgs DEF QueuedArgs, Args
    <3>3. Target(r) \in Underway' /\ Target(r) \in AccountedFor'
      BY <3>2, UnderwayAccounted DEF Underway
    <3>4. Monotone
      BY <1>1, <1>2, <2>1, <3>1, <3>3, StepMonotone
    <3>5. RowsCovered' /\ SnapshotsCovered'
      BY <1>1, <2>1, <3>4, StageIdle, RowsOnward, SnapshotsOnward DEF Accounting
    <3>6. KeptUnderway'
      BY <3>1, <3>3, <3>4, JobArgs, KeptOnward DEF Accounting
    <3> QED
      BY <3>5, <3>6 DEF Accounting
  <2>3. CASE EditJob(r) \in kept
    <3>1. UNCHANGED <<queue, kept>>
      BY <1>7, <2>3 DEF PatchEnqueue
    <3>2. Target(r) \in Underway
      BY <2>3, JobArgs DEF Accounting, KeptUnderway
    <3>3. Target(r) \in Underway'
      <4>1. \A q \in Procs : q # r => ctx'[q] = ctx[q]
        BY <1>1, <2>1, StepSlots
      <4>2. Running \subseteq Running'
        BY <1>2, <4>1 DEF Running, Procs, Args
      <4>3. QueuedArgs' = QueuedArgs
        BY <3>1 DEF QueuedArgs, Args
      <4> QED
        BY <2>1, <3>2, <4>2, <4>3 DEF Underway
    <3>4. Monotone
      BY <1>1, <1>2, <2>1, <3>1, <3>3, UnderwayAccounted, StepMonotone
    <3> QED
      BY <1>1, <2>1, <3>1, <3>4, StageIdle, AccountingFrame
  <2> QED
    BY <2>2, <2>3
<1>8. CASE PatchEnqueueFails(r)
  <2>1. /\ Step(r, Idle) /\ settled' = settled \cup {Target(r)}
        /\ UNCHANGED <<rows, kept, killed, queue>>
    BY <1>8 DEF PatchEnqueueFails, Settle
  <2>2. Monotone
    BY <1>1, <1>2, <2>1, StepMonotone DEF AccountedFor
  <2> QED
    BY <1>1, <2>1, <2>2, StageIdle, AccountingFrame
<1>9. CASE DeleteRow(r)
  <2>1. UNCHANGED <<kept, settled, killed, queue>> /\ ctx[r].stage = "delete"
    BY <1>9 DEF DeleteRow, history
  <2>2. PICK c : Step(r, c) /\ c.stage \notin {"patch", "upsert"}
    <3>1. ASSUME NEW s \in {"by uuid", "by content"}, Goto(r, s)
          PROVE  \E c : Step(r, c) /\ c.stage \notin {"patch", "upsert"}
      <4> DEFINE next == [ctx[r] EXCEPT !.stage = s]
      <4>1. s \in RequestStages
        BY DEF RequestStages, Cascading, Lookups
      <4>2. Step(r, next) /\ next.stage = s
        BY <1>1, <3>1, <4>1, GotoFields DEF Goto
      <4> HIDE DEF next
      <4> QED
        BY <4>2
    <3> QED
      BY <1>9, <3>1, StageIdle, StartCascadeMoves DEF DeleteRow
  <2>3. Monotone
    BY <1>1, <1>2, <2>1, <2>2, StepMonotone
  <2>4. \A m \in Ids : rows'[m].state = "live" => rows'[m] = rows[m]
    BY <1>1, <1>9 DEF DeleteRow, TypeOK, Gone
  <2>5. RowsCovered'
    BY <2>3, <2>4, RowsOnward DEF Accounting
  <2>6. SnapshotsCovered' /\ KeptUnderway'
    BY <1>1, <2>1, <2>2, <2>3, SnapshotsOnward, KeptOnward DEF Accounting
  <2> QED
    BY <2>5, <2>6 DEF Accounting
<1>10. CASE Cascade(r)
  <2>1. UNCHANGED <<rows, kept, settled, killed, queue>>
    BY <1>10, CascadeMoves
  <2>2. PICK c : Step(r, c) /\ Onward(c) /\ CarriesOf(c) = Carries(r)
    BY <1>1, <1>10, CascadeCarries
  <2>3. Monotone
    BY <1>1, <1>2, <2>1, <2>2, PendingAfter, StepMonotone DEF AccountedFor
  <2> QED
    BY <1>1, <2>1, <2>2, <2>3, AccountingFrame DEF Onward
<1> QED
  BY <1>3, <1>4, <1>5, <1>6, <1>7, <1>8, <1>9, <1>10 DEF RequestStep

LEMMA AccountingNext == Typed /\ Accounting /\ [Next]_vars => Accounting'
<1> SUFFICES ASSUME Typed, Accounting, [Next]_vars PROVE Accounting'
  OBVIOUS
<1>0. TypeOK
  BY DEF Typed
<1>1. ASSUME NEW r \in Reqs, NewRequest(r) PROVE Accounting'
  BY <1>0, <1>1, NewRequestAccounting
<1>2. ASSUME NEW r \in Reqs, RequestStep(r) PROVE Accounting'
  BY <1>2, RequestStepAccounting
<1>3. ASSUME NEW p \in Procs, EnrichStep(p) PROVE Accounting'
  BY <1>0, <1>3, EnrichStepAccounting
<1>4. ASSUME NEW r \in Reqs, RequestKilled(r) PROVE Accounting'
  \* the slot of a request is not a worker's, whose jobs ARQ keeps
  <2>1. r \in Procs /\ r \notin Workers
    BY MemoryGraphAssumption DEF Procs
  <2>2. /\ Step(r, Idle) /\ killed' = killed \cup Carries(r)
        /\ UNCHANGED <<rows, kept, settled, queue>>
    BY <1>4 DEF RequestKilled
  <2>3. Monotone
    BY <1>0, <2>1, <2>2, StepMonotone DEF AccountedFor
  <2> QED
    BY <1>0, <2>1, <2>2, <2>3, StageIdle, AccountingFrame
<1>5. ASSUME NEW w \in Workers, WorkerKilled(w) \/ \E j \in Job : EnrichStart(w, j)
      PROVE  Accounting'
  BY <1>0, <1>5, WorkerAccounting
<1>6. ASSUME NEW j \in Job, ResultExpires(j) PROVE Accounting'
  BY <1>6, AccountingStays DEF ResultExpires, history
<1>7. CASE UNCHANGED vars
  BY <1>7, AccountingStays DEF vars
<1> QED
  BY <1>1, <1>2, <1>3, <1>4, <1>5, <1>6, <1>7 DEF Next, WorkerStep, Procs

\* An enrichment is lost in silence in one way only: whatever is coalesced, retried,
\* reordered or killed, the text and the tier of a live memory were each tried on the
\* graph or given up with a report, or are about to be tried, or were in the hands of a
\* request whose process died before it had handed them on.
THEOREM NoSilentLoss == Spec => []EnrichmentAccountedFor
<1>1. Init => Accounting
  BY StageIdle DEF Init, Accounting, RowsCovered, SnapshotsCovered, KeptUnderway, Live, Gone, Procs
<1>2. Typed /\ Accounting /\ [Next]_vars => Accounting'
  BY AccountingNext
<1>3. Accounting => EnrichmentAccountedFor
  BY DEF Accounting, RowsCovered, Covered, AccountedFor, EnrichmentAccountedFor
<1> QED
  BY <1>1, <1>2, <1>3, TypedInvariant, PTL DEF Spec

-----------------------------------------------------------------------------
(* What is owed to the graph is carried *)

\* A step of one slot leaves every debt carried, if it owes no more than the slot goes on
\* to carry, and if of what the slot carried or took from the queue nothing is both owed
\* and no longer on its way.
LEMMA StepCarried ==
  ASSUME TypeOK, DebtsCarried, NEW p \in Procs, NEW c, Step(p, c),
         owed' \subseteq owed \cup CarriesOf(c),
         \A a \in Carries(p) : a \in owed' => a \in Pending',
         \A j \in queue \ queue' : Args(j) \in owed' => Args(j) \in Pending'
  PROVE  DebtsCarried'
<1> SUFFICES ASSUME NEW a \in owed' PROVE a \in Pending'
  BY DEF DebtsCarried
<1>1. CASE a \in CarriesOf(c)
  BY <1>1, PendingAfter
<1>2. CASE a \in owed
  BY <1>2, PendingAfter DEF DebtsCarried
<1> QED
  BY <1>1, <1>2

LEMMA NewRequestCarried ==
  ASSUME TypeOK, DebtsCarried, NEW r \in Reqs, NewRequest(r)
  PROVE  DebtsCarried'
<1>1. r \in Procs /\ ctx[r] = Idle
  BY NewRequestFrame DEF Procs
<1>2. Carries(r) = {}
  BY <1>1, CarriesIsOf, IdleCarries
<1>3. ASSUME NEW m \in Ids, NEW data \in Contents, NEW vis \in Visibilities,
             NEW override \in BOOLEAN, Store(r, m, data, vis, override)
      PROVE  DebtsCarried'
  <2> DEFINE effective == GatedVisibility(data, vis, override)
             c == [op |-> "store", stage |-> "created", mem |-> m, data |-> data,
                   vis |-> vis, ref |-> NoRef, newData |-> data, newVis |-> effective,
                   found |-> NoRef]
             a == RowState(m, data, effective)
  <2>1. CarriesOf(c) = {a}
    BY DEF CarriesOf
  <2>2. Step(r, c) /\ owed' = owed \cup {a} /\ UNCHANGED queue
    BY <1>3 DEF Store
  <2> HIDE DEF c, a, effective
  <2> QED
    BY <1>1, <1>2, <2>1, <2>2, StepCarried
<1>4. ASSUME NEW c, Step(r, c), UNCHANGED <<owed, queue>> PROVE DebtsCarried'
  BY <1>1, <1>2, <1>4, StepCarried
<1>5. ASSUME NEW m, NEW data, NEW vis, PatchRead(r, m, data, vis) PROVE DebtsCarried'
  BY <1>4, <1>5 DEF PatchRead, history
<1>6. ASSUME NEW m, DeleteRead(r, m) PROVE DebtsCarried'
  BY <1>4, <1>6 DEF DeleteRead, history
<1> QED
  BY <1>3, <1>5, <1>6 DEF NewRequest

LEMMA RequestStepCarried ==
  ASSUME Typed, DebtsCarried, NEW r \in Reqs, RequestStep(r)
  PROVE  DebtsCarried'
<1>1. r \in Procs /\ ctx[r] \in Request /\ ctx[r].stage \in RequestStages /\ TypeOK
  BY RequestStepSlot DEF Typed
<1>2. /\ Carries(r) \subseteq {Target(r)}
      /\ ctx[r].stage \in {"patch", "upsert", "delete"} => Carries(r) = {}
  BY <1>1, RequestCarries DEF RequestStages, Cascading, Lookups
<1>3. CASE EnqueueStored(r)
  <2>1. Step(r, Idle) /\ queue' = queue \cup {StoreJob(r)} /\ UNCHANGED owed
    BY <1>3 DEF EnqueueStored, history
  <2>2. Target(r) \in QueuedArgs'
    BY <2>1, JobArgs DEF QueuedArgs, Args
  <2>3. Target(r) \in Pending'
    BY <1>1, <2>1, <2>2, PendingAfter
  <2> QED
    BY <1>1, <1>2, <2>1, <2>3, StepCarried
<1>4. CASE EnqueueStoredFails(r)
  <2> DEFINE c == [stage |-> "add", job |-> StoreJob(r), uuid |-> NoRef]
  <2>1. Step(r, c) /\ CarriesOf(c) = {Target(r)} /\ UNCHANGED <<queue, owed>>
    BY <1>4, JobArgs, AddCarries DEF EnqueueStoredFails, history
  <2> HIDE DEF c
  <2>2. Target(r) \in Pending'
    BY <1>1, <2>1, PendingAfter
  <2> QED
    BY <1>1, <1>2, <2>1, <2>2, StepCarried
<1>5. CASE PatchMetadata(r) \/ PatchUpsert(r)
  <2>1. /\ ctx[r].stage \in {"patch", "upsert"} /\ AfterCommit(r) /\ UNCHANGED queue
        /\ owed' = IF EditsContent(r) \/ Migrates(r) THEN owed \cup {Target(r)} ELSE owed
    BY <1>5 DEF PatchMetadata, PatchUpsert, Grant
  <2>2. PICK c : /\ Step(r, c)
                 /\ CarriesOf(c) = IF Migrates(r) \/ EditsContent(r)
                                   THEN {Target(r)} ELSE {}
    BY <2>1, AfterCommitCarries
  <2> QED
    BY <1>1, <1>2, <2>1, <2>2, StepCarried
<1>6. CASE PatchUpdate(r) \/ DeleteRow(r)
  <2>1. Carries(r) = {} /\ UNCHANGED <<queue, owed>>
    BY <1>2, <1>6 DEF PatchUpdate, DeleteRow, history
  <2>2. \E c : Step(r, c)
    BY <1>6, StartCascadeMoves DEF PatchUpdate, DeleteRow, Goto
  <2> QED
    BY <1>1, <2>1, <2>2, StepCarried
<1>7. CASE PatchEnqueue(r)
  <2>1. Step(r, Idle)
    BY <1>7 DEF PatchEnqueue
  <2>2. CASE EditJob(r) \notin kept \/ EditJob(r) \in queue
    <3>1. queue' = queue \cup {EditJob(r)} /\ UNCHANGED owed
      BY <1>7, <2>2 DEF PatchEnqueue
    <3>2. Target(r) \in QueuedArgs'
      BY <3>1, JobArgs DEF QueuedArgs, Args
    <3>3. Target(r) \in Pending'
      BY <1>1, <2>1, <3>2, PendingAfter
    <3> QED
      BY <1>1, <1>2, <2>1, <3>1, <3>3, StepCarried
  <2>3. CASE EditJob(r) \in kept /\ EditJob(r) \notin queue
    <3>1. UNCHANGED queue /\ owed' = owed \ {Target(r)}
      BY <1>7, <2>3 DEF PatchEnqueue
    <3> QED
      BY <1>1, <1>2, <2>1, <3>1, StepCarried
  <2> QED
    BY <2>2, <2>3
<1>8. CASE PatchEnqueueFails(r)
  <2>1. Step(r, Idle) /\ owed' = owed \ {Target(r)} /\ UNCHANGED queue
    BY <1>8 DEF PatchEnqueueFails, Settle
  <2> QED
    BY <1>1, <1>2, <2>1, StepCarried
<1>9. CASE Cascade(r)
  <2>1. UNCHANGED <<owed, queue>>
    BY <1>9, CascadeMoves
  <2>2. PICK c : Step(r, c) /\ CarriesOf(c) = Carries(r)
    BY <1>1, <1>9, CascadeCarries
  <2>3. Carries(r) \subseteq Pending'
    BY <1>1, <2>2, PendingAfter
  <2> QED
    BY <1>1, <2>1, <2>2, <2>3, StepCarried
<1> QED
  BY <1>3, <1>4, <1>5, <1>6, <1>7, <1>8, <1>9 DEF RequestStep

LEMMA EnrichStepCarried ==
  ASSUME TypeOK, DebtsCarried, NEW p \in Procs, EnrichStep(p)
  PROVE  DebtsCarried'
<1>1. ctx[p].stage \in {"add", "stamp"}
  BY EnrichStepSlot
<1>2. /\ ctx[p].stage = "add" => Carries(p) = {Args(ctx[p].job)}
      /\ ctx[p].stage = "stamp" => Carries(p) = {}
  BY DEF Carries, Cascading, Lookups
<1>3. CASE EnrichAdd(p) \/ EnrichFails(p)
  <2>1. /\ ctx[p].stage = "add" /\ UNCHANGED queue
        /\ owed' = owed \ {Args(ctx[p].job)}
    BY <1>3 DEF EnrichAdd, EnrichFails, Settle
  <2>2. \E c : Step(p, c)
    BY <1>3 DEF EnrichAdd, EnrichFails
  <2> QED
    BY <1>2, <2>1, <2>2, StepCarried
<1>4. CASE AddUnanswered(p)
  BY <1>4, PendingStays DEF AddUnanswered, history, DebtsCarried
<1>5. CASE EnrichStamp(p)
  BY <1>2, <1>5, StepCarried DEF EnrichStamp, history
<1> QED
  BY <1>3, <1>4, <1>5 DEF EnrichStep

LEMMA WorkerCarried ==
  ASSUME TypeOK, DebtsCarried, NEW w \in Workers,
         WorkerKilled(w) \/ \E j \in Job : EnrichStart(w, j)
  PROVE  DebtsCarried'
<1>1. w \in Procs
  BY DEF Procs
<1>2. CASE WorkerKilled(w)
  <2>1. Step(w, Idle) /\ queue' = queue \cup {ctx[w].job} /\ UNCHANGED owed
    BY <1>2 DEF WorkerKilled, history
  <2>2. Carries(w) \subseteq {Args(ctx[w].job)}
    BY <1>2 DEF WorkerKilled, Carries, Cascading, Lookups
  <2>3. Args(ctx[w].job) \in QueuedArgs'
    BY <2>1 DEF QueuedArgs, Args
  <2>4. Args(ctx[w].job) \in Pending'
    BY <1>1, <2>1, <2>3, PendingAfter
  <2> QED
    BY <1>1, <2>1, <2>2, <2>4, StepCarried
<1>3. ASSUME NEW j \in Job, EnrichStart(w, j) PROVE DebtsCarried'
  <2>1. ctx[w] = Idle /\ queue' = queue \ {j}
    BY <1>3 DEF EnrichStart
  <2>2. Carries(w) = {}
    BY <2>1, CarriesIsOf, IdleCarries
  <2>3. CASE Live(j.mem)
    <3> DEFINE c == [stage |-> "add", job |-> j, uuid |-> NoRef]
    <3>1. Step(w, c) /\ CarriesOf(c) = {Args(j)} /\ UNCHANGED owed
      BY <1>3, <2>3, AddCarries DEF EnrichStart, history
    <3> HIDE DEF c
    <3>2. Args(j) \in Pending'
      BY <1>1, <3>1, PendingAfter
    <3> QED
      BY <1>1, <2>1, <2>2, <3>1, <3>2, StepCarried
  <2>4. CASE ~Live(j.mem)
    <3>1. Step(w, Idle) /\ owed' = owed \ {Args(j)}
      BY <1>3, <2>1, <2>4 DEF EnrichStart, Settle, Step, TypeOK
    <3> QED
      BY <1>1, <2>1, <2>2, <3>1, StepCarried
  <2> QED
    BY <2>3, <2>4
<1> QED
  BY <1>2, <1>3

LEMMA CarriedNext == Typed /\ DebtsCarried /\ [Next]_vars => DebtsCarried'
<1> SUFFICES ASSUME Typed, DebtsCarried, [Next]_vars PROVE DebtsCarried'
  OBVIOUS
<1>0. TypeOK
  BY DEF Typed
<1>1. ASSUME NEW r \in Reqs, NewRequest(r) PROVE DebtsCarried'
  BY <1>0, <1>1, NewRequestCarried
<1>2. ASSUME NEW r \in Reqs, RequestStep(r) PROVE DebtsCarried'
  BY <1>2, RequestStepCarried
<1>3. ASSUME NEW p \in Procs, EnrichStep(p) PROVE DebtsCarried'
  BY <1>0, <1>3, EnrichStepCarried
<1>4. ASSUME NEW r \in Reqs, RequestKilled(r) PROVE DebtsCarried'
  BY <1>0, <1>4, StepCarried DEF RequestKilled, Procs
<1>5. ASSUME NEW w \in Workers, WorkerKilled(w) \/ \E j \in Job : EnrichStart(w, j)
      PROVE  DebtsCarried'
  BY <1>0, <1>5, WorkerCarried
<1>6. ASSUME NEW j \in Job, ResultExpires(j) PROVE DebtsCarried'
  BY <1>6, PendingStays DEF ResultExpires, history, DebtsCarried
<1>7. CASE UNCHANGED vars
  BY <1>7, PendingStays DEF vars, DebtsCarried
<1> QED
  BY <1>1, <1>2, <1>3, <1>4, <1>5, <1>6, <1>7 DEF Next, WorkerStep, Procs

\* What is owed to the graph is on its way to it: every text, in the tier it was committed
\* in, is in a request, a waiting job or a run of enrich_graph until it is tried, reported,
\* killed, or given up for an equal job that has already started.
THEOREM DebtsAreCarried == Spec => []DebtsCarried
<1>1. Init => DebtsCarried
  BY DEF Init, DebtsCarried
<1>2. Typed /\ DebtsCarried /\ [Next]_vars => DebtsCarried'
  BY CarriedNext
<1> QED
  BY <1>1, <1>2, TypedInvariant, PTL DEF Spec

-----------------------------------------------------------------------------
(* A cascade stays within the group of its memory, and its memory or its text *)

\* Every episode that bears this uuid is one of S, now and for good: the uuid was minted
\* before, and no two episodes share one.
Only(uuid, S) == uuid < nextUuid /\ \A e \in episodes : e.uuid = uuid => e \in S

OfMemory(m) == {e \in Episode : e.mem = m}
\* What a request may remove: an episode of its group, of its memory or its text
WithinReach(c) ==
  {e \in Episode : e.group = GroupOf(c.vis) /\ (e.mem = c.mem \/ e.data = c.data)}

\* The lookups go by the uuid a request read on its row, so that uuid must name episodes
\* of that memory: on the row, in every snapshot of it, and in every run of enrich_graph
\* that has an episode to stamp.  What a lookup found stays within the reach of the
\* request until the node is deleted.
UuidsMinted ==
  /\ \A e \in episodes : e.uuid < nextUuid
  /\ \A e, f \in episodes : e.uuid = f.uuid => e = f
RowsNamed == \A m \in Ids : Live(m) => Only(rows[m].ref, OfMemory(m))
SlotNamed(c) ==
  /\ c.stage \in RequestStages => c.ref \in Nat /\ Only(c.ref, OfMemory(c.mem))
  /\ c.stage \in {"edges", "node"} => c.found \in Nat /\ Only(c.found, WithinReach(c))
  /\ c.stage = "stamp" => c.uuid \in Nat /\ Only(c.uuid, OfMemory(c.job.mem))
SlotsNamed == \A p \in Procs : SlotNamed(ctx[p])

Named == UuidsMinted /\ RowsNamed /\ SlotsNamed

\* The graph changes only by losing episodes and by gaining one of a fresh uuid.
Grows ==
  \/ episodes' \subseteq episodes /\ nextUuid' = nextUuid
  \/ \E e : /\ e.uuid = nextUuid /\ episodes' = episodes \cup {e}
            /\ nextUuid' = nextUuid + 1

LEMMA NextGrows == ASSUME TypeOK, [Next]_vars PROVE Grows
<1>1. CASE episodes' \subseteq episodes /\ UNCHANGED nextUuid
  BY <1>1 DEF Grows
<1>2. ASSUME NEW r \in Reqs, NewRequest(r) PROVE Grows
  BY <1>1, <1>2, NewRequestFrame
<1>3. ASSUME NEW r \in Reqs, RequestStep(r) PROVE Grows
  BY <1>1, <1>3, RequestStepFrame, CascadeMoves
<1>4. ASSUME NEW p \in Procs, EnrichStep(p) PROVE Grows
  <2>1. CASE EnrichAdd(p) \/ AddUnanswered(p)
    <3> DEFINE e == NewEpisode(ctx[p].job)
    <3>1. e.uuid = nextUuid
      BY DEF NewEpisode
    <3>2. episodes' = episodes \cup {e} /\ nextUuid' = nextUuid + 1
      BY <2>1 DEF EnrichAdd, AddUnanswered
    <3> QED
      BY <3>1, <3>2 DEF Grows
  <2> QED
    BY <1>1, <1>4, <2>1 DEF EnrichStep, EnrichFails, EnrichStamp, graphVars
<1>5. ASSUME NEW r \in Reqs, RequestKilled(r) PROVE Grows
  BY <1>1, <1>5 DEF RequestKilled, graphVars
<1>6. ASSUME NEW w \in Workers, WorkerKilled(w) \/ \E j \in Job : EnrichStart(w, j)
      PROVE  Grows
  BY <1>1, <1>6 DEF WorkerKilled, EnrichStart, graphVars
<1>7. ASSUME NEW j \in Job, ResultExpires(j) PROVE Grows
  BY <1>1, <1>7 DEF ResultExpires, graphVars
<1>8. CASE UNCHANGED vars
  BY <1>1, <1>8 DEF vars
<1> QED
  BY <1>2, <1>3, <1>4, <1>5, <1>6, <1>7, <1>8 DEF Next, WorkerStep, Procs

LEMMA UuidTypes ==
  ASSUME TypeOK
  PROVE  nextUuid \in Nat /\ \A e \in episodes : e.uuid \in Nat /\ e \in Episode
BY DEF TypeOK, Episode

LEMMA MintedOnward ==
  ASSUME TypeOK, UuidsMinted, Grows
  PROVE  UuidsMinted'
<1>1. CASE episodes' \subseteq episodes /\ nextUuid' = nextUuid
  BY <1>1 DEF UuidsMinted
<1>2. ASSUME NEW e, e.uuid = nextUuid, episodes' = episodes \cup {e}, nextUuid' = nextUuid + 1
      PROVE  UuidsMinted'
  <2>1. \A x \in episodes : x.uuid \in Nat /\ x.uuid < nextUuid /\ nextUuid \in Nat
    BY UuidTypes DEF UuidsMinted
  <2>2. nextUuid \in Nat
    BY UuidTypes
  <2>3. \A x \in episodes' : x.uuid < nextUuid'
    BY <1>2, <2>1, <2>2
  <2>4. \A x, y \in episodes' : x.uuid = y.uuid => x = y
    BY <1>2, <2>1, <2>2 DEF UuidsMinted
  <2> QED
    BY <2>3, <2>4 DEF UuidsMinted
<1> QED
  BY <1>1, <1>2 DEF Grows

LEMMA OnlyOnward ==
  ASSUME TypeOK, Grows, NEW uuid \in Nat, NEW S, Only(uuid, S)
  PROVE  Only(uuid, S)'
<1>1. nextUuid \in Nat
  BY UuidTypes
<1>2. uuid < nextUuid'
  BY <1>1 DEF Grows, Only
<1>3. ASSUME NEW e \in episodes', e.uuid = uuid PROVE e \in S
  <2>1. e \in episodes
    BY <1>1, <1>3 DEF Grows, Only
  <2> QED
    BY <1>3, <2>1 DEF Only
<1> QED
  BY <1>2, <1>3 DEF Only

LEMMA NoRefOnly == ASSUME TypeOK, NEW S PROVE Only(NoRef, S)
BY DEF TypeOK, Only, Episode, NoRef

LEMMA RefType == ASSUME TypeOK, NEW m \in Ids, Live(m) PROVE rows[m].ref \in Nat
BY LiveRow DEF Row

\* Names that held before the step go on holding.
LEMMA SlotNamedOnward ==
  ASSUME TypeOK, Grows, NEW c, SlotNamed(c)
  PROVE  SlotNamed(c)'
<1>1. c.stage \in RequestStages => Only(c.ref, OfMemory(c.mem))'
  BY OnlyOnward DEF SlotNamed
<1>2. c.stage \in {"edges", "node"} => Only(c.found, WithinReach(c))'
  BY OnlyOnward DEF SlotNamed
<1>3. c.stage = "stamp" => Only(c.uuid, OfMemory(c.job.mem))'
  BY OnlyOnward DEF SlotNamed
<1> QED
  BY <1>1, <1>2, <1>3 DEF SlotNamed

LEMMA SlotsNamedOnward ==
  ASSUME TypeOK, SlotsNamed, Grows, NEW p \in Procs, NEW c, Step(p, c), SlotNamed(c)'
  PROVE  SlotsNamed'
<1>1. \A q \in Procs : ctx'[q] = IF q = p THEN c ELSE ctx[q]
  BY StepSlots
<1>2. ASSUME NEW q \in Procs PROVE SlotNamed(ctx[q])'
  <2>1. PICK d : d = ctx[q] /\ SlotNamed(d)
    BY DEF SlotsNamed
  <2>2. SlotNamed(d)'
    BY <2>1, SlotNamedOnward
  <2>3. CASE q = p
    BY <1>1, <2>3 DEF SlotNamed, Only, OfMemory, WithinReach
  <2>4. CASE q # p
    BY <1>1, <2>1, <2>2, <2>4 DEF SlotNamed, Only, OfMemory, WithinReach
  <2> QED
    BY <2>3, <2>4
<1> QED
  BY <1>2 DEF SlotsNamed

LEMMA RowsNamedOnward ==
  ASSUME TypeOK, RowsNamed, Grows,
         \A m \in Ids : rows'[m].state = "live" =>
           \/ rows[m].state = "live" /\ rows'[m].ref = rows[m].ref
           \/ rows'[m].ref \in Nat /\ Only(rows'[m].ref, OfMemory(m))
  PROVE  RowsNamed'
<1> SUFFICES ASSUME NEW m \in Ids, rows'[m].state = "live"
             PROVE  Only(rows[m].ref, OfMemory(m))'
  BY DEF RowsNamed, Live
<1>1. PICK ref \in Nat : ref = rows'[m].ref /\ Only(ref, OfMemory(m))
  BY RefType DEF RowsNamed, Live
<1>2. Only(ref, OfMemory(m))'
  BY <1>1, OnlyOnward
<1> QED
  BY <1>1, <1>2 DEF Only, OfMemory

LEMMA IdleNamed == SlotNamed(Idle) /\ SlotNamed(Idle)'
BY DEF SlotNamed, Idle, RequestStages, Cascading, Lookups

LEMMA AddNamed ==
  ASSUME NEW j
  PROVE  SlotNamed([stage |-> "add", job |-> j, uuid |-> NoRef])
BY DEF SlotNamed, RequestStages, Cascading, Lookups

\* A request that goes on keeps the uuid and the memory of its snapshot, and what it found.
LEMMA GotoNamed ==
  ASSUME SlotsNamed, NEW r \in Procs, ctx[r] \in Request,
         ctx[r].stage \in RequestStages, NEW s \in RequestStages,
         s \notin {"edges", "node"} \/ ctx[r].stage \in {"edges", "node"}
  PROVE  SlotNamed([ctx[r] EXCEPT !.stage = s])
<1> DEFINE c == [ctx[r] EXCEPT !.stage = s]
<1>1. /\ c.stage = s /\ c.ref = ctx[r].ref /\ c.mem = ctx[r].mem
      /\ c.vis = ctx[r].vis /\ c.data = ctx[r].data /\ c.found = ctx[r].found
  BY GotoFields
<1>2. SlotNamed(ctx[r])
  BY DEF SlotsNamed
<1>3. s # "stamp"
  BY DEF RequestStages, Cascading, Lookups
<1> HIDE DEF c
<1>4. WithinReach(c) = WithinReach(ctx[r])
  BY <1>1 DEF WithinReach
<1>5. SlotNamed(c)
  BY <1>1, <1>2, <1>3, <1>4 DEF SlotNamed
<1> QED
  BY <1>5 DEF c

\* What a lookup finds is within reach.
LEMMA HitNamed ==
  ASSUME TypeOK, UuidsMinted, SlotsNamed, NEW r \in Procs, ctx[r] \in Request,
         ctx[r].stage \in RequestStages, NEW e \in Hits(r)
  PROVE  SlotNamed([ctx[r] EXCEPT !.stage = "edges", !.found = e.uuid])
<1> DEFINE c == [ctx[r] EXCEPT !.stage = "edges", !.found = e.uuid]
<1>1. /\ c.stage = "edges" /\ c.ref = ctx[r].ref /\ c.mem = ctx[r].mem
      /\ c.vis = ctx[r].vis /\ c.data = ctx[r].data /\ c.found = e.uuid
  BY HitFields
<1>2. /\ e \in episodes /\ e \in Episode /\ e.uuid \in Nat /\ e.uuid < nextUuid
      /\ e.group = GroupOf(ctx[r].vis)
      /\ e.uuid = ctx[r].ref \/ e.data = ctx[r].data
  BY HitsAreEpisodes, UuidTypes DEF UuidsMinted
<1>3. ctx[r].ref \in Nat /\ Only(ctx[r].ref, OfMemory(ctx[r].mem))
  BY DEF SlotsNamed, SlotNamed
<1>4. e \in WithinReach(ctx[r])
  BY <1>2, <1>3 DEF WithinReach, Only, OfMemory
<1>5. Only(e.uuid, WithinReach(ctx[r]))
  BY <1>2, <1>4 DEF Only, UuidsMinted
<1> HIDE DEF c
<1>6. WithinReach(c) = WithinReach(ctx[r])
  BY <1>1 DEF WithinReach
<1>7. SlotNamed(c)
  BY <1>1, <1>2, <1>3, <1>5, <1>6 DEF SlotNamed
<1> QED
  BY <1>7 DEF c

LEMMA NewRequestNamed ==
  ASSUME TypeOK, Named, NEW r \in Reqs, NewRequest(r), Grows
  PROVE  Named'
<1>1. r \in Procs /\ UuidsMinted'
  BY MintedOnward DEF Procs, Named
<1>2. ASSUME NEW m \in Ids, NEW data \in Contents, NEW vis \in Visibilities,
             NEW override \in BOOLEAN, Store(r, m, data, vis, override)
      PROVE  Named'
  <2> DEFINE effective == GatedVisibility(data, vis, override)
             c == [op |-> "store", stage |-> "created", mem |-> m, data |-> data,
                   vis |-> vis, ref |-> NoRef, newData |-> data, newVis |-> effective,
                   found |-> NoRef]
             new == [state |-> "live", data |-> data, vis |-> effective, ref |-> NoRef]
  <2>1. Step(r, c) /\ rows' = [rows EXCEPT ![m] = new]
    BY <1>2 DEF Store
  <2>2. c.stage = "created" /\ c.ref = NoRef /\ new.ref = NoRef /\ NoRef \in Nat
    BY DEF NoRef
  <2> HIDE DEF c, new
  <2>3. SlotNamed(c)'
    BY <2>2, NoRefOnly, SlotNamedOnward DEF SlotNamed
  <2>4. SlotsNamed'
    BY <1>1, <2>1, <2>3, SlotsNamedOnward DEF Named
  <2>5. RowsNamed'
    <3>1. \A n \in Ids : rows'[n] = IF n = m THEN new ELSE rows[n]
      BY <2>1 DEF TypeOK
    <3> QED
      BY <2>2, <3>1, NoRefOnly, RowsNamedOnward DEF Named
  <2> QED
    BY <1>1, <2>4, <2>5 DEF Named
<1>3. ASSUME NEW m \in Ids, Live(m), NEW c, Step(r, c), UNCHANGED rows,
             c.mem = m, c.ref = rows[m].ref, c.stage \notin {"stamp", "edges", "node"}
      PROVE  Named'
  <2>1. rows[m].ref \in Nat /\ Only(rows[m].ref, OfMemory(m))
    BY <1>3, RefType DEF Named, RowsNamed
  <2>2. SlotNamed(c)
    BY <1>3, <2>1 DEF SlotNamed
  <2>3. SlotsNamed'
    BY <1>1, <1>3, <2>2, SlotNamedOnward, SlotsNamedOnward DEF Named
  <2>4. RowsNamed'
    BY <1>3, RowsNamedOnward DEF Named
  <2> QED
    BY <1>1, <2>3, <2>4 DEF Named
<1>4. ASSUME NEW m \in Ids, NEW data, NEW vis, PatchRead(r, m, data, vis)
      PROVE  Named'
  BY <1>3, <1>4 DEF PatchRead
<1>5. ASSUME NEW m \in Ids, DeleteRead(r, m)
      PROVE  Named'
  BY <1>3, <1>5 DEF DeleteRead
<1> QED
  BY <1>2, <1>4, <1>5 DEF NewRequest

LEMMA RequestStepNamed ==
  ASSUME TypeOK, Named, NEW r \in Reqs, RequestStep(r), Grows
  PROVE  Named'
<1>1. r \in Procs /\ ctx[r] \in Request /\ ctx[r].stage \in RequestStages
  BY RequestStepSlot
<1>2. ctx[r].ref \in Nat /\ Only(ctx[r].ref, OfMemory(ctx[r].mem))
  BY <1>1 DEF Named, SlotsNamed, SlotNamed
<1>3. PICK c : Step(r, c) /\ SlotNamed(c)
  <2>1. CASE Step(r, Idle)
    BY <2>1, IdleNamed
  <2>2. ASSUME NEW s \in (Cascading \ {"edges", "node"}) \cup {"enqueue", "upsert"}, Goto(r, s)
        PROVE  \E c : Step(r, c) /\ SlotNamed(c)
    <3>1. s \in RequestStages /\ s \notin {"edges", "node"}
      BY DEF RequestStages
    <3> QED
      BY <1>1, <2>2, <3>1, GotoNamed DEF Goto, Named
  <2>3. CASE EnqueueStoredFails(r)
    BY <2>3, AddNamed DEF EnqueueStoredFails
  <2>4. CASE PatchMetadata(r) \/ PatchUpsert(r) \/ DeleteRow(r)
    BY <2>1, <2>2, <2>4, AfterCommitMoves, StartCascadeMoves
    DEF PatchMetadata, PatchUpsert, DeleteRow, Cascading, Lookups
  <2>5. CASE Cascade(r)
    <3>1. ASSUME NEW e \in Hits(r), Step(r, [ctx[r] EXCEPT !.stage = "edges", !.found = e.uuid])
          PROVE  \E c : Step(r, c) /\ SlotNamed(c)
      BY <1>1, <3>1, HitNamed DEF Named
    <3>2. CASE ctx[r].stage = "edges" /\ Goto(r, "node")
      <4>1. "node" \in RequestStages
        BY DEF RequestStages, Cascading
      <4> QED
        BY <1>1, <3>2, <4>1, GotoNamed DEF Goto, Named
    <3>3. {"by content", "by name", "search", "save"} \subseteq Cascading \ {"edges", "node"}
      BY DEF Cascading, Lookups
    <3> QED
      BY <2>1, <2>2, <2>5, <3>1, <3>2, <3>3, CascadeMoves, EndCascadeMoves
  <2> QED
    BY <2>1, <2>2, <2>3, <2>4, <2>5
    DEF RequestStep, EnqueueStored, PatchUpdate, PatchEnqueue, PatchEnqueueFails
<1>4. SlotsNamed'
  BY <1>1, <1>3, SlotNamedOnward, SlotsNamedOnward DEF Named
<1>5. RowsNamed'
  <2>1. CASE PatchMetadata(r) \/ PatchUpsert(r)
    <3>1. \A m \in Ids : rows'[m].state = "live" =>
            rows'[m] = rows[m] \/ (m = ctx[r].mem /\ rows'[m].ref = ctx[r].ref)
      BY <1>1, <2>1, CommitWrites
    <3> QED
      BY <1>2, <3>1, RowsNamedOnward DEF Named
  <2>2. CASE DeleteRow(r)
    <3>1. \A m \in Ids : rows'[m].state = "live" => rows'[m] = rows[m]
      BY <1>1, <2>2 DEF DeleteRow, TypeOK, Gone
    <3> QED
      BY <3>1, RowsNamedOnward DEF Named
  <2>3. CASE UNCHANGED rows
    BY <2>3, RowsNamedOnward DEF Named
  <2> QED
    BY <2>1, <2>2, <2>3, CascadeMoves
    DEF RequestStep, EnqueueStored, EnqueueStoredFails, PatchUpdate, PatchEnqueue,
        PatchEnqueueFails
<1> QED
  BY <1>4, <1>5, MintedOnward DEF Named

LEMMA EnrichStepNamed ==
  ASSUME TypeOK, Named, NEW p \in Procs, EnrichStep(p), Grows
  PROVE  Named'
<1>1. ctx[p] \in Enrichment
  BY EnrichStepSlot
<1>2. UuidsMinted'
  BY MintedOnward DEF Named
<1>3. CASE EnrichAdd(p)
  \* the uuid this run will stamp is the one it has just minted
  <2> DEFINE c == [ctx[p] EXCEPT !.stage = "stamp", !.uuid = nextUuid]
             e == NewEpisode(ctx[p].job)
  <2>1. /\ Step(p, c) /\ episodes' = episodes \cup {e} /\ nextUuid' = nextUuid + 1
        /\ UNCHANGED rows
    BY <1>3 DEF EnrichAdd
  <2>2. c.stage = "stamp" /\ c.job = ctx[p].job /\ c.uuid = nextUuid
    BY <1>1 DEF Enrichment
  <2>3. e \in OfMemory(ctx[p].job.mem)
    <3>1. ctx[p].job \in Job
      BY <1>1 DEF Enrichment
    <3> QED
      BY <3>1 DEF NewEpisode, OfMemory, Episode, Job, GroupOf, Groups, TypeOK
  <2> HIDE DEF c, e
  <2>4. nextUuid \in Nat /\ \A x \in episodes : x.uuid \in Nat /\ x.uuid < nextUuid
    BY UuidTypes DEF Named, UuidsMinted
  <2>5. PICK u, S : u = nextUuid /\ S = OfMemory(ctx[p].job.mem)
    OBVIOUS
  <2>6. Only(u, S)'
    BY <2>1, <2>3, <2>4, <2>5 DEF Only
  <2>7. PICK d : d = c
    OBVIOUS
  <2>8. SlotNamed(d)'
    BY <2>2, <2>4, <2>5, <2>6, <2>7
    DEF SlotNamed, Only, OfMemory, RequestStages, Cascading, Lookups
  <2>9. SlotsNamed'
    BY <2>1, <2>7, <2>8, SlotsNamedOnward DEF Named
  <2>10. RowsNamed'
    BY <2>1, RowsNamedOnward DEF Named
  <2> QED
    BY <1>2, <2>9, <2>10 DEF Named
<1>4. CASE AddUnanswered(p)
  <2>1. UNCHANGED <<rows, ctx>>
    BY <1>4 DEF AddUnanswered
  <2>2. SlotsNamed'
    <3> SUFFICES ASSUME NEW q \in Procs PROVE SlotNamed(ctx[q])'
      BY DEF SlotsNamed
    <3>1. PICK d : d = ctx[q] /\ SlotNamed(d)
      BY DEF Named, SlotsNamed
    <3>2. SlotNamed(d)'
      BY <3>1, SlotNamedOnward
    <3> QED
      BY <2>1, <3>1, <3>2 DEF SlotNamed, Only, OfMemory, WithinReach
  <2>3. RowsNamed'
    BY <2>1, RowsNamedOnward DEF Named
  <2> QED
    BY <1>2, <2>2, <2>3 DEF Named
<1>5. CASE EnrichFails(p)
  <2>1. Step(p, Idle) /\ UNCHANGED rows
    BY <1>5 DEF EnrichFails
  <2> QED
    BY <1>2, <2>1, IdleNamed, SlotsNamedOnward, RowsNamedOnward DEF Named
<1>6. CASE EnrichStamp(p)
  <2> DEFINE k == ctx[p].job.mem
  <2>1. Step(p, Idle) /\ ctx[p].stage = "stamp"
    BY <1>6 DEF EnrichStamp
  <2>2. Only(ctx[p].uuid, OfMemory(k)) /\ ctx[p].uuid \in Nat
    BY <2>1 DEF Named, SlotsNamed, SlotNamed
  <2>3. k \in Ids
    BY <1>1 DEF Enrichment, Job
  <2>4. RowsNamed'
    <3>1. CASE UNCHANGED rows
      BY <3>1, RowsNamedOnward DEF Named
    <3>2. CASE Live(k) /\ rows' = [rows EXCEPT ![k].ref = ctx[p].uuid]
      <4> DEFINE new == [rows[k] EXCEPT !.ref = ctx[p].uuid]
      <4>1. new.ref = ctx[p].uuid
        BY <2>3, <3>2, LiveRow DEF Row
      <4>2. rows' = [rows EXCEPT ![k] = new]
        BY <3>2
      <4> HIDE DEF new, k
      <4>3. \A m \in Ids : rows'[m] = IF m = k THEN new ELSE rows[m]
        BY <2>3, <4>2 DEF TypeOK
      <4> QED
        BY <2>2, <4>1, <4>3, RowsNamedOnward DEF Named
    <3> QED
      BY <1>6, <3>1, <3>2 DEF EnrichStamp
  <2>5. SlotsNamed'
    BY <2>1, IdleNamed, SlotsNamedOnward DEF Named
  <2> QED
    BY <1>2, <2>4, <2>5 DEF Named
<1> QED
  BY <1>3, <1>4, <1>5, <1>6 DEF EnrichStep

LEMMA NamedNext == TypeOK /\ Named /\ [Next]_vars => Named'
<1> SUFFICES ASSUME TypeOK, Named, [Next]_vars PROVE Named'
  OBVIOUS
<1>1. Grows
  BY NextGrows
<1>2. ASSUME NEW p \in Procs, NEW c, Step(p, c), SlotNamed(c), UNCHANGED rows PROVE Named'
  BY <1>1, <1>2, MintedOnward, RowsNamedOnward, SlotNamedOnward, SlotsNamedOnward DEF Named
<1>3. ASSUME NEW r \in Reqs, RequestKilled(r) PROVE Named'
  BY <1>2, <1>3, IdleNamed DEF RequestKilled, Procs
<1>4. ASSUME NEW w \in Workers, WorkerKilled(w) PROVE Named'
  BY <1>2, <1>4, IdleNamed DEF WorkerKilled, Procs
<1>5. ASSUME UNCHANGED <<rows, ctx, episodes, nextUuid>> PROVE Named'
  BY <1>5 DEF Named, UuidsMinted, RowsNamed, SlotsNamed, SlotNamed, Only, OfMemory,
     WithinReach, Live
<1>6. ASSUME NEW w \in Workers, NEW j \in Job, EnrichStart(w, j) PROVE Named'
  <2>1. UNCHANGED <<rows, episodes, nextUuid>>
    BY <1>6 DEF EnrichStart, graphVars
  <2>2. Step(w, [stage |-> "add", job |-> j, uuid |-> NoRef]) \/ UNCHANGED ctx
    BY <1>6 DEF EnrichStart
  <2> QED
    BY <1>2, <1>5, <2>1, <2>2, AddNamed DEF Procs
<1>7. ASSUME NEW j \in Job, ResultExpires(j) PROVE Named'
  BY <1>5, <1>7 DEF ResultExpires, graphVars
<1>8. CASE UNCHANGED vars
  BY <1>5, <1>8 DEF vars
<1>9. ASSUME NEW r \in Reqs, NewRequest(r) \/ RequestStep(r) PROVE Named'
  BY <1>1, <1>9, NewRequestNamed, RequestStepNamed
<1>10. ASSUME NEW p \in Procs, EnrichStep(p) PROVE Named'
  BY <1>1, <1>10, EnrichStepNamed
<1> QED
  BY <1>3, <1>4, <1>6, <1>7, <1>8, <1>9, <1>10 DEF Next, WorkerStep, Procs

\* What a slot whose cascade has found an episode may remove
Within(e) ==
  \E r \in Reqs :
    /\ ctx[r].stage = "node"
    /\ e.group = GroupOf(ctx[r].vis)
    /\ e.mem = ctx[r].mem \/ e.data = ctx[r].data

LEMMA DeleteWithin ==
  ASSUME TypeOK, Named, NEW r \in Reqs, Cascade(r), NEW e \in episodes \ episodes'
  PROVE  Within(e)
<1>1. DeleteNode(r)
  BY DEF Cascade, Lookup, ExpireEdges, FallbackSearch, FallbackSave, graphVars
<1>2. ctx[r].stage = "node" /\ e.uuid = ctx[r].found
  BY <1>1 DEF DeleteNode
<1>3. SlotNamed(ctx[r])
  BY DEF Named, SlotsNamed, Procs
<1>4. e \in WithinReach(ctx[r])
  BY <1>2, <1>3 DEF SlotNamed, Only
<1> QED
  BY <1>2, <1>4 DEF WithinReach, Within

LEMMA StepWithin ==
  ASSUME TypeOK, Named, [Next]_vars, NEW e \in episodes \ episodes'
  PROVE  Within(e)
<1>1. ASSUME NEW r \in Reqs, RequestStep(r) PROVE Within(e)
  BY <1>1, DeleteWithin, RequestStepFrame
<1>2. ASSUME NEW r \in Reqs, NewRequest(r) \/ RequestKilled(r) PROVE FALSE
  BY <1>2, NewRequestFrame DEF RequestKilled, graphVars
<1>3. ASSUME NEW p \in Procs, EnrichStep(p) PROVE FALSE
  BY <1>3 DEF EnrichStep, EnrichAdd, AddUnanswered, EnrichFails, EnrichStamp, graphVars
<1>4. ASSUME NEW w \in Workers, WorkerKilled(w) \/ \E j \in Job : EnrichStart(w, j)
      PROVE  FALSE
  BY <1>4 DEF WorkerKilled, EnrichStart, graphVars
<1>5. ASSUME NEW j \in Job, ResultExpires(j) PROVE FALSE
  BY <1>5 DEF ResultExpires, graphVars
<1> QED
  BY <1>1, <1>2, <1>3, <1>4, <1>5 DEF Next, WorkerStep, Procs, vars

\* A cascade removes no episode of another group, and none of another memory unless its
\* text is the very same: whichever lookups fail, and however stamps, edits, deletes and
\* other cascades run between its calls, the uuid a request cascades with names no episode
\* of another memory, and the one it found names the same episode when the node is deleted.
THEOREM CascadeIsContained == Spec => CascadeStaysWithin
<1>1. Init => Named
  BY IdleNamed DEF Init, Named, UuidsMinted, RowsNamed, SlotsNamed, Live, Gone, Procs
<1>2. TypeOK /\ Named /\ [Next]_vars => Named'
  BY NamedNext
<1>3. TypeOK /\ Named /\ [Next]_vars =>
        [\A e \in episodes \ episodes' :
           \E r \in Reqs :
             /\ ctx[r].stage = "node"
             /\ e.group = GroupOf(ctx[r].vis)
             /\ e.mem = ctx[r].mem \/ e.data = ctx[r].data]_vars
  BY StepWithin DEF Within
<1> QED
  BY <1>1, <1>2, <1>3, TypeCorrect, PTL DEF Spec, CascadeStaysWithin

=============================================================================

----------------------------- MODULE MemoryStore -----------------------------
(***************************************************************************)
(* The rows of one partition of the vector store (one user, scope, project, *)
(* tier and workspace) and everything that writes them concurrently:        *)
(*                                                                         *)
(*   - writers: store_raw looks the text up by its hash, then inserts a new *)
(*     row, or reinforces and revives the row it found;                     *)
(*   - dedup passes: dedup_memories scrolls every row page by page and      *)
(*     then deletes, of each text, all rows but the newest it saw;          *)
(*   - editors: patch_memory and the dream's _rewrite_content, which write  *)
(*     back what they read;                                                 *)
(*   - the dream's tombstones, and deletes.                                 *)
(*                                                                         *)
(* Nothing locks a row: every call to Qdrant is a step of its own.  The     *)
(* hash of a row follows its text, so the model keeps the text alone.       *)
(***************************************************************************)
EXTENDS Integers, FiniteSets, FiniteSetsExt

CONSTANTS
  Ids,          \* row ids; their order is the order of a scroll
  Texts,        \* texts a row can hold
  Writers, Dedups, Editors,  \* slots of concurrent store, dedup and edit calls
  StoreMayFail, \* may calls to Qdrant fail?
  MaxStores, MaxEdits, MaxTombstones, MaxDeletes, \* bounds on the calls of a behaviour
  MaxClock      \* bound on time

Procs == Writers \cup Dedups \cup Editors
Bounds == [store |-> MaxStores, edit |-> MaxEdits, tombstone |-> MaxTombstones,
           delete |-> MaxDeletes]

ASSUME MemoryStoreAssumption ==
  /\ Ids \subseteq Nat
  /\ StoreMayFail \in BOOLEAN
  /\ {MaxStores, MaxEdits, MaxTombstones, MaxDeletes, MaxClock} \subseteq Nat
  /\ Writers \cap Dedups = {} /\ Writers \cap Editors = {} /\ Dedups \cap Editors = {}

Gone == [state |-> "gone"]
\* created_at, metadata.times_derived and metadata.dream_tombstoned
Row == [state: {"live"}, text: Texts, created: Nat, times: Nat, tomb: BOOLEAN]
Store == [Ids -> Row \cup {Gone}]

VARIABLES
  rows,    \* the vector store
  used,    \* ids minted so far
  now,     \* the wall clock
  ctx,     \* local state of every call
  spent,   \* calls made so far, by kind
  newest,  \* history: per text, the newest row a store inserted
  deleted, rewritten, \* history: texts of which some row was deleted on request; upserted
  observed \* history: how often each text was stored

vars == <<rows, used, now, ctx, spent, newest, deleted, rewritten, observed>>
history == <<newest, deleted, rewritten, observed>>
excused == deleted \cup rewritten

Idle == [stage |-> "idle"]
NoRow == [id |-> -1, created |-> -1]

\* A store_raw call: what it stores, when it was stamped
Storing == [stage: {"lookup", "insert"}, text: Texts, created: Nat]
\* ... that found row id, or a dedup pass at its survivor: _bump_times_derived
Reviving == [stage: {"revive", "clear"}, id: Ids]
Bumping == [stage: {"bump", "bumped"}, id: Ids, add: Nat, times: Nat, seen: Store]
\* A pass: the pages read so far, then the snapshot without the rows it is done
\* with, the text whose group it is in the middle of, and the counters summed up
Deduping == [stage: {"scroll", "delete"}, page: Nat, seen: Store, group: SUBSET Texts,
             gain: Nat]
\* An edit: the row as read, and the text to write
Editing == [stage: {"patch", "upsert"}, id: Ids, row: Row, text: Texts]

Call == {Idle} \cup Storing \cup Bumping \cup Reviving \cup Deduping \cup Editing
Calls(p) ==
  {Idle} \cup (IF p \in Writers THEN Storing \cup Bumping \cup Reviving
              ELSE IF p \in Dedups THEN Deduping \cup Bumping
              ELSE Editing)

Live(i) == rows[i].state = "live"
Tombstoned(i) == Live(i) /\ rows[i].tomb
Empty == [i \in Ids |-> Gone]

TypeOK ==
  /\ rows \in Store
  /\ used \subseteq Ids
  /\ now \in Nat
  /\ ctx \in [Procs -> Call]
  /\ \A p \in Procs : ctx[p] \in Calls(p)
  /\ spent \in [DOMAIN Bounds -> Nat]
  /\ newest \in [Texts -> {NoRow} \cup [id: Ids, created: Nat]]
  /\ deleted \subseteq Texts
  /\ rewritten \subseteq Texts
  /\ observed \in [Texts -> Nat]

Init ==
  /\ rows = Empty
  /\ used = {}
  /\ now = 0
  /\ ctx = [p \in Procs |-> Idle]
  /\ spent = [k \in DOMAIN Bounds |-> 0]
  /\ newest = [k \in Texts |-> NoRow]
  /\ deleted = {}
  /\ rewritten = {}
  /\ observed = [k \in Texts |-> 0]

Step(p, c) == ctx' = [ctx EXCEPT ![p] = c]
Spend(kind) ==
  /\ spent[kind] < Bounds[kind]
  /\ spent' = [spent EXCEPT ![kind] = @ + 1]

NewerOrSame(a, b) == a.created >= b.created
\* Order of dedup_memories: newest first, and for equal stamps (the sort is
\* stable) in the order of the scroll
Newer(a, b) == a.created > b.created \/ (a.created = b.created /\ a.id < b.id)
At(i, row) == [id |-> i, created |-> row.created]

Tick ==
  /\ now < MaxClock
  /\ now' = now + 1
  /\ UNCHANGED <<rows, used, ctx, spent, history>>

-----------------------------------------------------------------------------
(* store_raw *)

\* The call begins: now_iso is taken before the lookup.  (The worker's semantic
\* probe of the same text comes first; a hit there ends the call with no write.)
StoreBegin(w, text) ==
  /\ ctx[w] = Idle
  /\ Spend("store")
  /\ Step(w, [stage |-> "lookup", text |-> text, created |-> now])
  /\ UNCHANGED <<rows, used, now, history>>

\* _find_by_content_hash: any one row of the text, tombstoned or not
LookupHit(w, i) ==
  /\ ctx[w].stage = "lookup"
  /\ Live(i) /\ rows[i].text = ctx[w].text
  /\ observed' = [observed EXCEPT ![ctx[w].text] = @ + 1]
  /\ Step(w, [stage |-> "bump", id |-> i, add |-> 1, times |-> 0, seen |-> Empty])
  /\ UNCHANGED <<rows, used, now, spent, newest, deleted, rewritten>>

\* No row, or the lookup failed: rather a duplicate than a lost write
LookupMiss(w) ==
  /\ ctx[w].stage = "lookup"
  /\ StoreMayFail \/ \A i \in Ids : Live(i) => rows[i].text # ctx[w].text
  /\ Step(w, [ctx[w] EXCEPT !.stage = "insert"])
  /\ UNCHANGED <<rows, used, now, spent, history>>

\* _finalize_raw_store, after the embedding: the row gets a uuid of its own
Insert(w, i) ==
  LET new == [id |-> i, created |-> ctx[w].created]
      text == ctx[w].text
  IN
  /\ ctx[w].stage = "insert"
  /\ i \notin used
  /\ used' = used \cup {i}
  /\ rows' = [rows EXCEPT ![i] = [state |-> "live", text |-> text, created |-> new.created,
                                  times |-> 1, tomb |-> FALSE]]
  /\ newest' = IF newest[text] = NoRow \/ Newer(new, newest[text])
               THEN [newest EXCEPT ![text] = new] ELSE newest
  /\ observed' = [observed EXCEPT ![text] = @ + 1]
  /\ Step(w, Idle)
  /\ UNCHANGED <<now, spent, deleted, rewritten>>

-----------------------------------------------------------------------------
(* _bump_times_derived, of a writer or of a dedup pass, and the revival *)

AfterBumpRevive(p) == [stage |-> "revive", id |-> ctx[p].id]
\* A writer goes on to revive the row, a pass to its next group
AfterBump(p) ==
  IF p \in Writers THEN [stage |-> "revive", id |-> ctx[p].id]
  ELSE [stage |-> "delete", page |-> 0, seen |-> ctx[p].seen, group |-> {}, gain |-> 0]

BumpRead(p) ==
  /\ ctx[p].stage = "bump"
  /\ \/ /\ Live(ctx[p].id)
        /\ Step(p, [ctx[p] EXCEPT !.stage = "bumped", !.times = rows[ctx[p].id].times])
     \/ /\ StoreMayFail \/ ~Live(ctx[p].id)
        /\ Step(p, AfterBump(p))
  /\ UNCHANGED <<rows, used, now, spent, history>>

\* A nested-key merge: times_derived alone, of a row that is there
BumpWrite(p) ==
  LET i == ctx[p].id IN
  /\ ctx[p].stage = "bumped"
  /\ \/ /\ Live(i)
        /\ rows' = [rows EXCEPT ![i] = [@ EXCEPT !.times = ctx[p].times + ctx[p].add]]
     \/ /\ StoreMayFail \/ ~Live(i)
        /\ UNCHANGED rows
  /\ Step(p, AfterBump(p))
  /\ UNCHANGED <<used, now, spent, history>>

\* _revive_if_tombstoned
ReviveRead(w) ==
  /\ ctx[w].stage = "revive"
  /\ \/ /\ Tombstoned(ctx[w].id)
        /\ Step(w, [ctx[w] EXCEPT !.stage = "clear"])
     \/ /\ StoreMayFail \/ ~Tombstoned(ctx[w].id)
        /\ Step(w, Idle)
  /\ UNCHANGED <<rows, used, now, spent, history>>

ReviveWrite(w) ==
  LET i == ctx[w].id IN
  /\ ctx[w].stage = "clear"
  /\ \/ /\ Live(i)
        /\ rows' = [rows EXCEPT ![i] = [@ EXCEPT !.tomb = FALSE]]
     \/ /\ StoreMayFail \/ ~Live(i)
        /\ UNCHANGED rows
  /\ Step(w, Idle)
  /\ UNCHANGED <<used, now, spent, history>>

-----------------------------------------------------------------------------
(* dedup_memories, its exact phase *)

DedupBegin(d) ==
  /\ ctx[d] = Idle
  /\ Step(d, [stage |-> "scroll", page |-> 0, seen |-> Empty, group |-> {}, gain |-> 0])
  /\ UNCHANGED <<rows, used, now, spent, history>>

\* Every row is read at its own page's time
DedupScroll(d) ==
  /\ ctx[d].stage = "scroll"
  /\ \E i \in Ids :
       /\ i >= ctx[d].page
       /\ \A k \in Ids : k >= ctx[d].page => i <= k
       /\ Step(d, [ctx[d] EXCEPT !.page = i + 1, !.seen[i] = rows[i]])
  /\ UNCHANGED <<rows, used, now, spent, history>>

DedupScrolled(d) ==
  /\ ctx[d].stage = "scroll"
  /\ \A i \in Ids : i < ctx[d].page
  /\ Step(d, [ctx[d] EXCEPT !.stage = "delete"])
  /\ UNCHANGED <<rows, used, now, spent, history>>

GroupOfRecalled(seen, text) ==
  {i \in Ids : seen[i].state = "live" /\ seen[i].text = text /\ ~seen[i].tomb}
\* The rows of a text in a snapshot
Group(seen, text) == {i \in Ids : seen[i].state = "live" /\ seen[i].text = text}
\* Row i heads its group: of those seen, no row of the text is newer
HeadOfGroup(seen, text, i) ==
  /\ i \in Group(seen, text)
  /\ \A k \in Group(seen, text) \ {i} : Newer(At(i, seen[i]), At(k, seen[k]))

CountedWithGroup(seen, dup) ==
  MapThenSumSet(LAMBDA i : seen[i].times, Group(seen, seen[dup].text))
\* What a dropped row counts for
Counted(seen, dup) == seen[dup].times

\* Delete the duplicates of one text, newest first, and sum up their counters; the
\* row counts as deleted also when another pass was faster.  A failed delete is
\* skipped.  After the last one the survivor absorbs the sum.
DedupDelete(d, text, survivor, dup) ==
  LET seen == ctx[d].seen
      left == [seen EXCEPT ![dup] = Gone]
      last == Group(left, text) = {survivor}
  IN
  /\ ctx[d].stage = "delete"
  /\ ctx[d].group \subseteq {text}
  /\ HeadOfGroup(seen, text, survivor)
  /\ dup # survivor
  /\ HeadOfGroup([seen EXCEPT ![survivor] = Gone], text, dup)
  /\ \E ok \in IF StoreMayFail THEN BOOLEAN ELSE {TRUE} :
       LET gain == ctx[d].gain + (IF ok THEN Counted(seen, dup) ELSE 0) IN
       /\ rows' = IF ok THEN [rows EXCEPT ![dup] = Gone] ELSE rows
       /\ Step(d, IF last /\ gain > 0
                  THEN [stage |-> "bump", id |-> survivor, add |-> gain, times |-> 0, seen |-> left]
                  ELSE [ctx[d] EXCEPT !.seen = left, !.gain = gain,
                                      !.group = IF last THEN {} ELSE {text}])
  /\ UNCHANGED <<used, now, spent, history>>

DedupEnd(d) ==
  /\ ctx[d].stage = "delete"
  /\ \A text \in Texts, i, k \in Ids :
       i \in Group(ctx[d].seen, text) /\ k \in Group(ctx[d].seen, text) => i = k
  /\ Step(d, Idle)
  /\ UNCHANGED <<rows, used, now, spent, history>>

-----------------------------------------------------------------------------
(* Edits, tombstones, deletes *)

\* patch_memory reads the row; text is its own text for a metadata-only edit
PatchRead(e, i, text) ==
  /\ ctx[e] = Idle
  /\ Spend("edit")
  /\ Live(i)
  /\ Step(e, [stage |-> "patch", id |-> i, row |-> rows[i], text |-> text])
  /\ UNCHANGED <<rows, used, now, history>>

\* A metadata-only edit replaces the whole nested metadata by what was read, with
\* the requested keys changed
PatchMetadata(e) ==
  LET c == ctx[e] IN
  /\ c.stage = "patch" /\ c.text = c.row.text
  /\ rows' = IF Live(c.id)
             THEN [rows EXCEPT ![c.id] = [@ EXCEPT !.times = c.row.times, !.tomb = c.row.tomb]]
             ELSE rows
  /\ Step(e, Idle)
  /\ UNCHANGED <<used, now, spent, history>>

\* Memory.update looks once more whether the row exists, before it embeds
PatchUpdate(e) ==
  /\ ctx[e].stage = "patch" /\ ctx[e].text # ctx[e].row.text
  /\ Step(e, IF Live(ctx[e].id) THEN [ctx[e] EXCEPT !.stage = "upsert"] ELSE Idle)
  /\ UNCHANGED <<rows, used, now, spent, history>>

\* The dream's _rewrite_content: one read, then embed and upsert
RewriteRead(e, i, text) ==
  /\ ctx[e] = Idle
  /\ Spend("edit")
  /\ Live(i)
  /\ Step(e, [stage |-> "upsert", id |-> i, row |-> rows[i], text |-> text])
  /\ UNCHANGED <<rows, used, now, history>>

\* The point is written whole, also when it was deleted meanwhile
Upsert(e) ==
  LET c == ctx[e] IN
  /\ c.stage = "upsert"
  /\ rows' = [rows EXCEPT ![c.id] = [c.row EXCEPT !.text = c.text]]
  /\ rewritten' = rewritten \cup {c.text} \cup (IF Live(c.id) THEN {rows[c.id].text} ELSE {})
  /\ Step(e, Idle)
  /\ UNCHANGED <<used, now, spent, newest, deleted, observed>>

\* consolidate._tombstone: a nested-key merge, decided from an older snapshot
Tombstone(i) ==
  /\ Spend("tombstone")
  /\ Live(i)
  /\ rows' = [rows EXCEPT ![i] = [@ EXCEPT !.tomb = TRUE]]
  /\ UNCHANGED <<used, now, ctx, history>>

\* delete_memory, a purged secret, or an expiry
Delete(i) ==
  /\ Spend("delete")
  /\ Live(i)
  /\ rows' = [rows EXCEPT ![i] = Gone]
  /\ deleted' = deleted \cup {rows[i].text}
  /\ UNCHANGED <<used, now, ctx, newest, rewritten, observed>>

-----------------------------------------------------------------------------

WriterStep(w) ==
  \/ LookupMiss(w) \/ BumpRead(w) \/ BumpWrite(w) \/ ReviveRead(w) \/ ReviveWrite(w)
  \/ \E i \in Ids : LookupHit(w, i) \/ Insert(w, i)

DedupStep(d) ==
  \/ DedupBegin(d) \/ DedupScroll(d) \/ DedupScrolled(d) \/ DedupEnd(d)
  \/ BumpRead(d) \/ BumpWrite(d)
  \/ \E text \in Texts, survivor, dup \in Ids : DedupDelete(d, text, survivor, dup)

EditorStep(e) == PatchMetadata(e) \/ PatchUpdate(e) \/ Upsert(e)

Next ==
  \/ Tick
  \/ \E w \in Writers : WriterStep(w) \/ \E text \in Texts : StoreBegin(w, text)
  \/ \E d \in Dedups : DedupStep(d)
  \/ \E e \in Editors :
       EditorStep(e) \/ \E i \in Ids, text \in Texts : PatchRead(e, i, text) \/ RewriteRead(e, i, text)
  \/ \E i \in Ids : Tombstone(i) \/ Delete(i)

Spec == Init /\ [][Next]_vars

\* Calls that began go on, and the cron (or a compile) runs dedup again and again
Fairness ==
  /\ \A w \in Writers : WF_vars(WriterStep(w))
  /\ \A d \in Dedups : WF_vars(DedupStep(d))
  /\ \A e \in Editors : WF_vars(EditorStep(e))

FairSpec == Spec /\ Fairness

-----------------------------------------------------------------------------
(* Properties *)

RowsOf(text) == {i \in Ids : Live(i) /\ rows[i].text = text}
Recallable(text) == \E i \in RowsOf(text) : ~rows[i].tomb

\* A stored text keeps a row, tombstoned or not, unless a row of it was deleted on
\* request or edited: passes that overlap, that scroll while rows come and go, and
\* that act on a stale snapshot never delete the last copy between them.
NoFactLost ==
  \A text \in Texts \ excused : newest[text] # NoRow => RowsOf(text) # {}

\* Reinforcement is never invented: the counters of a text's rows add up to no more
\* than the times it was stored, whatever bumps, a pass and edits of metadata do at
\* once.  (Bumps may be lost, by the code's own account.)  An upsert takes a counter
\* along to another text, or brings back a row a pass has counted; and passes that
\* overlap count twice, so the run has one at a time.
NeverOverCounted ==
  \A text \in Texts \ rewritten :
    MapThenSumSet(LAMBDA i : rows[i].times, RowsOf(text)) <= observed[text]

\* Racing stores of one text leave duplicates, and recurring passes collapse them
\* to one row.
DuplicatesCollapse ==
  <>[](\A text \in Texts : Cardinality(RowsOf(text)) <= 1)

\* memory/delete.py:624 calls the exact phase lossless: a pass takes no text out of
\* recall.
DedupIsLossless ==
  [][(\E d \in Dedups : ctx[d].stage = "delete" /\ ctx'[d] # ctx[d])
       => \A text \in Texts : Recallable(text) => Recallable(text)']_vars

\* How far that is from true: a pass takes a text out of recall only if the row it was
\* stored as last is tombstoned, not because passes or snapshots disagree.
RecallLostOnlyToTombstone ==
  [][(\E d \in Dedups : ctx[d].stage = "delete" /\ ctx'[d] # ctx[d])
       => \A text \in Texts \ excused :
            Recallable(text) /\ ~Recallable(text)' => Tombstoned(newest[text].id)]_vars

\* memory/edit.py:80 says that a key absent from an edit is untouched: a
\* metadata-only edit (of tags, say) leaves the tombstone as it is.
PatchLeavesAbsentKeys ==
  [][(\E e \in Editors : ctx[e].stage = "patch" /\ ctx'[e] # ctx[e])
       => \A i \in Ids : Live(i) => rows'[i].tomb = rows[i].tomb]_vars

=============================================================================

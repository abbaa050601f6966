------------------------- MODULE MemoryStore_proofs -------------------------
(***************************************************************************)
(* Proofs about MemoryStore, for any sets of row ids, texts and concurrent  *)
(* calls and any bounds: its types, and that stores and dedup passes never  *)
(* lose the last row of a text between them.                                *)
(***************************************************************************)
EXTENDS MemoryStore, TLAPS

-----------------------------------------------------------------------------
(* Types *)

CtxOK(c) == c \in [Procs -> Call] /\ \A p \in Procs : c[p] \in Calls(p)

\* TypeOK but for the local states
TypeRest ==
  /\ rows \in Store
  /\ used \subseteq Ids
  /\ now \in Nat
  /\ spent \in [DOMAIN Bounds -> Nat]
  /\ newest \in [Texts -> {NoRow} \cup [id: Ids, created: Nat]]
  /\ deleted \subseteq Texts
  /\ rewritten \subseteq Texts
  /\ observed \in [Texts -> Nat]

LEMMA TypeSplit == TypeOK <=> TypeRest /\ CtxOK(ctx)
BY DEF TypeOK, TypeRest, CtxOK

LEMMA TypeSplitNext == TypeOK' <=> TypeRest' /\ CtxOK(ctx')
BY DEF TypeOK, TypeRest, CtxOK

LEMMA StepType ==
  ASSUME CtxOK(ctx), NEW p \in Procs, NEW c \in Calls(p), Step(p, c)
  PROVE  CtxOK(ctx')
<1>1. c \in Call
  BY DEF Calls, Call
<1> QED
  BY <1>1 DEF CtxOK, Step

\* The stage of a slot tells what it holds.
LEMMA CtxByStage ==
  ASSUME CtxOK(ctx), NEW p \in Procs
  PROVE  /\ ctx[p].stage \in {"lookup", "insert"} => ctx[p] \in Storing
         /\ ctx[p].stage \in {"revive", "clear"} => ctx[p] \in Reviving
         /\ ctx[p].stage \in {"bump", "bumped"} => ctx[p] \in Bumping
         /\ ctx[p].stage \in {"scroll", "delete"} => ctx[p] \in Deduping
         /\ ctx[p].stage \in {"patch", "upsert"} => ctx[p] \in Editing
<1>1. ctx[p] \in {Idle} \cup Storing \cup Reviving \cup Bumping \cup Deduping \cup Editing
  BY DEF CtxOK, Calls
<1>2. /\ Idle.stage = "idle"
      /\ \A c \in Storing : c.stage \in {"lookup", "insert"}
      /\ \A c \in Reviving : c.stage \in {"revive", "clear"}
      /\ \A c \in Bumping : c.stage \in {"bump", "bumped"}
      /\ \A c \in Deduping : c.stage \in {"scroll", "delete"}
      /\ \A c \in Editing : c.stage \in {"patch", "upsert"}
  BY DEF Idle, Storing, Reviving, Bumping, Deduping, Editing
<1> QED
  BY <1>1, <1>2

\* Which slots may hold what.
LEMMA CallsOf ==
  /\ \A p \in Procs : Idle \in Calls(p)
  /\ \A w \in Writers : w \in Procs /\ Calls(w) = {Idle} \cup Storing \cup Bumping \cup Reviving
  /\ \A d \in Dedups : d \in Procs /\ Calls(d) = {Idle} \cup Deduping \cup Bumping
  /\ \A e \in Editors : e \in Procs /\ Calls(e) = {Idle} \cup Editing
BY MemoryStoreAssumption DEF Calls, Procs

LEMMA StepIdle ==
  ASSUME CtxOK(ctx), NEW p \in Procs, Step(p, Idle)
  PROVE  CtxOK(ctx')
BY StepType, CallsOf

LEMMA SpendType ==
  ASSUME TypeOK, NEW kind \in DOMAIN Bounds, Spend(kind)
  PROVE  spent' \in [DOMAIN Bounds -> Nat]
BY DEF Spend, TypeOK

LEMMA Kinds == {"store", "edit", "tombstone", "delete"} \subseteq DOMAIN Bounds
BY DEF Bounds

LEMMA RowsType ==
  ASSUME NEW s \in Store, NEW i \in Ids, NEW new \in Row \cup {Gone}
  PROVE  [s EXCEPT ![i] = new] \in Store
BY DEF Store

LEMMA LiveRow ==
  ASSUME NEW s \in Store, NEW i \in Ids, s[i].state = "live"
  PROVE  s[i] \in Row
BY DEF Store, Gone

LEMMA EmptyType == Empty \in Store
BY DEF Empty, Store

LEMMA TypeInit == Init => TypeOK
<1> SUFFICES ASSUME Init PROVE TypeOK
  OBVIOUS
<1>1. TypeRest
  BY EmptyType DEF Init, TypeRest
<1>2. CtxOK(ctx)
  BY CallsOf DEF Init, CtxOK, Call
<1> QED
  BY <1>1, <1>2, TypeSplit

LEMMA WriterBegins ==
  ASSUME TypeOK, NEW w \in Writers, NEW text \in Texts, StoreBegin(w, text)
  PROVE  TypeOK'
<1> DEFINE c == [stage |-> "lookup", text |-> text, created |-> now]
<1>1. c \in Storing
  BY DEF TypeOK, Storing
<1>2. CtxOK(ctx')
  <2>1. Step(w, c)
    BY DEF StoreBegin
  <2> HIDE DEF c
  <2> QED
    BY <1>1, <2>1, TypeSplit, CallsOf, StepType
<1>3. TypeRest'
  BY SpendType, Kinds DEF TypeOK, TypeRest, StoreBegin, history
<1> QED
  BY <1>2, <1>3, TypeSplitNext

LEMMA LookupHitType ==
  ASSUME TypeOK, NEW w \in Writers, NEW i \in Ids, LookupHit(w, i)
  PROVE  TypeOK'
<1> DEFINE c == [stage |-> "bump", id |-> i, add |-> 1, times |-> 0, seen |-> Empty]
<1>1. c \in Bumping /\ Step(w, c)
  BY EmptyType DEF Bumping, LookupHit
<1>2. ctx[w].text \in Texts
  BY CtxByStage, CallsOf, TypeSplit DEF LookupHit, Storing
<1>3. CtxOK(ctx')
  <2> HIDE DEF c
  <2> QED
    BY <1>1, TypeSplit, CallsOf, StepType
<1>4. TypeRest'
  BY <1>2 DEF TypeOK, TypeRest, LookupHit
<1> QED
  BY <1>3, <1>4, TypeSplitNext

LEMMA LookupMissType ==
  ASSUME TypeOK, NEW w \in Writers, LookupMiss(w)
  PROVE  TypeOK'
<1>1. ctx[w] \in Storing
  BY CtxByStage, CallsOf, TypeSplit DEF LookupMiss
<1>2. [ctx[w] EXCEPT !.stage = "insert"] \in Storing
  BY <1>1 DEF Storing
<1>3. CtxOK(ctx')
  BY <1>2, TypeSplit, CallsOf, StepType DEF LookupMiss
<1>4. TypeRest'
  BY DEF TypeOK, TypeRest, LookupMiss, history
<1> QED
  BY <1>3, <1>4, TypeSplitNext

LEMMA InsertType ==
  ASSUME TypeOK, NEW w \in Writers, NEW i \in Ids, Insert(w, i)
  PROVE  TypeOK'
<1> DEFINE row == [state |-> "live", text |-> ctx[w].text, created |-> ctx[w].created,
                   times |-> 1, tomb |-> FALSE]
           new == [id |-> i, created |-> ctx[w].created]
<1>1. ctx[w] \in Storing
  BY CtxByStage, CallsOf, TypeSplit DEF Insert
<1>2. ctx[w].text \in Texts /\ ctx[w].created \in Nat
  BY <1>1 DEF Storing
<1>3. row \in Row /\ new \in [id: Ids, created: Nat]
  BY <1>2 DEF Row
<1>4. rows' = [rows EXCEPT ![i] = row]
  BY DEF Insert
<1>5. rows' \in Store
  <2> HIDE DEF row
  <2> QED
    BY <1>3, <1>4, RowsType DEF TypeOK
<1>6. newest' \in [Texts -> {NoRow} \cup [id: Ids, created: Nat]]
  <2>1. newest' = newest \/ newest' = [newest EXCEPT ![ctx[w].text] = new]
    BY DEF Insert
  <2> HIDE DEF new
  <2> QED
    BY <1>2, <1>3, <2>1 DEF TypeOK
<1>7. TypeRest'
  BY <1>2, <1>5, <1>6 DEF TypeOK, TypeRest, Insert
<1>8. CtxOK(ctx')
  BY TypeSplit, CallsOf, StepIdle DEF Insert
<1> QED
  BY <1>7, <1>8, TypeSplitNext

\* Writing a field of a live row.
LEMMA RowFields ==
  ASSUME NEW row \in Row, NEW n \in Nat, NEW b \in BOOLEAN, NEW k \in Texts
  PROVE  /\ [row EXCEPT !.times = n] \in Row
         /\ [row EXCEPT !.tomb = b] \in Row
         /\ [row EXCEPT !.times = n, !.tomb = b] \in Row
         /\ [row EXCEPT !.text = k] \in Row
         /\ row.text \in Texts /\ row.created \in Nat /\ row.times \in Nat /\ row.tomb \in BOOLEAN
         /\ row.state = "live"
BY DEF Row

LEMMA AfterBumpType ==
  ASSUME TypeOK, NEW p \in Writers \cup Dedups, ctx[p] \in Bumping
  PROVE  AfterBump(p) \in Calls(p)
<1>1. ctx[p].id \in Ids /\ ctx[p].seen \in Store
  BY DEF Bumping
<1>2. CASE p \in Writers
  BY <1>1, <1>2, CallsOf DEF AfterBump, Reviving
<1>3. CASE p \notin Writers
  BY <1>1, <1>3, CallsOf DEF AfterBump, Deduping
<1> QED
  BY <1>2, <1>3

LEMMA BumpReadType ==
  ASSUME TypeOK, NEW p \in Writers \cup Dedups, BumpRead(p)
  PROVE  TypeOK'
<1>1. ctx[p] \in Bumping
  BY CtxByStage, CallsOf, TypeSplit DEF BumpRead
<1>2. ctx[p].id \in Ids
  BY <1>1 DEF Bumping
<1>3. CtxOK(ctx')
  <2>1. CASE Live(ctx[p].id) /\ Step(p, [ctx[p] EXCEPT !.stage = "bumped", !.times = rows[ctx[p].id].times])
    <3>1. rows[ctx[p].id].times \in Nat
      BY <1>2, <2>1, LiveRow, RowFields DEF TypeOK, Live, Row
    <3>2. [ctx[p] EXCEPT !.stage = "bumped", !.times = rows[ctx[p].id].times] \in Bumping
      BY <1>1, <3>1 DEF Bumping
    <3> QED
      BY <2>1, <3>2, TypeSplit, CallsOf, StepType
  <2>2. CASE Step(p, AfterBump(p))
    BY <1>1, <2>2, AfterBumpType, TypeSplit, CallsOf, StepType
  <2> QED
    BY <2>1, <2>2 DEF BumpRead
<1>4. TypeRest'
  BY DEF TypeOK, TypeRest, BumpRead, history
<1> QED
  BY <1>3, <1>4, TypeSplitNext

LEMMA BumpWriteType ==
  ASSUME TypeOK, NEW p \in Writers \cup Dedups, BumpWrite(p)
  PROVE  TypeOK'
<1>1. ctx[p] \in Bumping
  BY CtxByStage, CallsOf, TypeSplit DEF BumpWrite
<1>2. ctx[p].id \in Ids /\ ctx[p].times + ctx[p].add \in Nat
  BY <1>1 DEF Bumping
<1> DEFINE new == [rows[ctx[p].id] EXCEPT !.times = ctx[p].times + ctx[p].add]
<1>3. rows' \in Store
  <2>1. CASE Live(ctx[p].id) /\ rows' = [rows EXCEPT ![ctx[p].id] = new]
    <3>1. rows[ctx[p].id] \in Row
      BY <1>2, <2>1, LiveRow DEF TypeOK, Live
    <3>2. new \in Row
      BY <1>2, <3>1 DEF Row
    <3> HIDE DEF new
    <3> QED
      BY <1>2, <2>1, <3>2, RowsType DEF TypeOK
  <2>2. CASE UNCHANGED rows
    BY <2>2 DEF TypeOK
  <2> QED
    BY <2>1, <2>2 DEF BumpWrite
<1>4. CtxOK(ctx')
  BY <1>1, AfterBumpType, TypeSplit, CallsOf, StepType DEF BumpWrite
<1>5. TypeRest'
  BY <1>3 DEF TypeOK, TypeRest, BumpWrite, history
<1> QED
  BY <1>4, <1>5, TypeSplitNext

LEMMA ReviveType ==
  ASSUME TypeOK, NEW w \in Writers, ReviveRead(w) \/ ReviveWrite(w)
  PROVE  TypeOK'
<1>1. ctx[w] \in Reviving
  BY CtxByStage, CallsOf, TypeSplit DEF ReviveRead, ReviveWrite
<1>2. ctx[w].id \in Ids /\ [ctx[w] EXCEPT !.stage = "clear"] \in Reviving
  BY <1>1 DEF Reviving
<1>3. CtxOK(ctx')
  BY <1>2, TypeSplit, CallsOf, StepIdle, StepType DEF ReviveRead, ReviveWrite
<1> DEFINE new == [rows[ctx[w].id] EXCEPT !.tomb = FALSE]
<1>4. rows' \in Store
  <2>1. CASE Live(ctx[w].id) /\ rows' = [rows EXCEPT ![ctx[w].id] = new]
    <3>1. rows[ctx[w].id] \in Row
      BY <1>2, <2>1, LiveRow DEF TypeOK, Live
    <3>2. new \in Row
      BY <1>2, <3>1 DEF Row
    <3> HIDE DEF new
    <3> QED
      BY <1>2, <2>1, <3>2, RowsType DEF TypeOK
  <2>2. CASE UNCHANGED rows
    BY <2>2 DEF TypeOK
  <2> QED
    BY <2>1, <2>2 DEF ReviveRead, ReviveWrite
<1>5. TypeRest'
  BY <1>4 DEF TypeOK, TypeRest, ReviveRead, ReviveWrite, history
<1> QED
  BY <1>3, <1>5, TypeSplitNext

LEMMA DedupScrollType ==
  ASSUME TypeOK, NEW d \in Dedups, DedupBegin(d) \/ DedupScroll(d) \/ DedupScrolled(d) \/ DedupEnd(d)
  PROVE  TypeOK'
<1>1. CtxOK(ctx')
  <2>1. CASE DedupBegin(d)
    <3>1. [stage |-> "scroll", page |-> 0, seen |-> Empty, group |-> {}, gain |-> 0] \in Deduping
      BY EmptyType DEF Deduping
    <3> QED
      BY <2>1, <3>1, TypeSplit, CallsOf, StepType DEF DedupBegin
  <2>2. CASE DedupScroll(d)
    <3>1. ctx[d] \in Deduping
      BY <2>2, CtxByStage, CallsOf, TypeSplit DEF DedupScroll
    <3>2. PICK i \in Ids : Step(d, [ctx[d] EXCEPT !.page = i + 1, !.seen[i] = rows[i]])
      BY <2>2 DEF DedupScroll
    <3>3. rows[i] \in Row \cup {Gone} /\ i + 1 \in Nat
      BY MemoryStoreAssumption DEF TypeOK, Store
    <3>4. [ctx[d].seen EXCEPT ![i] = rows[i]] \in Store
      BY <3>1, <3>3, RowsType DEF Deduping
    <3>5. [ctx[d] EXCEPT !.page = i + 1, !.seen[i] = rows[i]] \in Deduping
      BY <3>1, <3>3, <3>4 DEF Deduping
    <3> QED
      BY <3>2, <3>5, TypeSplit, CallsOf, StepType
  <2>3. CASE DedupScrolled(d)
    <3>1. ctx[d] \in Deduping
      BY <2>3, CtxByStage, CallsOf, TypeSplit DEF DedupScrolled
    <3>2. [ctx[d] EXCEPT !.stage = "delete"] \in Deduping
      BY <3>1 DEF Deduping
    <3> QED
      BY <2>3, <3>2, TypeSplit, CallsOf, StepType DEF DedupScrolled
  <2>4. CASE DedupEnd(d)
    BY <2>4, TypeSplit, CallsOf, StepIdle DEF DedupEnd
  <2> QED
    BY <2>1, <2>2, <2>3, <2>4
<1>2. TypeRest'
  BY DEF TypeOK, TypeRest, DedupBegin, DedupScroll, DedupScrolled, DedupEnd, history
<1> QED
  BY <1>1, <1>2, TypeSplitNext

LEMMA DedupDeleteType ==
  ASSUME TypeOK, NEW d \in Dedups, NEW text \in Texts, NEW survivor \in Ids, NEW dup \in Ids,
         DedupDelete(d, text, survivor, dup)
  PROVE  TypeOK'
<1> DEFINE left == [ctx[d].seen EXCEPT ![dup] = Gone]
<1>1. ctx[d] \in Deduping
  BY CtxByStage, CallsOf, TypeSplit DEF DedupDelete
<1>2. left \in Store
  BY <1>1, RowsType DEF Deduping
<1>3. ctx[d].seen[dup].times \in Nat
  <2>1. ctx[d].seen[dup].state = "live"
    <3>1. ctx[d].seen[dup] = [ctx[d].seen EXCEPT ![survivor] = Gone][dup]
      BY <1>1 DEF DedupDelete, Deduping, Store
    <3> QED
      BY <3>1 DEF DedupDelete, HeadOfGroup, Group
  <2> QED
    BY <1>1, <2>1, LiveRow, RowFields DEF Deduping, Row
<1>4. PICK ok \in BOOLEAN :
        LET gain == ctx[d].gain + (IF ok THEN Counted(ctx[d].seen, dup) ELSE 0) IN
        /\ rows' = IF ok THEN [rows EXCEPT ![dup] = Gone] ELSE rows
        /\ \/ /\ gain > 0
              /\ Step(d, [stage |-> "bump", id |-> survivor, add |-> gain, times |-> 0, seen |-> left])
           \/ \E group \in {{}, {text}} :
                Step(d, [ctx[d] EXCEPT !.seen = left, !.gain = gain, !.group = group])
  BY MemoryStoreAssumption DEF DedupDelete
<1> DEFINE gain == ctx[d].gain + (IF ok THEN Counted(ctx[d].seen, dup) ELSE 0)
<1>5. gain \in Nat
  BY <1>1, <1>3 DEF Deduping, Counted
<1> HIDE DEF left, gain
<1>6. [stage |-> "bump", id |-> survivor, add |-> gain, times |-> 0, seen |-> left] \in Bumping
  BY <1>2, <1>5 DEF Bumping
<1>7. \A group \in {{}, {text}} :
        [ctx[d] EXCEPT !.seen = left, !.gain = gain, !.group = group] \in Deduping
  BY <1>1, <1>2, <1>5 DEF Deduping
<1>8. CtxOK(ctx')
  <2>1. \/ Step(d, [stage |-> "bump", id |-> survivor, add |-> gain, times |-> 0, seen |-> left])
        \/ \E group \in {{}, {text}} :
             Step(d, [ctx[d] EXCEPT !.seen = left, !.gain = gain, !.group = group])
    BY <1>4 DEF left, gain
  <2> QED
    BY <1>6, <1>7, <2>1, TypeSplit, CallsOf, StepType
<1>9. TypeRest'
  BY <1>4, RowsType DEF TypeOK, TypeRest, DedupDelete, history
<1> QED
  BY <1>8, <1>9, TypeSplitNext

LEMMA EditReadType ==
  ASSUME TypeOK, NEW e \in Editors, NEW i \in Ids, NEW text \in Texts,
         PatchRead(e, i, text) \/ RewriteRead(e, i, text)
  PROVE  TypeOK'
<1>1. rows[i] \in Row
  BY LiveRow DEF TypeOK, PatchRead, RewriteRead, Live
<1>2. PICK s \in {"patch", "upsert"} : Step(e, [stage |-> s, id |-> i, row |-> rows[i], text |-> text])
  BY DEF PatchRead, RewriteRead
<1>3. [stage |-> s, id |-> i, row |-> rows[i], text |-> text] \in Editing
  BY <1>1 DEF Editing
<1>4. CtxOK(ctx')
  BY <1>2, <1>3, TypeSplit, CallsOf, StepType
<1>5. TypeRest'
  BY SpendType, Kinds DEF TypeOK, TypeRest, PatchRead, RewriteRead, history
<1> QED
  BY <1>4, <1>5, TypeSplitNext

LEMMA EditorStepType ==
  ASSUME TypeOK, NEW e \in Editors, EditorStep(e)
  PROVE  TypeOK'
<1>1. ctx[e] \in Editing
  BY CtxByStage, CallsOf, TypeSplit DEF EditorStep, PatchMetadata, PatchUpdate, Upsert
<1>2. ctx[e].id \in Ids /\ ctx[e].row \in Row /\ ctx[e].text \in Texts
  BY <1>1 DEF Editing
<1>3. CtxOK(ctx')
  <2>1. [ctx[e] EXCEPT !.stage = "upsert"] \in Editing
    BY <1>1 DEF Editing
  <2> QED
    BY <2>1, TypeSplit, CallsOf, StepIdle, StepType DEF EditorStep, PatchMetadata, PatchUpdate, Upsert
<1>4. rows' \in Store
  <2>1. CASE PatchMetadata(e)
    <3> DEFINE new == [rows[ctx[e].id] EXCEPT !.times = ctx[e].row.times, !.tomb = ctx[e].row.tomb]
    <3>1. CASE Live(ctx[e].id)
      <4>1. new \in Row
        BY <1>2, <3>1, LiveRow, RowFields DEF TypeOK, Live
      <4>2. rows' = [rows EXCEPT ![ctx[e].id] = new]
        BY <2>1, <3>1 DEF PatchMetadata
      <4> HIDE DEF new
      <4> QED
        BY <1>2, <4>1, <4>2, RowsType DEF TypeOK
    <3>2. CASE ~Live(ctx[e].id)
      BY <2>1, <3>2 DEF PatchMetadata, TypeOK
    <3> QED
      BY <3>1, <3>2
  <2>2. CASE PatchUpdate(e)
    BY <2>2 DEF PatchUpdate, TypeOK
  <2>3. CASE Upsert(e)
    BY <1>2, <2>3, RowFields, RowsType DEF Upsert, TypeOK
  <2> QED
    BY <2>1, <2>2, <2>3 DEF EditorStep
<1>5. deleted' \subseteq Texts /\ rewritten' \subseteq Texts
  <2>1. Live(ctx[e].id) => rows[ctx[e].id].text \in Texts
    BY <1>2, LiveRow, RowFields DEF TypeOK, Live, Row
  <2> QED
    BY <1>2, <2>1 DEF EditorStep, PatchMetadata, PatchUpdate, Upsert, TypeOK, history
<1>6. TypeRest'
  BY <1>4, <1>5 DEF TypeOK, TypeRest, EditorStep, PatchMetadata, PatchUpdate, Upsert, history
<1> QED
  BY <1>3, <1>6, TypeSplitNext

LEMMA OtherType ==
  ASSUME TypeOK, Tick \/ (\E i \in Ids : Tombstone(i) \/ Delete(i))
  PROVE  TypeOK'
<1>1. CASE Tick
  BY <1>1, TypeSplitNext DEF Tick, TypeOK, TypeRest, CtxOK, history
<1>2. ASSUME NEW i \in Ids, Tombstone(i) \/ Delete(i)
      PROVE  TypeOK'
  <2>1. rows[i] \in Row /\ rows[i].text \in Texts
    BY <1>2, LiveRow DEF Tombstone, Delete, Live, TypeOK, Row
  <2>2. rows' \in Store
    <3>1. [rows[i] EXCEPT !.tomb = TRUE] \in Row
      BY <2>1 DEF Row
    <3>2. rows' = [rows EXCEPT ![i] = [rows[i] EXCEPT !.tomb = TRUE]] \/ rows' = [rows EXCEPT ![i] = Gone]
      BY <1>2 DEF Tombstone, Delete
    <3>3. rows \in Store /\ Gone \in Row \cup {Gone}
      BY DEF TypeOK
    <3>4. CASE rows' = [rows EXCEPT ![i] = [rows[i] EXCEPT !.tomb = TRUE]]
      BY <3>1, <3>3, <3>4, RowsType
    <3>5. CASE rows' = [rows EXCEPT ![i] = Gone]
      BY <3>3, <3>5, RowsType
    <3> QED
      BY <3>2, <3>4, <3>5
  <2>3. TypeRest'
    <3>1. spent' \in [DOMAIN Bounds -> Nat]
      BY <1>2, SpendType, Kinds DEF Tombstone, Delete
    <3>2. deleted' \subseteq Texts /\ rewritten' \subseteq Texts
      BY <1>2, <2>1 DEF Tombstone, Delete, TypeOK, history
    <3>3. UNCHANGED <<used, now, newest, observed>>
      BY <1>2 DEF Tombstone, Delete, history
    <3> QED
      BY <2>2, <3>1, <3>2, <3>3 DEF TypeOK, TypeRest
  <2> QED
    BY <1>2, <2>3, TypeSplit, TypeSplitNext DEF Tombstone, Delete
<1> QED
  BY <1>1, <1>2

LEMMA TypeNext == TypeOK /\ [Next]_vars => TypeOK'
<1> SUFFICES ASSUME TypeOK, [Next]_vars PROVE TypeOK'
  OBVIOUS
<1>1. ASSUME NEW w \in Writers, WriterStep(w) \/ \E text \in Texts : StoreBegin(w, text)
      PROVE  TypeOK'
  BY <1>1, WriterBegins, LookupHitType, LookupMissType, InsertType, BumpReadType,
     BumpWriteType, ReviveType DEF WriterStep
<1>2. ASSUME NEW d \in Dedups, DedupStep(d)
      PROVE  TypeOK'
  BY <1>2, DedupScrollType, DedupDeleteType, BumpReadType, BumpWriteType DEF DedupStep
<1>3. ASSUME NEW e \in Editors,
             EditorStep(e) \/ \E i \in Ids, text \in Texts : PatchRead(e, i, text) \/ RewriteRead(e, i, text)
      PROVE  TypeOK'
  BY <1>3, EditorStepType, EditReadType
<1>4. CASE UNCHANGED vars
  BY <1>4, TypeSplit, TypeSplitNext DEF vars, TypeRest
<1> QED
  BY <1>1, <1>2, <1>3, <1>4, OtherType DEF Next

\* Every variable keeps its type: in particular a dedup pass never takes up the
\* continuation of a writer, nor a writer that of a pass, though both share the bump.
THEOREM TypeCorrect == Spec => []TypeOK
<1>1. Init => TypeOK
  BY TypeInit
<1>2. TypeOK /\ [Next]_vars => TypeOK'
  BY TypeNext
<1> QED
  BY <1>1, <1>2, PTL DEF Spec

-----------------------------------------------------------------------------
(* No fact is lost *)

\* NoFactLost is not inductive: it does not say which row of a text survives.  The
\* newest row ever stored does: no pass can have seen a newer one to delete it for.
\* A pass acts on a snapshot, so this has to be said of every row it has seen.
UpTo(text, row) ==
  newest[text] # NoRow /\ (newest[text] = row \/ Newer(newest[text], row))

RowsMinted == \A i \in Ids : Live(i) => i \in used
RowsKnown == \A i \in Ids : Live(i) => rows[i].text \in excused \/ UpTo(rows[i].text, At(i, rows[i]))
NewestLives ==
  \A k \in Texts \ excused : newest[k] # NoRow =>
    /\ Live(newest[k].id)
    /\ rows[newest[k].id].text = k
    /\ rows[newest[k].id].created = newest[k].created
EditsMinted == \A e \in Editors : ctx[e].stage \in {"patch", "upsert"} => ctx[e].id \in used

SnapshotOK(s) ==
  \A i \in Ids : s[i].state = "live" =>
    /\ i \in used
    /\ s[i].text \in excused \/ UpTo(s[i].text, At(i, s[i]))
    /\ Live(i) => \/ rows[i].text \in rewritten
                  \/ rows[i].text = s[i].text /\ rows[i].created = s[i].created
Passing == {"scroll", "delete", "bump", "bumped"}
SnapshotsOK == \A d \in Dedups : ctx[d].stage \in Passing => SnapshotOK(ctx[d].seen)

Retention == RowsMinted /\ RowsKnown /\ NewestLives /\ EditsMinted /\ SnapshotsOK

\* A step under which every snapshot stays good
Kept ==
  /\ used \subseteq used'
  /\ deleted \subseteq deleted' /\ rewritten \subseteq rewritten'
  /\ \A k \in Texts, r \in [id: Ids, created: Nat] : UpTo(k, r) => UpTo(k, r)'
  /\ \A i \in used : Live(i)' =>
       \/ rows'[i].text \in rewritten'
       \/ Live(i) /\ rows'[i].text = rows[i].text /\ rows'[i].created = rows[i].created

\* A step that inserts nothing, and takes away or rewrites only what it excuses
Unharmed ==
  /\ UNCHANGED <<used, newest>>
  /\ deleted \subseteq deleted' /\ rewritten \subseteq rewritten'
  /\ \A i \in Ids :
       /\ Live(i)' => \/ i \in used /\ rows'[i].text \in rewritten'
                      \/ Live(i) /\ rows'[i].text = rows[i].text /\ rows'[i].created = rows[i].created
       /\ Live(i) /\ rows[i].text \notin excused' =>
            Live(i)' /\ rows'[i].text = rows[i].text /\ rows'[i].created = rows[i].created

LEMMA NewestType ==
  ASSUME TypeOK, NEW k \in Texts, newest[k] # NoRow
  PROVE  newest[k] \in [id: Ids, created: Nat] /\ newest[k].id \in Ids /\ newest[k].created \in Nat
BY DEF TypeOK

LEMMA UnharmedKeeps ==
  ASSUME TypeOK, Retention, Unharmed
  PROVE  RowsMinted' /\ RowsKnown' /\ NewestLives' /\ Kept
<1>1. RowsMinted'
  BY DEF Retention, RowsMinted, Unharmed
<1>2. RowsKnown'
  BY DEF Retention, RowsKnown, Unharmed, UpTo, At, excused
<1>3. NewestLives'
  <2> SUFFICES ASSUME NEW k \in Texts \ excused', newest'[k] # NoRow
               PROVE  /\ rows'[newest'[k].id].state = "live"
                      /\ rows'[newest'[k].id].text = k
                      /\ rows'[newest'[k].id].created = newest'[k].created
    BY DEF NewestLives, Live
  <2>1. newest' = newest /\ k \notin excused /\ newest[k].id \in Ids
    BY NewestType DEF Unharmed, excused
  <2>2. Live(newest[k].id) /\ rows[newest[k].id].text = k /\ rows[newest[k].id].created = newest[k].created
    BY <2>1 DEF Retention, NewestLives
  <2> QED
    BY <2>1, <2>2 DEF Unharmed, Live
<1>4. Kept
  BY DEF Kept, Unharmed, UpTo, TypeOK
<1> QED
  BY <1>1, <1>2, <1>3, <1>4

LEMMA SnapshotsKept ==
  ASSUME TypeOK, Kept,
         \A d \in Dedups : ctx'[d].stage \in Passing =>
           \E s \in Store : ctx'[d].seen = s /\ SnapshotOK(s)
  PROVE  SnapshotsOK'
<1> SUFFICES ASSUME NEW d \in Dedups, ctx'[d].stage \in Passing
             PROVE  SnapshotOK(ctx[d].seen)'
  BY DEF SnapshotsOK
<1>1. PICK s \in Store : ctx'[d].seen = s /\ SnapshotOK(s)
  OBVIOUS
<1>2. ASSUME NEW i \in Ids, s[i].state = "live"
      PROVE  /\ i \in used'
             /\ s[i].text \in excused' \/ UpTo(s[i].text, At(i, s[i]))'
             /\ Live(i)' => \/ rows'[i].text \in rewritten'
                            \/ rows'[i].text = s[i].text /\ rows'[i].created = s[i].created
  <2>1. i \in used /\ (s[i].text \in excused \/ UpTo(s[i].text, At(i, s[i])))
    BY <1>1, <1>2 DEF SnapshotOK
  <2>2. s[i].text \in Texts /\ At(i, s[i]) \in [id: Ids, created: Nat]
    BY <1>2, LiveRow DEF Row, At
  <2>3. s[i].text \in excused' \/ UpTo(s[i].text, At(i, s[i]))'
    BY <2>1, <2>2 DEF Kept, excused
  <2>4. Live(i)' => \/ rows'[i].text \in rewritten'
                    \/ rows'[i].text = s[i].text /\ rows'[i].created = s[i].created
    BY <1>1, <1>2, <2>1 DEF Kept, SnapshotOK
  <2> QED
    BY <2>1, <2>3, <2>4 DEF Kept
<1> QED
  BY <1>1, <1>2 DEF SnapshotOK, UpTo, At

\* A step of a writer or an editor leaves the snapshots alone.
LEMMA OthersSnapshots ==
  ASSUME TypeOK, SnapshotsOK, NEW p \in Procs \ Dedups, NEW c, Step(p, c) 
  PROVE  \A d \in Dedups : ctx'[d].stage \in Passing =>
           \E s \in Store : ctx'[d].seen = s /\ SnapshotOK(s)
<1> SUFFICES ASSUME NEW d \in Dedups, ctx'[d].stage \in Passing
             PROVE  \E s \in Store : ctx'[d].seen = s /\ SnapshotOK(s)
  OBVIOUS
<1>1. ctx'[d] = ctx[d] /\ d \in Procs
  BY CallsOf DEF Step, TypeOK
<1>2. ctx[d].seen \in Store
  BY <1>1, CtxByStage, TypeSplit DEF Passing, Bumping, Deduping
<1> QED
  BY <1>1, <1>2 DEF SnapshotsOK

\* A step of a pass to a call that holds a good snapshot, or none.
LEMMA PassSnapshots ==
  ASSUME TypeOK, SnapshotsOK, NEW d \in Dedups, NEW c, Step(d, c),
         c.stage \in Passing => c.seen \in Store /\ SnapshotOK(c.seen)
  PROVE  \A o \in Dedups : ctx'[o].stage \in Passing =>
           \E s \in Store : ctx'[o].seen = s /\ SnapshotOK(s)
<1> SUFFICES ASSUME NEW o \in Dedups, ctx'[o].stage \in Passing
             PROVE  \E s \in Store : ctx'[o].seen = s /\ SnapshotOK(s)
  OBVIOUS
<1>1. ctx'[o] = (IF o = d THEN c ELSE ctx[o]) /\ o \in Procs
  BY CallsOf DEF Step, TypeOK
<1>2. CASE o = d
  BY <1>1, <1>2
<1>3. CASE o # d
  <2>1. ctx[o].seen \in Store
    BY <1>1, <1>3, CtxByStage, TypeSplit DEF Passing, Bumping, Deduping
  <2> QED
    BY <1>1, <1>3, <2>1 DEF SnapshotsOK
<1> QED
  BY <1>2, <1>3

\* What an unharmed step, one that takes care of its own snapshot, preserves.
LEMMA UnharmedStep ==
  ASSUME TypeOK, Retention, Unharmed, EditsMinted',
         \A d \in Dedups : ctx'[d].stage \in Passing =>
           \E s \in Store : ctx'[d].seen = s /\ SnapshotOK(s)
  PROVE  Retention'
BY UnharmedKeeps, SnapshotsKept DEF Retention

\* A step of slot p to an edit of a minted row, or to no edit, keeps edits minted.
LEMMA EditsStep ==
  ASSUME TypeOK, EditsMinted, used \subseteq used', NEW p \in Procs, NEW c, Step(p, c),
         p \in Editors /\ c.stage \in {"patch", "upsert"} => c.id \in used
  PROVE  EditsMinted'
<1>1. \A q \in Procs : ctx'[q] = IF q = p THEN c ELSE ctx[q]
  BY DEF Step, TypeOK
<1> QED
  BY <1>1, CallsOf DEF EditsMinted

\* Rows that only change their counters and tombstones are unharmed.
LEMMA SameTexts ==
  ASSUME TypeOK, UNCHANGED <<used, newest, deleted, rewritten>>, NEW j \in Ids, NEW row \in Row, Live(j),
         row.text = rows[j].text, row.created = rows[j].created,
         rows' = [rows EXCEPT ![j] = row]
  PROVE  Unharmed
<1>1. row.state = "live"
  BY DEF Row
<1>2. \A i \in Ids : rows'[i] = IF i = j THEN row ELSE rows[i]
  BY DEF TypeOK, Store
<1> QED
  BY <1>1, <1>2 DEF Unharmed, Live

LEMMA SameRows ==
  ASSUME UNCHANGED <<rows, used, newest>>, deleted \subseteq deleted', rewritten \subseteq rewritten'
  PROVE  Unharmed
BY DEF Unharmed, Live

\* A row taken away, with its text excused
LEMMA Taken ==
  ASSUME TypeOK, UNCHANGED <<used, newest>>, NEW j \in Ids,
         rows' = [rows EXCEPT ![j] = Gone],
         deleted' = deleted \cup {rows[j].text}, rewritten' = rewritten
  PROVE  Unharmed
<1>1. \A i \in Ids : rows'[i] = IF i = j THEN Gone ELSE rows[i]
  BY DEF TypeOK, Store
<1> QED
  BY <1>1 DEF Unharmed, Live, Gone, excused

LEMMA WriterRetention ==
  ASSUME TypeOK, Retention, NEW w \in Writers,
         \/ \E text \in Texts : StoreBegin(w, text)
         \/ \E i \in Ids : LookupHit(w, i)
         \/ LookupMiss(w) \/ BumpRead(w) \/ BumpWrite(w) \/ ReviveRead(w) \/ ReviveWrite(w)
  PROVE  Retention'
<1>1. w \in Procs \ Dedups /\ w \notin Editors
  BY CallsOf, MemoryStoreAssumption
<1>2. PICK c : Step(w, c)
  BY DEF StoreBegin, LookupHit, LookupMiss, BumpRead, BumpWrite, ReviveRead, ReviveWrite
<1>3. UNCHANGED <<used, newest, deleted, rewritten>>
  BY DEF StoreBegin, LookupHit, LookupMiss, BumpRead, BumpWrite, ReviveRead, ReviveWrite, history
<1>4. Unharmed
  <2>1. CASE UNCHANGED rows
    BY <1>3, <2>1, SameRows
  <2>2. CASE BumpWrite(w) /\ ~UNCHANGED rows
    <3>1. ctx[w] \in Bumping
      BY <1>1, <2>2, CtxByStage, TypeSplit DEF BumpWrite
    <3>2. ctx[w].id \in Ids /\ ctx[w].times + ctx[w].add \in Nat
      BY <3>1 DEF Bumping
    <3>3. rows[ctx[w].id] \in Row
      BY <2>2, <3>2, LiveRow DEF BumpWrite, TypeOK, Live
    <3> DEFINE row == [rows[ctx[w].id] EXCEPT !.times = ctx[w].times + ctx[w].add]
    <3>4. row \in Row /\ row.text = rows[ctx[w].id].text /\ row.created = rows[ctx[w].id].created
      BY <3>2, <3>3 DEF Row
    <3>5. Live(ctx[w].id) /\ rows' = [rows EXCEPT ![ctx[w].id] = row]
      BY <2>2 DEF BumpWrite
    <3> HIDE DEF row
    <3> QED
      BY <1>3, <3>2, <3>4, <3>5, SameTexts
  <2>3. CASE ReviveWrite(w) /\ ~UNCHANGED rows
    <3>1. ctx[w].id \in Ids
      BY <1>1, <2>3, CtxByStage, TypeSplit DEF ReviveWrite, Reviving
    <3>2. rows[ctx[w].id] \in Row
      BY <2>3, <3>1, LiveRow DEF ReviveWrite, TypeOK, Live
    <3> DEFINE row == [rows[ctx[w].id] EXCEPT !.tomb = FALSE]
    <3>3. row \in Row /\ row.text = rows[ctx[w].id].text /\ row.created = rows[ctx[w].id].created
      BY <3>1, <3>2 DEF Row
    <3>4. Live(ctx[w].id) /\ rows' = [rows EXCEPT ![ctx[w].id] = row]
      BY <2>3 DEF ReviveWrite
    <3> HIDE DEF row
    <3> QED
      BY <1>3, <3>1, <3>3, <3>4, SameTexts
  <2> QED
    BY <2>1, <2>2, <2>3 DEF StoreBegin, LookupHit, LookupMiss, BumpRead, BumpWrite, ReviveRead
<1>5. EditsMinted'
  BY <1>1, <1>2, <1>3, EditsStep DEF Retention
<1> QED
  BY <1>1, <1>2, <1>4, <1>5, OthersSnapshots, UnharmedStep DEF Retention

LEMMA EditorRetention ==
  ASSUME TypeOK, Retention, NEW e \in Editors,
         \/ EditorStep(e)
         \/ \E i \in Ids, text \in Texts : PatchRead(e, i, text) \/ RewriteRead(e, i, text)
  PROVE  Retention'
<1>1. e \in Procs \ Dedups
  BY CallsOf, MemoryStoreAssumption
<1>2. UNCHANGED <<used, newest>> /\ deleted \subseteq deleted' /\ rewritten \subseteq rewritten'
  BY DEF EditorStep, PatchMetadata, PatchUpdate, Upsert, PatchRead, RewriteRead, history
<1>3. CASE \E i \in Ids, text \in Texts : PatchRead(e, i, text) \/ RewriteRead(e, i, text)
  <2>1. PICK i \in Ids, text \in Texts, s \in {"patch", "upsert"} :
          /\ Live(i)
          /\ Step(e, [stage |-> s, id |-> i, row |-> rows[i], text |-> text])
    BY <1>3 DEF PatchRead, RewriteRead
  <2>2. i \in used
    BY <2>1 DEF Retention, RowsMinted
  <2>3. Unharmed
    BY <1>2, <1>3, SameRows DEF PatchRead, RewriteRead
  <2> DEFINE c == [stage |-> s, id |-> i, row |-> rows[i], text |-> text]
  <2>4. c.id = i /\ Step(e, c)
    BY <2>1
  <2> HIDE DEF c
  <2> QED
    BY <1>1, <1>2, <2>2, <2>3, <2>4, EditsStep, OthersSnapshots, UnharmedStep DEF Retention
<1>4. CASE EditorStep(e)
  <2>1. ctx[e] \in Editing
    BY <1>1, <1>4, CtxByStage, TypeSplit DEF EditorStep, PatchMetadata, PatchUpdate, Upsert
  <2>2. ctx[e].id \in Ids /\ ctx[e].row \in Row /\ ctx[e].text \in Texts /\ ctx[e].id \in used
    BY <1>4, <2>1 DEF Editing, Retention, EditsMinted, EditorStep, PatchMetadata, PatchUpdate, Upsert
  <2>3. Unharmed
    <3>1. CASE UNCHANGED rows
      BY <1>2, <3>1, SameRows
    <3>2. CASE PatchMetadata(e) /\ ~UNCHANGED rows
      <4>1. Live(ctx[e].id) /\ rows[ctx[e].id] \in Row
        BY <2>2, <3>2, LiveRow DEF PatchMetadata, TypeOK, Live
      <4> DEFINE row == [rows[ctx[e].id] EXCEPT !.times = ctx[e].row.times, !.tomb = ctx[e].row.tomb]
      <4>2. row \in Row /\ row.text = rows[ctx[e].id].text /\ row.created = rows[ctx[e].id].created
        BY <2>2, <4>1 DEF Row
      <4>3. rows' = [rows EXCEPT ![ctx[e].id] = row] /\ UNCHANGED <<used, newest, deleted, rewritten>>
        BY <3>2, <4>1 DEF PatchMetadata, history
      <4> HIDE DEF row
      <4> QED
        BY <2>2, <4>1, <4>2, <4>3, SameTexts
    <3>3. CASE Upsert(e)
      <4> DEFINE row == [ctx[e].row EXCEPT !.text = ctx[e].text]
      <4>1. row.text = ctx[e].text /\ row.state = "live"
        BY <2>2 DEF Row
      <4>2. rows' = [rows EXCEPT ![ctx[e].id] = row] /\ ctx[e].text \in rewritten'
        BY <3>3 DEF Upsert
      <4>3. Live(ctx[e].id) => rows[ctx[e].id].text \in rewritten'
        BY <3>3 DEF Upsert
      <4> HIDE DEF row
      <4>4. \A i \in Ids : rows'[i] = IF i = ctx[e].id THEN row ELSE rows[i]
        BY <4>2 DEF TypeOK, Store
      <4> QED
        BY <1>2, <2>2, <4>1, <4>2, <4>3, <4>4 DEF Unharmed, Live, excused
    <3> QED
      BY <1>4, <3>1, <3>2, <3>3 DEF EditorStep, PatchUpdate
  <2>4. PICK c : Step(e, c) /\ (c.stage \in {"patch", "upsert"} => c.id \in used)
    <3>1. [ctx[e] EXCEPT !.stage = "upsert"].id \in used
      BY <2>1, <2>2 DEF Editing
    <3>2. Idle.stage \notin {"patch", "upsert"}
      BY DEF Idle
    <3> QED
      BY <1>4, <3>1, <3>2 DEF EditorStep, PatchMetadata, PatchUpdate, Upsert
  <2> QED
    BY <1>1, <1>2, <2>3, <2>4, EditsStep, OthersSnapshots, UnharmedStep DEF Retention
<1> QED
  BY <1>3, <1>4

\* The order is strict, so a newest row of a snapshot stands below the newest row
\* ever, and the other rows of its text strictly below.
LEMMA NewerStrict ==
  ASSUME NEW a \in [id: Ids, created: Nat], NEW b \in [id: Ids, created: Nat],
         NEW c \in [id: Ids, created: Nat]
  PROVE  /\ ~Newer(a, a)
         /\ Newer(a, b) /\ Newer(b, c) => Newer(a, c)
<1>1. /\ a.id \in Nat /\ b.id \in Nat /\ c.id \in Nat
      /\ a.created \in Nat /\ b.created \in Nat /\ c.created \in Nat
  BY MemoryStoreAssumption
<1> QED
  BY <1>1 DEF Newer

LEMMA InsertRetention ==
  ASSUME TypeOK, Retention, NEW w \in Writers, NEW i \in Ids, Insert(w, i)
  PROVE  Retention'
<1> DEFINE row == [state |-> "live", text |-> ctx[w].text, created |-> ctx[w].created,
                   times |-> 1, tomb |-> FALSE]
           new == [id |-> i, created |-> ctx[w].created]
           text == ctx[w].text
<1>1. w \in Procs \ Dedups /\ w \notin Editors
  BY CallsOf, MemoryStoreAssumption
<1>2. ctx[w] \in Storing
  BY <1>1, CtxByStage, TypeSplit DEF Insert
<1>3. text \in Texts /\ new \in [id: Ids, created: Nat]
  BY <1>2 DEF Storing
<1>4. /\ row.state = "live" /\ row.text = text /\ row.created = ctx[w].created
      /\ At(i, row) = new /\ new.id = i /\ new.created = row.created
  BY DEF At
<1>5. /\ i \notin used /\ used' = used \cup {i} /\ UNCHANGED <<deleted, rewritten>>
      /\ rows' = [rows EXCEPT ![i] = row]
      /\ Step(w, Idle)
  BY DEF Insert
<1>6. newest' = IF newest[text] = NoRow \/ Newer(new, newest[text])
                THEN [newest EXCEPT ![text] = new] ELSE newest
  BY DEF Insert
<1> HIDE DEF row, new, text
<1>7. \A k \in Ids : rows'[k] = IF k = i THEN row ELSE rows[k]
  BY <1>5 DEF TypeOK, Store
<1>8. \A k \in Texts : newest'[k] = IF k = text /\ (newest[k] = NoRow \/ Newer(new, newest[k]))
                                   THEN new ELSE newest[k]
  BY <1>3, <1>6 DEF TypeOK
<1>9. new # NoRow
  BY <1>3, MemoryStoreAssumption DEF NoRow
<1>10. \A k \in Texts, r \in [id: Ids, created: Nat] : UpTo(k, r) => UpTo(k, r)'
  BY <1>3, <1>8, <1>9, NewestType, NewerStrict DEF UpTo
<1>11. newest[text] = NoRow \/ Newer(new, newest[text]) \/ newest[text] = new \/ Newer(newest[text], new)
  <2>1. ASSUME newest[text] # NoRow, newest[text].created = new.created, newest[text].id = new.id
        PROVE  newest[text] = new
    BY <1>3, <2>1, NewestType
  <2>2. CASE newest[text] # NoRow
    <3>1. /\ newest[text].id \in Nat /\ newest[text].created \in Nat
          /\ new.id \in Nat /\ new.created \in Nat
      BY <1>3, <2>2, NewestType, MemoryStoreAssumption
    <3> QED
      BY <2>1, <2>2, <3>1 DEF Newer
  <2> QED
    BY <2>2
<1>12. newest'[text] # NoRow /\ (newest'[text] = new \/ Newer(newest'[text], new))
  BY <1>3, <1>8, <1>9, <1>11 DEF UpTo
<1>13. RowsMinted'
  BY <1>5, <1>7 DEF Retention, RowsMinted, Live
<1>14. RowsKnown'
  <2> SUFFICES ASSUME NEW k \in Ids, rows'[k].state = "live", rows'[k].text \notin excused'
               PROVE  UpTo(rows[k].text, At(k, rows[k]))'
    BY DEF RowsKnown, Live
  <2>1. CASE k = i
    BY <1>4, <1>7, <1>12, <2>1 DEF UpTo, At
  <2>2. CASE k # i
    <3>1. rows'[k] = rows[k] /\ Live(k) /\ rows[k].text \notin excused
      BY <1>5, <1>7, <2>2 DEF Live, excused
    <3>2. UpTo(rows[k].text, At(k, rows[k]))
      BY <3>1 DEF Retention, RowsKnown
    <3>3. rows[k].text \in Texts /\ At(k, rows[k]) \in [id: Ids, created: Nat]
      BY <3>1, LiveRow DEF TypeOK, Live, Row, At
    <3> QED
      BY <1>10, <3>1, <3>2, <3>3 DEF UpTo, At
  <2> QED
    BY <2>1, <2>2
<1>15. NewestLives'
  <2> SUFFICES ASSUME NEW k \in Texts, k \notin excused', newest'[k] # NoRow
               PROVE  /\ rows'[newest'[k].id].state = "live"
                      /\ rows'[newest'[k].id].text = k
                      /\ rows'[newest'[k].id].created = newest'[k].created
    BY DEF NewestLives, Live
  <2>1. CASE newest'[k] = new /\ k = text
    BY <1>3, <1>4, <1>7, <2>1
  <2>2. CASE newest'[k] = newest[k]
    <3>1. newest[k].id \in Ids /\ Live(newest[k].id) /\ rows[newest[k].id].text = k
          /\ rows[newest[k].id].created = newest[k].created
      BY <1>5, <2>2, NewestType DEF Retention, NewestLives, excused
    <3>2. newest[k].id # i
      BY <1>5, <3>1 DEF Retention, RowsMinted
    <3> QED
      BY <1>7, <2>2, <3>1, <3>2 DEF Live
  <2> QED
    BY <1>8, <2>1, <2>2
<1>16. EditsMinted'
  BY <1>1, <1>5, EditsStep DEF Retention
<1>17. Kept
  BY <1>5, <1>7, <1>10 DEF Kept, Live, TypeOK
<1>18. SnapshotsOK'
  BY <1>1, <1>5, <1>17, OthersSnapshots, SnapshotsKept DEF Retention
<1> QED
  BY <1>13, <1>14, <1>15, <1>16, <1>18 DEF Retention

LEMMA DedupScrollRetention ==
  ASSUME TypeOK, Retention, NEW d \in Dedups,
         \/ DedupBegin(d) \/ DedupScroll(d) \/ DedupScrolled(d) \/ DedupEnd(d) \/ BumpRead(d)
  PROVE  Retention'
<1>1. d \in Procs /\ d \notin Editors /\ d \notin Writers
  BY CallsOf, MemoryStoreAssumption
<1>2. UNCHANGED <<rows, used, newest, deleted, rewritten>>
  BY DEF DedupBegin, DedupScroll, DedupScrolled, DedupEnd, BumpRead, history
<1>3. Unharmed
  BY <1>2, SameRows
<1>4. PICK c : Step(d, c) /\ (c.stage \in Passing => c.seen \in Store /\ SnapshotOK(c.seen))
  <2>1. CASE DedupBegin(d)
    <3> DEFINE c == [stage |-> "scroll", page |-> 0, seen |-> Empty, group |-> {}, gain |-> 0]
    <3>1. SnapshotOK(Empty)
      BY DEF SnapshotOK, Empty, Gone
    <3>2. c.seen = Empty /\ Step(d, c)
      BY <2>1 DEF DedupBegin
    <3> HIDE DEF c
    <3> QED
      BY <3>1, <3>2, EmptyType
  <2>2. CASE DedupScroll(d)
    <3>1. ctx[d] \in Deduping /\ SnapshotOK(ctx[d].seen)
      BY <1>1, <2>2, CtxByStage, TypeSplit DEF DedupScroll, Retention, SnapshotsOK, Passing
    <3>2. PICK i \in Ids : Step(d, [ctx[d] EXCEPT !.page = i + 1, !.seen[i] = rows[i]])
      BY <2>2 DEF DedupScroll
    <3> DEFINE c == [ctx[d] EXCEPT !.page = i + 1, !.seen[i] = rows[i]]
               s == [ctx[d].seen EXCEPT ![i] = rows[i]]
    <3>3. c.seen = s
      BY <3>1 DEF Deduping
    <3>4. s \in Store /\ \A k \in Ids : s[k] = IF k = i THEN rows[i] ELSE ctx[d].seen[k]
      BY <3>1, RowsType DEF Deduping, TypeOK, Store
    <3> HIDE DEF s
    <3>5. SnapshotOK(s)
      BY <3>1, <3>4 DEF SnapshotOK, Retention, RowsMinted, RowsKnown, Live
    <3> HIDE DEF c
    <3> QED
      BY <3>2, <3>3, <3>4, <3>5 DEF c
  <2>3. CASE DedupScrolled(d)
    <3>1. ctx[d] \in Deduping /\ SnapshotOK(ctx[d].seen)
      BY <1>1, <2>3, CtxByStage, TypeSplit DEF DedupScrolled, Retention, SnapshotsOK, Passing
    <3>2. [ctx[d] EXCEPT !.stage = "delete"].seen = ctx[d].seen /\ ctx[d].seen \in Store
      BY <3>1 DEF Deduping
    <3> QED
      BY <2>3, <3>1, <3>2 DEF DedupScrolled
  <2>4. CASE DedupEnd(d)
    BY <2>4 DEF DedupEnd, Idle, Passing
  <2>5. CASE BumpRead(d)
    <3>1. ctx[d] \in Bumping /\ SnapshotOK(ctx[d].seen)
      BY <1>1, <2>5, CtxByStage, TypeSplit DEF BumpRead, Retention, SnapshotsOK, Passing
    <3>2. ctx[d].seen \in Store /\ AfterBump(d).seen = ctx[d].seen
          /\ [ctx[d] EXCEPT !.stage = "bumped", !.times = rows[ctx[d].id].times].seen = ctx[d].seen
      BY <1>1, <3>1 DEF Bumping, AfterBump
    <3> QED
      BY <2>5, <3>1, <3>2 DEF BumpRead
  <2> QED
    BY <2>1, <2>2, <2>3, <2>4, <2>5
<1>5. EditsMinted'
  BY <1>1, <1>2, <1>4, EditsStep DEF Retention
<1> QED
  BY <1>3, <1>4, <1>5, PassSnapshots, UnharmedStep DEF Retention

LEMMA DedupBumpRetention ==
  ASSUME TypeOK, Retention, NEW d \in Dedups, BumpWrite(d)
  PROVE  Retention'
<1>1. d \in Procs /\ d \notin Editors /\ d \notin Writers
  BY CallsOf, MemoryStoreAssumption
<1>2. ctx[d] \in Bumping /\ SnapshotOK(ctx[d].seen)
  BY <1>1, CtxByStage, TypeSplit DEF BumpWrite, Retention, SnapshotsOK, Passing
<1>3. ctx[d].id \in Ids /\ ctx[d].times + ctx[d].add \in Nat /\ ctx[d].seen \in Store
  BY <1>2 DEF Bumping
<1>4. UNCHANGED <<used, newest, deleted, rewritten>> /\ Step(d, AfterBump(d)) /\ AfterBump(d).seen = ctx[d].seen
  BY <1>1 DEF BumpWrite, history, AfterBump
<1>5. Unharmed
  <2>1. CASE UNCHANGED rows
    BY <1>4, <2>1, SameRows
  <2>2. CASE ~UNCHANGED rows
    <3> DEFINE row == [rows[ctx[d].id] EXCEPT !.times = ctx[d].times + ctx[d].add]
    <3>1. Live(ctx[d].id) /\ rows' = [rows EXCEPT ![ctx[d].id] = row]
      BY <2>2 DEF BumpWrite
    <3>2. rows[ctx[d].id] \in Row
      BY <1>3, <3>1, LiveRow DEF TypeOK, Live
    <3>3. row \in Row /\ row.text = rows[ctx[d].id].text /\ row.created = rows[ctx[d].id].created
      BY <1>3, <3>2 DEF Row
    <3> HIDE DEF row
    <3> QED
      BY <1>3, <1>4, <3>1, <3>3, SameTexts
  <2> QED
    BY <2>1, <2>2
<1>6. EditsMinted'
  BY <1>1, <1>4, EditsStep DEF Retention
<1> QED
  BY <1>2, <1>3, <1>4, <1>5, <1>6, PassSnapshots, UnharmedStep DEF Retention

\* The heart of the argument: the row a pass deletes is not the newest of its text,
\* for the pass has seen a newer one, unless the text is excused.
LEMMA DupNotNewest ==
  ASSUME TypeOK, Retention, NEW d \in Dedups, NEW text \in Texts,
         NEW survivor \in Ids, NEW dup \in Ids, DedupDelete(d, text, survivor, dup),
         NEW k \in Texts \ excused, newest[k] # NoRow
  PROVE  newest[k].id # dup
<1> DEFINE s == ctx[d].seen
<1>1. ctx[d] \in Deduping /\ SnapshotOK(s)
  BY CallsOf, CtxByStage, TypeSplit DEF DedupDelete, Retention, SnapshotsOK, Passing
<1>2. s \in Store
  BY <1>1 DEF Deduping
<1> HIDE DEF s
<1>3. /\ s[survivor].state = "live" /\ s[survivor].text = text
      /\ s[dup].state = "live" /\ s[dup].text = text /\ dup # survivor
      /\ Newer(At(survivor, s[survivor]), At(dup, s[dup]))
  <2>1. HeadOfGroup(s, text, survivor) /\ dup # survivor
        /\ HeadOfGroup([s EXCEPT ![survivor] = Gone], text, dup)
    BY DEF DedupDelete, s
  <2>2. [s EXCEPT ![survivor] = Gone][dup] = s[dup]
    BY <1>2, <2>1 DEF Store
  <2>3. dup \in Group(s, text) /\ survivor \in Group(s, text)
    BY <2>1, <2>2 DEF HeadOfGroup, Group
  <2> QED
    BY <2>1, <2>3 DEF HeadOfGroup, Group
<1> SUFFICES ASSUME newest[k].id = dup PROVE FALSE
  OBVIOUS
<1>4. Live(dup) /\ rows[dup].text = k /\ rows[dup].created = newest[k].created
  BY DEF Retention, NewestLives
<1>5. text = k /\ rows[dup].created = s[dup].created
  BY <1>1, <1>3, <1>4 DEF SnapshotOK, excused
<1>6. newest[k] \in [id: Ids, created: Nat] /\ s[dup] \in Row /\ s[survivor] \in Row
  BY <1>2, <1>3, LiveRow, NewestType
<1>7. At(dup, s[dup]) = newest[k]
  BY <1>4, <1>5, <1>6 DEF At
<1>8. UpTo(k, At(survivor, s[survivor]))
  BY <1>1, <1>3, <1>5 DEF SnapshotOK
<1>9. At(survivor, s[survivor]) \in [id: Ids, created: Nat]
  BY <1>6 DEF At, Row
<1> QED
  BY <1>3, <1>6, <1>7, <1>8, <1>9, NewerStrict DEF UpTo

LEMMA DedupDeleteRetention ==
  ASSUME TypeOK, Retention, NEW d \in Dedups, NEW text \in Texts,
         NEW survivor \in Ids, NEW dup \in Ids, DedupDelete(d, text, survivor, dup)
  PROVE  Retention'
<1> DEFINE left == [ctx[d].seen EXCEPT ![dup] = Gone]
<1>1. d \in Procs /\ d \notin Editors
  BY CallsOf, MemoryStoreAssumption
<1>2. ctx[d] \in Deduping /\ SnapshotOK(ctx[d].seen)
  BY <1>1, CtxByStage, TypeSplit DEF DedupDelete, Retention, SnapshotsOK, Passing
<1>3. left \in Store /\ \A i \in Ids : left[i] = IF i = dup THEN Gone ELSE ctx[d].seen[i]
  BY <1>2, RowsType DEF Deduping, Store
<1>4. SnapshotOK(left)
  <2> HIDE DEF left
  <2> QED
    BY <1>2, <1>3 DEF SnapshotOK, Gone
<1>5. PICK g, h :
        \/ Step(d, [stage |-> "bump", id |-> survivor, add |-> g, times |-> 0, seen |-> left])
        \/ Step(d, [ctx[d] EXCEPT !.seen = left, !.gain = g, !.group = h])
  BY DEF DedupDelete
<1>6. PICK c : Step(d, c) /\ (c.stage \in Passing => c.seen \in Store /\ SnapshotOK(c.seen))
  <2>1. [ctx[d] EXCEPT !.seen = left, !.gain = g, !.group = h].seen = left
    BY <1>2 DEF Deduping
  <2>2. [stage |-> "bump", id |-> survivor, add |-> g, times |-> 0, seen |-> left].seen = left
    OBVIOUS
  <2> HIDE DEF left
  <2>3. CASE Step(d, [stage |-> "bump", id |-> survivor, add |-> g, times |-> 0, seen |-> left])
    BY <1>3, <1>4, <2>2, <2>3
  <2>4. CASE Step(d, [ctx[d] EXCEPT !.seen = left, !.gain = g, !.group = h])
    BY <1>3, <1>4, <2>1, <2>4
  <2> QED
    BY <1>5, <2>3, <2>4
<1>7. UNCHANGED <<used, newest, deleted, rewritten>>
  BY DEF DedupDelete, history
<1>8. rows' = rows \/ rows' = [rows EXCEPT ![dup] = Gone]
  BY DEF DedupDelete
<1>9. \A i \in Ids : rows'[i] = rows[i] \/ (i = dup /\ rows'[i] = Gone)
  BY <1>8 DEF TypeOK, Store
<1>10. RowsMinted'
  BY <1>7, <1>9 DEF Retention, RowsMinted, Live, Gone
<1>11. RowsKnown'
  BY <1>7, <1>9 DEF Retention, RowsKnown, Live, Gone, UpTo, At, excused
<1>12. NewestLives'
  <2> SUFFICES ASSUME NEW k \in Texts \ excused, newest[k] # NoRow
               PROVE  /\ rows'[newest[k].id].state = "live"
                      /\ rows'[newest[k].id].text = k
                      /\ rows'[newest[k].id].created = newest[k].created
    BY <1>7 DEF NewestLives, Live, excused
  <2>1. newest[k].id # dup /\ newest[k].id \in Ids
    BY DupNotNewest, NewestType
  <2> QED
    BY <1>9, <2>1 DEF Retention, NewestLives, Live
<1>13. EditsMinted'
  BY <1>1, <1>6, <1>7, EditsStep DEF Retention
<1>14. Kept
  BY <1>7, <1>9 DEF Kept, Live, Gone, UpTo, TypeOK
<1>15. SnapshotsOK'
  BY <1>6, <1>14, PassSnapshots, SnapshotsKept DEF Retention
<1> QED
  BY <1>10, <1>11, <1>12, <1>13, <1>15 DEF Retention

LEMMA OtherRetention ==
  ASSUME TypeOK, Retention,
         Tick \/ (\E i \in Ids : Tombstone(i) \/ Delete(i)) \/ UNCHANGED vars
  PROVE  Retention'
<1>1. UNCHANGED ctx
  BY DEF Tick, Tombstone, Delete, vars
<1>2. \A d \in Dedups : ctx'[d].stage \in Passing =>
        \E s \in Store : ctx'[d].seen = s /\ SnapshotOK(s)
  <2> SUFFICES ASSUME NEW d \in Dedups, ctx[d].stage \in Passing
               PROVE  ctx[d].seen \in Store /\ SnapshotOK(ctx[d].seen)
    BY <1>1
  <2>1. ctx[d].seen \in Store
    BY CallsOf, CtxByStage, TypeSplit DEF Passing, Bumping, Deduping
  <2> QED
    BY <2>1 DEF Retention, SnapshotsOK
<1>3. Unharmed
  <2>1. CASE Tick \/ UNCHANGED vars
    BY <2>1, SameRows DEF Tick, vars, history
  <2>2. ASSUME NEW i \in Ids, Tombstone(i) PROVE Unharmed
    <3>1. rows[i] \in Row /\ Live(i)
      BY <2>2, LiveRow DEF Tombstone, TypeOK, Live
    <3> DEFINE row == [rows[i] EXCEPT !.tomb = TRUE]
    <3>2. row \in Row /\ row.text = rows[i].text /\ row.created = rows[i].created
      BY <3>1 DEF Row
    <3>3. rows' = [rows EXCEPT ![i] = row] /\ UNCHANGED <<used, newest, deleted, rewritten>>
      BY <2>2 DEF Tombstone, history
    <3> HIDE DEF row
    <3> QED
      BY <3>1, <3>2, <3>3, SameTexts
  <2>3. ASSUME NEW i \in Ids, Delete(i) PROVE Unharmed
    BY <2>3, Taken DEF Delete
  <2> QED
    BY <2>1, <2>2, <2>3
<1>4. EditsMinted'
  BY <1>1, <1>3 DEF EditsMinted, Retention, Unharmed
<1> QED
  BY <1>2, <1>3, <1>4, UnharmedStep

LEMMA RetentionNext == TypeOK /\ Retention /\ [Next]_vars => Retention'
<1> SUFFICES ASSUME TypeOK, Retention, [Next]_vars PROVE Retention'
  OBVIOUS
<1>1. ASSUME NEW w \in Writers, WriterStep(w) \/ \E text \in Texts : StoreBegin(w, text)
      PROVE  Retention'
  BY <1>1, WriterRetention, InsertRetention DEF WriterStep
<1>2. ASSUME NEW d \in Dedups, DedupStep(d)
      PROVE  Retention'
  BY <1>2, DedupScrollRetention, DedupBumpRetention, DedupDeleteRetention DEF DedupStep
<1>3. ASSUME NEW e \in Editors,
             EditorStep(e) \/ \E i \in Ids, text \in Texts : PatchRead(e, i, text) \/ RewriteRead(e, i, text)
      PROVE  Retention'
  BY <1>3, EditorRetention
<1> QED
  BY <1>1, <1>2, <1>3, OtherRetention DEF Next

LEMMA RetentionInit == Init => Retention
<1> SUFFICES ASSUME Init PROVE Retention
  OBVIOUS
<1>1. \A i \in Ids : ~Live(i)
  BY DEF Init, Live, Empty, Gone
<1>2. \A p \in Procs : ctx[p].stage = "idle"
  BY DEF Init, Idle
<1>3. RowsMinted /\ RowsKnown
  BY <1>1 DEF RowsMinted, RowsKnown
<1>4. NewestLives
  BY DEF Init, NewestLives
<1>5. EditsMinted /\ SnapshotsOK
  BY <1>2, CallsOf DEF EditsMinted, SnapshotsOK, Passing
<1> QED
  BY <1>3, <1>4, <1>5 DEF Retention

LEMMA RetentionHolds == Spec => [](TypeOK /\ Retention)
<1>1. TypeOK /\ Retention /\ [Next]_vars => Retention'
  BY RetentionNext
<1> QED
  BY <1>1, RetentionInit, TypeCorrect, PTL DEF Spec

\* Whatever stores race, whatever passes overlap and however old the snapshots they
\* act on, a stored text keeps a row unless a row of it was deleted on request or
\* edited.
THEOREM NothingLost == Spec => []NoFactLost
<1>1. TypeOK /\ Retention => NoFactLost
  <2> SUFFICES ASSUME TypeOK, Retention, NEW k \in Texts \ excused, newest[k] # NoRow
               PROVE  newest[k].id \in RowsOf(k)
    BY DEF NoFactLost
  <2> QED
    BY NewestType DEF Retention, NewestLives, RowsOf
<1> QED
  BY <1>1, RetentionHolds, PTL

-----------------------------------------------------------------------------
(* What a pass takes out of recall *)

LEMMA RecallLost ==
  ASSUME TypeOK, Retention, NEW d \in Dedups, NEW text \in Texts, NEW survivor \in Ids,
         NEW dup \in Ids, DedupDelete(d, text, survivor, dup),
         NEW k \in Texts \ excused, Recallable(k), ~Recallable(k)'
  PROVE  Tombstoned(newest[k].id)
<1>1. rows' = rows \/ rows' = [rows EXCEPT ![dup] = Gone]
  BY DEF DedupDelete
<1>2. \A i \in Ids : i # dup => rows'[i] = rows[i]
  BY <1>1 DEF TypeOK, Store
<1>3. newest[k] # NoRow
  BY DEF Recallable, RowsOf, Retention, RowsKnown, UpTo
<1>4. newest[k].id \in Ids /\ newest[k].id # dup /\ newest[k].id \in RowsOf(k)
  BY <1>3, DupNotNewest, NewestType DEF Retention, NewestLives, RowsOf
<1>5. newest[k].id \in RowsOf(k)' /\ rows'[newest[k].id] = rows[newest[k].id]
  BY <1>2, <1>4 DEF RowsOf, Live
<1> QED
  BY <1>4, <1>5 DEF Recallable, RowsOf, Tombstoned

LEMMA RecallLostStep ==
  ASSUME TypeOK, Retention, [Next]_vars, NEW d \in Dedups,
         ctx[d].stage = "delete", ctx'[d] # ctx[d],
         NEW k \in Texts \ excused, Recallable(k), ~Recallable(k)'
  PROVE  Tombstoned(newest[k].id)
<1>1. CASE \E o \in Dedups, text \in Texts, survivor, dup \in Ids : DedupDelete(o, text, survivor, dup)
  BY <1>1, RecallLost
<1>2. CASE ~UNCHANGED rows /\ ~\E o \in Dedups, text \in Texts, survivor, dup \in Ids :
                                 DedupDelete(o, text, survivor, dup)
  <2>1. \/ \E p \in Procs \ {d} : \E c : Step(p, c)
        \/ BumpWrite(d)
        \/ UNCHANGED ctx
    BY <1>2, CallsOf, MemoryStoreAssumption
       DEF Next, vars, WriterStep, DedupStep, EditorStep, StoreBegin, LookupHit, LookupMiss, Insert,
           BumpRead, BumpWrite, ReviveRead, ReviveWrite, DedupBegin, DedupScroll, DedupScrolled,
           DedupEnd, PatchRead, PatchMetadata, PatchUpdate, RewriteRead, Upsert, Tick, Tombstone, Delete
  <2> QED
    BY <2>1, CallsOf DEF Step, TypeOK, BumpWrite
<1>3. CASE UNCHANGED rows
  BY <1>3 DEF Recallable, RowsOf, Live
<1> QED
  BY <1>1, <1>2, <1>3

\* The exact phase is not lossless, but it is not careless either: however many passes
\* overlap, one takes a text out of recall only if its newest row is tombstoned.
THEOREM LossesAreTombstoned == Spec => RecallLostOnlyToTombstone
<1>1. TypeOK /\ Retention /\ [Next]_vars
        => [(\E d \in Dedups : ctx[d].stage = "delete" /\ ctx'[d] # ctx[d])
              => \A text \in Texts \ excused :
                   Recallable(text) /\ ~Recallable(text)' => Tombstoned(newest[text].id)]_vars
  BY RecallLostStep
<1> QED
  BY <1>1, RetentionHolds, PTL DEF Spec, RecallLostOnlyToTombstone

=============================================================================

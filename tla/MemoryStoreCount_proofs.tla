---------------------- MODULE MemoryStoreCount_proofs ----------------------
(***************************************************************************)
(* Proof that MemoryStore invents no reinforcement.  The prover cannot      *)
(* instantiate an induction on the rows a sum ranges over, so a sum is      *)
(* taken for a number of cells, about which the theorems on cardinalities   *)
(* are enough; that the fold computes this number is shown once, by its     *)
(* smallest counterexample.                                                 *)
(***************************************************************************)
EXTENDS MemoryStore_proofs, FiniteSetTheorems

-----------------------------------------------------------------------------
(* Sums over a finite set *)

\* f as a bar chart: one cell for every unit of every f[i]
Cells(f, S) == {c \in S \X Nat : c[2] < f[c[1]]}
Total(f, S) == Cardinality(Cells(f, S))
NatOn(f, S) == \A i \in S : f[i] \in Nat

LEMMA Column ==
  ASSUME NEW i, NEW n \in Nat
  PROVE  IsFiniteSet({i} \X (0 .. n - 1)) /\ Cardinality({i} \X (0 .. n - 1)) = n
<1>1. IsFiniteSet({i}) /\ Cardinality({i}) = 1
  BY FS_Singleton
<1>2. IsFiniteSet(0 .. n - 1) /\ Cardinality(0 .. n - 1) = n
  <2>1. 0 \in Int /\ n - 1 \in Int
    OBVIOUS
  <2>2. IsFiniteSet(0 .. n - 1) /\ Cardinality(0 .. n - 1) = IF 0 > n - 1 THEN 0 ELSE n - 1 - 0 + 1
    BY <2>1, FS_Interval
  <2> QED
    BY <2>2
<1>3. IsFiniteSet({i} \X (0 .. n - 1))
      /\ Cardinality({i} \X (0 .. n - 1)) = Cardinality({i}) * Cardinality(0 .. n - 1)
  BY <1>1, <1>2, FS_Product
<1> QED
  BY <1>1, <1>2, <1>3

LEMMA TotalNat ==
  ASSUME NEW S, IsFiniteSet(S), NEW f, NatOn(f, S)
  PROVE  IsFiniteSet(Cells(f, S)) /\ Total(f, S) \in Nat
<1> DEFINE columns == {{i} \X (0 .. f[i] - 1) : i \in S}
           column == [i \in S |-> {i} \X (0 .. f[i] - 1)]
<1>1. column \in Surjection(S, columns)
  BY DEF Surjection
<1>2. IsFiniteSet(columns)
  <2> HIDE DEF column, columns
  <2> QED
    BY <1>1, FS_Surjection
<1>3. \A c \in columns : IsFiniteSet(c)
  <2>1. ASSUME NEW i \in S PROVE IsFiniteSet({i} \X (0 .. f[i] - 1))
    BY Column DEF NatOn
  <2> QED
    BY <2>1
<1>4. IsFiniteSet(UNION columns)
  <2> HIDE DEF column, columns
  <2> QED
    BY <1>2, <1>3, FS_UNION
<1>5. Cells(f, S) \subseteq UNION columns
  <2> SUFFICES ASSUME NEW c \in S \X Nat, c[2] < f[c[1]]
               PROVE  c \in UNION columns
    BY DEF Cells
  <2>1. c[1] \in S /\ c = <<c[1], c[2]>> /\ c[2] \in 0 .. f[c[1]] - 1
    BY DEF NatOn
  <2>2. c \in {c[1]} \X (0 .. f[c[1]] - 1)
    BY <2>1
  <2> QED
    BY <2>1, <2>2
<1> QED
  BY <1>4, <1>5, FS_Subset, FS_CardinalityType DEF Total

LEMMA TotalEmpty == \A f : Total(f, {}) = 0
BY FS_EmptySet DEF Total, Cells

LEMMA TotalSplit ==
  ASSUME NEW S, IsFiniteSet(S), NEW f, NatOn(f, S), NEW x \in S
  PROVE  Total(f, S) = f[x] + Total(f, S \ {x})
<1> DEFINE column == {x} \X (0 .. f[x] - 1)
           rest == Cells(f, S \ {x})
<1>1. f[x] \in Nat
  BY DEF NatOn
<1>2. IsFiniteSet(column) /\ Cardinality(column) = f[x]
  BY <1>1, Column
<1>3. IsFiniteSet(rest) /\ Total(f, S \ {x}) \in Nat
  <2>1. IsFiniteSet(S \ {x}) /\ NatOn(f, S \ {x})
    BY FS_RemoveElement DEF NatOn
  <2> QED
    BY <2>1, TotalNat
<1>4. Cells(f, S) = column \cup rest
  <2>1. ASSUME NEW c \in Cells(f, S) PROVE c \in column \cup rest
    <3>1. c \in S \X Nat /\ c[2] < f[c[1]] /\ c = <<c[1], c[2]>> /\ c[1] \in S /\ c[2] \in Nat
      BY <2>1 DEF Cells
    <3>2. CASE c[1] = x
      <4>1. c[2] \in 0 .. f[x] - 1
        BY <1>1, <3>1, <3>2
      <4> QED
        BY <3>1, <3>2, <4>1
    <3>3. CASE c[1] # x
      BY <3>1, <3>3 DEF Cells
    <3> QED
      BY <3>2, <3>3
  <2>2. ASSUME NEW c \in column PROVE c \in Cells(f, S)
    <3>1. c[1] = x /\ c[2] \in Nat /\ c[2] < f[x] /\ c \in S \X Nat
      BY <1>1, <2>2
    <3> QED
      BY <3>1 DEF Cells
  <2>3. rest \subseteq Cells(f, S)
    BY DEF Cells
  <2> QED
    BY <2>1, <2>2, <2>3
<1>5. column \cap rest = {}
  BY DEF Cells
<1>6. Cardinality(column \cup rest) = Cardinality(column) + Cardinality(rest) - Cardinality({})
  <2> HIDE DEF column, rest
  <2> QED
    BY <1>2, <1>3, <1>5, FS_Union
<1> QED
  BY <1>1, <1>2, <1>3, <1>4, <1>6, FS_EmptySet DEF Total

LEMMA TotalGrows ==
  ASSUME NEW T, IsFiniteSet(T), NEW S \in SUBSET T, NEW f, NEW g, NatOn(f, S), NatOn(g, T),
         \A i \in S : f[i] <= g[i]
  PROVE  Total(f, S) <= Total(g, T)
<1>1. Cells(f, S) \subseteq Cells(g, T)
  <2> SUFFICES ASSUME NEW c \in S \X Nat, c[2] < f[c[1]]
               PROVE  c \in T \X Nat /\ c[2] < g[c[1]]
    BY DEF Cells
  <2>1. c[1] \in S /\ c[2] \in Nat /\ c \in T \X Nat
    OBVIOUS
  <2>2. f[c[1]] \in Nat /\ g[c[1]] \in Nat /\ f[c[1]] <= g[c[1]]
    BY <2>1 DEF NatOn
  <2> QED
    BY <2>1, <2>2
<1> QED
  BY <1>1, TotalNat, FS_Subset DEF Total

LEMMA TotalAt ==
  ASSUME NEW S, IsFiniteSet(S), NEW f \in [S -> Nat], NEW g \in [S -> Nat], NEW x \in S,
         \A i \in S \ {x} : g[i] = f[i]
  PROVE  Total(g, S) = Total(f, S) - f[x] + g[x]
<1> DEFINE R == S \ {x}
<1>1. NatOn(f, S) /\ NatOn(g, S) /\ NatOn(f, R) /\ NatOn(g, R) /\ IsFiniteSet(R)
  BY FS_RemoveElement DEF NatOn
<1>2. Total(f, S) = f[x] + Total(f, R) /\ Total(g, S) = g[x] + Total(g, R)
  BY <1>1, TotalSplit
<1>3. Total(f, R) \in Nat /\ Total(g, R) \in Nat
  BY <1>1, TotalNat
<1>4. Total(f, R) <= Total(g, R) /\ Total(g, R) <= Total(f, R)
  <2>1. R \in SUBSET R /\ \A i \in R : f[i] <= g[i] /\ g[i] <= f[i]
    OBVIOUS
  <2> HIDE DEF R
  <2> QED
    BY <1>1, <2>1, TotalGrows
<1> QED
  BY <1>2, <1>3, <1>4

\* What the fold computes
IsFold(iter, f, S) ==
  iter = [s \in SUBSET S |-> IF s = {} THEN 0
                             ELSE f[CHOOSE x \in s : TRUE] + iter[s \ {CHOOSE x \in s : TRUE}]]

LEMMA TotalFolds ==
  ASSUME NEW S, IsFiniteSet(S), NEW f, NatOn(f, S)
  PROVE  IsFold([s \in SUBSET S |-> Total(f, s)], f, S)
<1> DEFINE first(s) == CHOOSE x \in s : TRUE
<1> SUFFICES ASSUME NEW s \in SUBSET S, s # {}
             PROVE  Total(f, s) = f[first(s)] + Total(f, s \ {first(s)})
  BY TotalEmpty DEF IsFold
<1>1. first(s) \in s
  OBVIOUS
<1> HIDE DEF first
<1>2. IsFiniteSet(s) /\ NatOn(f, s)
  BY FS_Subset DEF NatOn
<1> QED
  BY <1>1, <1>2, TotalSplit

LEMMA FoldIsTotal ==
  ASSUME NEW S, IsFiniteSet(S), NEW f, NatOn(f, S), NEW iter, IsFold(iter, f, S)
  PROVE  iter[S] = Total(f, S)
<1> DEFINE wrong == {s \in SUBSET S : iter[s] # Total(f, s)}
           order == StrictSubsetOrdering(S)
<1>1. SUFFICES ASSUME wrong # {} PROVE FALSE
  OBVIOUS
<1>2. IsWellFoundedOn(order, SUBSET S)
  BY FS_StrictSubsetOrderingWellFounded, FS_FiniteSubsetsOfFinite
<1>3. PICK s \in wrong : \A t \in wrong : <<t, s>> \notin order
  <2>1. wrong \subseteq SUBSET S
    OBVIOUS
  <2> HIDE DEF wrong, order
  <2> QED
    BY <1>1, <1>2, <2>1, WFMin
<1> DEFINE x == CHOOSE x \in s : TRUE
           t == s \ {x}
<1>4. s # {} /\ x \in s
  BY TotalEmpty DEF IsFold
<1>5. iter[s] = f[x] + iter[t]
  BY <1>4 DEF IsFold
<1>6. Total(f, s) = f[x] + Total(f, t)
  <2>1. IsFiniteSet(s) /\ NatOn(f, s)
    BY FS_Subset DEF NatOn
  <2> HIDE DEF x
  <2> QED
    BY <1>4, <2>1, TotalSplit
<1>7. t \notin wrong
  <2>1. <<t, s>> \in order
    <3> HIDE DEF x
    <3> QED
      BY <1>4 DEF StrictSubsetOrdering
  <2> QED
    BY <1>3, <2>1
<1>8. iter[t] = Total(f, t)
  <2> HIDE DEF x
  <2> QED
  BY <1>7
<1> QED
  BY <1>5, <1>6, <1>8

LEMMA TotalZero ==
  ASSUME NEW S
  PROVE  Total([i \in S |-> 0], S) = 0
<1>1. Cells([i \in S |-> 0], S) = {}
  BY DEF Cells
<1> QED
  BY <1>1, FS_EmptySet DEF Total

-----------------------------------------------------------------------------
(* Accounts *)

\* Finitely many rows and calls, and one pass at a time
OnePass == IsFiniteSet(Ids) /\ IsFiniteSet(Procs) /\ \A d, e \in Dedups : d = e

\* NeverOverCounted is not inductive: counters that are about to be written, and those
\* of rows a pass has deleted, count as well.  So every store of a text is credited once,
\* to a row or to a call: row and call are accounts, and what a counter, or a call that
\* will write one, claims is backed by its account.  A row's account is not its
\* counter, as bumps that overtake each other lose some.

\* What call c of slot p claims of text k, whose rows are R
Backs(k, p, c, R, row, call) ==
  /\ c.stage \in {"bump", "bumped"} /\ c.id \in R => c.add <= call[p]
  /\ c.stage = "bumped" /\ c.id \in R => c.times <= row[c.id]
  /\ c.stage = "patch" /\ c.id \in R => c.row.times <= row[c.id]
  /\ p \in Dedups /\ c.stage \in Passing => \A i \in Group(c.seen, k) : c.seen[i].times <= row[i]
  /\ c.stage = "delete" /\ c.group = {k} => c.gain <= call[p]

Backed(k, row, call) ==
  /\ Total(row, Ids) + Total(call, Procs) <= observed[k]
  /\ \A i \in RowsOf(k) : rows[i].times <= row[i]
  /\ \A p \in Procs : Backs(k, p, ctx[p], RowsOf(k), row, call)

Audited(k) == \E row \in [Ids -> Nat], call \in [Procs -> Nat] : Backed(k, row, call)

BumpsMinted == \A p \in Procs : ctx[p].stage \in {"bump", "bumped"} => ctx[p].id \in used
\* A pass carries a sum only in the middle of a group
PassTidy ==
  \A d \in Dedups :
    /\ ctx[d].stage = "scroll" => ctx[d].group = {} /\ ctx[d].gain = 0
    /\ ctx[d].stage = "delete" /\ ctx[d].group = {} => ctx[d].gain = 0

Sound == TypeOK /\ Retention /\ BumpsMinted /\ PassTidy

LEMMA AccountTypes ==
  ASSUME OnePass, NEW row \in [Ids -> Nat], NEW call \in [Procs -> Nat]
  PROVE  Total(row, Ids) \in Nat /\ Total(call, Procs) \in Nat
BY TotalNat DEF OnePass, NatOn

LEMMA OnlyEditorsEdit ==
  ASSUME CtxOK(ctx), NEW p \in Procs, ctx[p].stage = "patch"
  PROVE  p \in Editors
<1>1. ctx[p] \in Calls(p) /\ p \in Writers \cup Dedups \cup Editors
  BY DEF CtxOK, Procs
<1>2. /\ Idle.stage # "patch"
      /\ \A c \in Storing \cup Bumping \cup Reviving \cup Deduping : c.stage # "patch"
  BY DEF Idle, Storing, Reviving, Bumping, Deduping
<1> QED
  BY <1>1, <1>2 DEF Calls

\* A step of slot p, after which the accounts are row2 and call2.
LEMMA StepAudit ==
  ASSUME Sound, OnePass, NEW k \in Texts, NEW p \in Procs, NEW c, Step(p, c),
         NEW row \in [Ids -> Nat], NEW call \in [Procs -> Nat], Backed(k, row, call),
         NEW row2 \in [Ids -> Nat], NEW call2 \in [Procs -> Nat],
         Total(row2, Ids) + Total(call2, Procs) <= observed'[k],
         \A i \in RowsOf(k)' :
           /\ i \in RowsOf(k) \/ i \notin used
           /\ row[i] <= row2[i]
           /\ rows'[i].times <= row2[i],
         p \in Dedups \/ \A i \in Ids : row[i] <= row2[i],
         \A q \in Procs \ {p} : call[q] <= call2[q],
         Backs(k, p, c, RowsOf(k)', row2, call2)
  PROVE  Audited(k)'
<1> SUFFICES ASSUME NEW q \in Procs
             PROVE  Backs(k, q, ctx'[q], RowsOf(k)', row2, call2)
  BY DEF Audited, Backed
<1>1. ctx'[q] = IF q = p THEN c ELSE ctx[q]
  BY DEF Step, Sound, TypeOK
<1>2. CASE q # p
  <2> DEFINE e == ctx[q]
  <2>1. Backs(k, q, e, RowsOf(k), row, call)
    BY DEF Backed
  <2>2. CtxOK(ctx)
    BY TypeSplit DEF Sound
  <2>3. call[q] \in Nat /\ call2[q] \in Nat /\ call[q] <= call2[q]
    BY <1>2
  <2>4. e.stage \in {"bump", "bumped"} /\ e.id \in RowsOf(k)' =>
          e.add \in Nat /\ e.times \in Nat /\ e.id \in Ids /\ e.id \in RowsOf(k) /\ row[e.id] <= row2[e.id]
    BY <2>2, CtxByStage DEF Bumping, Sound, BumpsMinted
  <2>5. e.stage = "patch" /\ e.id \in RowsOf(k)' =>
          e.row.times \in Nat /\ e.id \in Ids /\ e.id \in RowsOf(k) /\ row[e.id] <= row2[e.id]
    <3> SUFFICES ASSUME e.stage = "patch", e.id \in RowsOf(k)'
                 PROVE  e.row.times \in Nat /\ e.id \in Ids /\ e.id \in RowsOf(k) /\ row[e.id] <= row2[e.id]
      OBVIOUS
    <3>1. e \in Editing /\ q \in Editors
      BY <2>2, CtxByStage, OnlyEditorsEdit
    <3>2. e.id \in used
      BY <3>1 DEF Sound, Retention, EditsMinted
    <3> QED
      BY <3>1, <3>2 DEF Editing, Row
  <2>6. q \in Dedups /\ e.stage \in Passing =>
          \A i \in Group(e.seen, k) : i \in Ids /\ e.seen[i].times \in Nat /\ row[i] <= row2[i]
    <3> SUFFICES ASSUME q \in Dedups, e.stage \in Passing, NEW i \in Group(e.seen, k)
                 PROVE  i \in Ids /\ e.seen[i].times \in Nat /\ row[i] <= row2[i]
      OBVIOUS
    <3>1. e.seen \in Store
      BY <2>2, CtxByStage DEF Passing, Bumping, Deduping
    <3>2. i \in Ids /\ e.seen[i] \in Row
      BY <3>1, LiveRow DEF Group
    <3> QED
      BY <1>2, <3>2 DEF OnePass, Row
  <2>7. e.stage = "delete" => e.gain \in Nat
    BY <2>2, CtxByStage DEF Deduping
  <2> HIDE DEF e
  <2>8. Backs(k, q, e, RowsOf(k)', row2, call2)
    BY <2>1, <2>3, <2>4, <2>5, <2>6, <2>7 DEF Backs
  <2> QED
    BY <1>1, <1>2, <2>8 DEF e
<1> QED
  BY <1>1, <1>2

\* A step that moves nothing between accounts.
LEMMA SameAccounts ==
  ASSUME Sound, OnePass, NEW k \in Texts, NEW p \in Procs, NEW c, Step(p, c),
         NEW row \in [Ids -> Nat], NEW call \in [Procs -> Nat], Backed(k, row, call),
         UNCHANGED observed,
         \A i \in RowsOf(k)' : i \in RowsOf(k) /\ rows'[i].times <= row[i],
         Backs(k, p, c, RowsOf(k)', row, call)
  PROVE  Audited(k)'
<1>1. \A i \in Ids : row[i] <= row[i]
  OBVIOUS
<1>2. \A q \in Procs : call[q] <= call[q]
  OBVIOUS
<1>3. RowsOf(k)' \subseteq Ids
  BY DEF RowsOf
<1>4. Total(row, Ids) + Total(call, Procs) <= observed'[k]
  BY DEF Backed
<1> QED
  BY <1>1, <1>2, <1>3, <1>4, StepAudit

\* A call that claims nothing
LEMMA ClaimsNothing ==
  ASSUME NEW k, NEW p, NEW c, NEW R, NEW row, NEW call,
         c.stage \in {"idle", "lookup", "insert", "revive", "clear", "upsert"}
  PROVE  Backs(k, p, c, R, row, call)
BY DEF Backs, Passing

\* Steps that change no row and read none.
LEMMA QuietAudit ==
  ASSUME Sound, OnePass, NEW k \in Texts, Audited(k), NEW p \in Procs, NEW c, Step(p, c),
         UNCHANGED <<rows, observed>>,
         c.stage \in {"idle", "lookup", "insert", "revive", "clear", "upsert"}
  PROVE  Audited(k)'
<1>1. PICK row \in [Ids -> Nat], call \in [Procs -> Nat] : Backed(k, row, call)
  BY DEF Audited
<1>2. RowsOf(k)' = RowsOf(k)
  BY DEF RowsOf, Live
<1>3. \A i \in RowsOf(k) : rows'[i].times <= row[i]
  BY <1>1 DEF Backed
<1> QED
  BY <1>1, <1>2, <1>3, ClaimsNothing, SameAccounts

\* Steps of a pass that keep its group, sum and snapshot, or begin anew.
LEMMA ScrollAudit ==
  ASSUME Sound, OnePass, NEW k \in Texts, Audited(k), NEW d \in Dedups,
         DedupBegin(d) \/ DedupScroll(d) \/ DedupScrolled(d)
  PROVE  Audited(k)'
<1>1. PICK row \in [Ids -> Nat], call \in [Procs -> Nat] : Backed(k, row, call)
  BY DEF Audited
<1>2. RowsOf(k)' = RowsOf(k) /\ UNCHANGED <<rows, observed>> /\ d \in Procs
  BY CallsOf DEF DedupBegin, DedupScroll, DedupScrolled, RowsOf, Live, history
<1>3. \A i \in RowsOf(k) : rows'[i].times <= row[i]
  BY <1>1, <1>2 DEF Backed
<1>4. CtxOK(ctx)
  BY TypeSplit DEF Sound
<1>5. Backs(k, d, ctx[d], RowsOf(k), row, call)
  BY <1>1, <1>2 DEF Backed
<1>6. PICK c : Step(d, c) /\ Backs(k, d, c, RowsOf(k), row, call)
  <2>1. CASE DedupBegin(d)
    <3> DEFINE c == [stage |-> "scroll", page |-> 0, seen |-> Empty, group |-> {}, gain |-> 0]
    <3>1. Step(d, c) /\ c.stage = "scroll" /\ c.seen = Empty
      BY <2>1 DEF DedupBegin
    <3>2. Group(Empty, k) = {}
      BY DEF Group, Empty, Gone
    <3> HIDE DEF c
    <3> QED
      BY <3>1, <3>2 DEF Backs
  <2>2. CASE DedupScroll(d)
    <3>1. PICK i \in Ids : Step(d, [ctx[d] EXCEPT !.page = i + 1, !.seen[i] = rows[i]])
      BY <2>2 DEF DedupScroll
    <3> DEFINE c == [ctx[d] EXCEPT !.page = i + 1, !.seen[i] = rows[i]]
    <3>2. ctx[d] \in Deduping /\ ctx[d].seen \in Store /\ ctx[d].stage = "scroll"
      BY <1>2, <1>4, <2>2, CtxByStage DEF DedupScroll, Deduping
    <3>3. c.stage = "scroll" /\ \A j \in Ids : c.seen[j] = IF j = i THEN rows[i] ELSE ctx[d].seen[j]
      BY <3>2 DEF Deduping, Store
    <3> HIDE DEF c
    <3>4. ASSUME NEW j \in Group(c.seen, k) PROVE c.seen[j].times <= row[j]
      <4>1. CASE j = i
        BY <1>1, <3>3, <3>4, <4>1 DEF Group, Backed, RowsOf, Live
      <4>2. CASE j # i
        BY <1>5, <3>2, <3>3, <3>4, <4>2 DEF Group, Backs, Passing
      <4> QED
        BY <4>1, <4>2
    <3>5. Backs(k, d, c, RowsOf(k), row, call)
      BY <3>3, <3>4 DEF Backs
    <3> QED
      BY <3>1, <3>5 DEF c
  <2>3. CASE DedupScrolled(d)
    <3> DEFINE c == [ctx[d] EXCEPT !.stage = "delete"]
    <3>1. ctx[d] \in Deduping /\ ctx[d].stage = "scroll" /\ ctx[d].group = {}
      BY <1>2, <1>4, <2>3, CtxByStage DEF DedupScrolled, Sound, PassTidy
    <3>2. c.stage = "delete" /\ c.seen = ctx[d].seen /\ c.group = {} /\ Step(d, c)
      BY <2>3, <3>1 DEF DedupScrolled, Deduping
    <3> HIDE DEF c
    <3> QED
      BY <1>5, <3>1, <3>2 DEF Backs, Passing
  <2> QED
    BY <2>1, <2>2, <2>3
<1> QED
  BY <1>1, <1>2, <1>3, <1>6, SameAccounts

\* A hit is credited to the call that will bump ...
LEMMA HitAudit ==
  ASSUME Sound, OnePass, NEW k \in Texts, Audited(k), NEW w \in Writers, NEW i \in Ids, LookupHit(w, i)
  PROVE  Audited(k)'
<1>1. PICK row \in [Ids -> Nat], call \in [Procs -> Nat] : Backed(k, row, call)
  BY DEF Audited
<1>2. w \in Procs /\ w \notin Dedups
  BY CallsOf, MemoryStoreAssumption
<1> DEFINE n == IF ctx[w].text = k THEN 1 ELSE 0
           c == [stage |-> "bump", id |-> i, add |-> 1, times |-> 0, seen |-> Empty]
           call2 == [call EXCEPT ![w] = call[w] + n]
<1>3. call[w] \in Nat /\ n \in Nat /\ call2 \in [Procs -> Nat] /\ call2[w] = call[w] + n
  BY <1>2
<1>4. Total(call2, Procs) = Total(call, Procs) + n
  <2>1. \A q \in Procs \ {w} : call2[q] = call[q]
    OBVIOUS
  <2> HIDE DEF call2, n
  <2>2. Total(call2, Procs) = Total(call, Procs) - call[w] + call2[w]
    BY <1>2, <1>3, <2>1, TotalAt DEF OnePass
  <2> QED
    BY <1>3, <2>2, AccountTypes
<1>5. observed'[k] = observed[k] + n
  BY DEF LookupHit, Sound, TypeOK
<1>6. Total(row, Ids) + Total(call2, Procs) <= observed'[k]
  <2>1. observed[k] \in Nat /\ Total(row, Ids) + Total(call, Procs) <= observed[k]
    BY <1>1 DEF Backed, Sound, TypeOK
  <2> QED
    BY <1>3, <1>4, <1>5, <2>1, AccountTypes
<1>7. RowsOf(k)' = RowsOf(k) /\ UNCHANGED rows /\ RowsOf(k) \subseteq Ids /\ Step(w, c)
  BY DEF LookupHit, RowsOf, Live
<1>8. \A j \in RowsOf(k) : row[j] <= row[j] /\ rows[j].times <= row[j]
  BY <1>1, <1>7 DEF Backed
<1>9. Backs(k, w, c, RowsOf(k), row, call2)
  <2>1. c.stage = "bump" /\ c.id = i /\ c.add = 1
    OBVIOUS
  <2>2. i \in RowsOf(k) => n = 1
    BY DEF LookupHit, RowsOf
  <2> HIDE DEF c, n
  <2>3. i \in RowsOf(k) => 1 <= call2[w]
    BY <1>3, <2>2
  <2> QED
    BY <1>2, <2>1, <2>3 DEF Backs
<1>10. \A q \in Procs \ {w} : call[q] <= call2[q]
  OBVIOUS
<1> HIDE DEF c, n, call2
<1> QED
  BY <1>1, <1>2, <1>3, <1>6, <1>7, <1>8, <1>9, <1>10, StepAudit

\* ... and a new row to itself.
LEMMA InsertAudit ==
  ASSUME Sound, OnePass, NEW k \in Texts, Audited(k), NEW w \in Writers, NEW i \in Ids, Insert(w, i)
  PROVE  Audited(k)'
<1>1. PICK row \in [Ids -> Nat], call \in [Procs -> Nat] : Backed(k, row, call)
  BY DEF Audited
<1>2. w \in Procs
  BY CallsOf
<1> DEFINE n == IF ctx[w].text = k THEN 1 ELSE 0
           row2 == [row EXCEPT ![i] = row[i] + n]
<1>3. row[i] \in Nat /\ n \in Nat /\ row2 \in [Ids -> Nat] /\ row2[i] = row[i] + n
  OBVIOUS
<1>4. Total(row2, Ids) = Total(row, Ids) + n
  <2>1. \A j \in Ids \ {i} : row2[j] = row[j]
    OBVIOUS
  <2> HIDE DEF row2, n
  <2>2. Total(row2, Ids) = Total(row, Ids) - row[i] + row2[i]
    BY <1>3, <2>1, TotalAt DEF OnePass
  <2> QED
    BY <1>3, <2>2, AccountTypes
<1>5. observed'[k] = observed[k] + n
  BY DEF Insert, Sound, TypeOK
<1>6. Total(row2, Ids) + Total(call, Procs) <= observed'[k]
  <2>1. observed[k] \in Nat /\ Total(row, Ids) + Total(call, Procs) <= observed[k]
    BY <1>1 DEF Backed, Sound, TypeOK
  <2> QED
    BY <1>3, <1>4, <1>5, <2>1, AccountTypes
<1>7. /\ \A j \in Ids : j # i => rows'[j] = rows[j]
      /\ rows'[i].text = ctx[w].text /\ rows'[i].times = 1
      /\ i \notin used /\ Step(w, Idle)
  BY DEF Insert, Sound, TypeOK, Store
<1>8. \A j \in Ids : row[j] <= row2[j]
  BY <1>3
<1>9. \A j \in RowsOf(k)' : /\ j \in RowsOf(k) \/ j \notin used
                            /\ row[j] <= row2[j]
                            /\ rows'[j].times <= row2[j]
  <2> SUFFICES ASSUME NEW j \in RowsOf(k)'
               PROVE  (j \in RowsOf(k) \/ j \notin used) /\ rows'[j].times <= row2[j]
    BY <1>8 DEF RowsOf
  <2>1. CASE j = i
    <3>1. n = 1
      BY <1>7, <2>1 DEF RowsOf
    <3> QED
      BY <1>3, <1>7, <2>1, <3>1
  <2>2. CASE j # i
    BY <1>1, <1>7, <2>2 DEF RowsOf, Live, Backed
  <2> QED
    BY <2>1, <2>2
<1>10. \A q \in Procs \ {w} : call[q] <= call[q]
  OBVIOUS
<1>11. Backs(k, w, Idle, RowsOf(k)', row2, call)
  BY ClaimsNothing DEF Idle
<1> HIDE DEF n, row2
<1> QED
  BY <1>1, <1>2, <1>3, <1>6, <1>7, <1>8, <1>9, <1>10, <1>11, StepAudit

\* A bump claims for what it read no more than the row is credited with.
LEMMA BumpReadAudit ==
  ASSUME Sound, OnePass, NEW k \in Texts, Audited(k), NEW p \in Writers \cup Dedups, BumpRead(p)
  PROVE  Audited(k)'
<1>1. PICK row \in [Ids -> Nat], call \in [Procs -> Nat] : Backed(k, row, call)
  BY DEF Audited
<1>2. p \in Procs /\ (p \in Writers => p \notin Dedups)
  BY CallsOf, MemoryStoreAssumption
<1>3. RowsOf(k)' = RowsOf(k) /\ UNCHANGED <<rows, observed>>
  BY DEF BumpRead, RowsOf, Live, history
<1>4. \A i \in RowsOf(k) : rows'[i].times <= row[i]
  BY <1>1, <1>3 DEF Backed
<1>5. Backs(k, p, ctx[p], RowsOf(k), row, call)
  BY <1>1, <1>2 DEF Backed
<1>6. ctx[p] \in Bumping /\ ctx[p].stage = "bump"
  BY <1>2, CtxByStage, TypeSplit DEF BumpRead, Sound
<1>7. Backs(k, p, AfterBump(p), RowsOf(k), row, call)
  BY <1>2, <1>5, <1>6 DEF Backs, AfterBump, Passing
<1> DEFINE c == [ctx[p] EXCEPT !.stage = "bumped", !.times = rows[ctx[p].id].times]
<1>8. Backs(k, p, c, RowsOf(k), row, call)
  <2>1. c.stage = "bumped" /\ c.id = ctx[p].id /\ c.add = ctx[p].add /\ c.seen = ctx[p].seen
        /\ c.times = rows[ctx[p].id].times
    BY <1>6 DEF Bumping
  <2> HIDE DEF c
  <2> QED
    BY <1>3, <1>4, <1>5, <1>6, <2>1 DEF Backs, Passing
<1>9. Step(p, c) \/ Step(p, AfterBump(p))
  BY DEF BumpRead
<1> HIDE DEF c
<1> QED
  BY <1>1, <1>2, <1>3, <1>4, <1>7, <1>8, <1>9, SameAccounts

LEMMA Transfer ==
  ASSUME OnePass, NEW i \in Ids, NEW p \in Procs,
         NEW row \in [Ids -> Nat], NEW row2 \in [Ids -> Nat], \A j \in Ids \ {i} : row2[j] = row[j],
         NEW call \in [Procs -> Nat], NEW call2 \in [Procs -> Nat], \A q \in Procs \ {p} : call2[q] = call[q],
         row2[i] + call2[p] = row[i] + call[p]
  PROVE  Total(row2, Ids) + Total(call2, Procs) = Total(row, Ids) + Total(call, Procs)
<1>1. Total(row2, Ids) = Total(row, Ids) - row[i] + row2[i]
  BY TotalAt DEF OnePass
<1>2. Total(call2, Procs) = Total(call, Procs) - call[p] + call2[p]
  BY TotalAt DEF OnePass
<1>3. row[i] \in Nat /\ row2[i] \in Nat /\ call[p] \in Nat /\ call2[p] \in Nat
  OBVIOUS
<1> QED
  BY <1>1, <1>2, <1>3, AccountTypes

\* Steps that write counters, tombstones or nothing to a row of another text, or to
\* one of the text no more than it is credited with.
LEMMA RowStepAudit ==
  ASSUME Sound, OnePass, NEW k \in Texts, NEW p \in Procs, NEW c, Step(p, c), NEW i \in Ids,
         UNCHANGED observed, \A j \in Ids \ {i} : rows'[j] = rows[j],
         NEW row \in [Ids -> Nat], NEW call \in [Procs -> Nat], Backed(k, row, call),
         i \in RowsOf(k)' => i \in RowsOf(k) /\ rows'[i].times <= row[i],
         Backs(k, p, c, RowsOf(k)', row, call)
  PROVE  Audited(k)'
<1>1. \A j \in RowsOf(k)' : j \in RowsOf(k) /\ rows'[j].times <= row[j]
  BY DEF RowsOf, Live, Backed
<1> QED
  BY <1>1, SameAccounts

\* A write moves the claim of its call to the row.
LEMMA BumpWriteAudit ==
  ASSUME Sound, OnePass, NEW k \in Texts, Audited(k), NEW p \in Writers \cup Dedups, BumpWrite(p)
  PROVE  Audited(k)'
<1>1. PICK row \in [Ids -> Nat], call \in [Procs -> Nat] : Backed(k, row, call)
  BY DEF Audited
<1>2. p \in Procs /\ (p \in Writers => p \notin Dedups)
  BY CallsOf, MemoryStoreAssumption
<1> DEFINE i == ctx[p].id
           a == ctx[p].add
           t == ctx[p].times
<1>3. /\ ctx[p] \in Bumping /\ ctx[p].stage = "bumped"
      /\ i \in Ids /\ a \in Nat /\ t \in Nat /\ i \in used
  BY <1>2, CtxByStage, TypeSplit DEF BumpWrite, Sound, BumpsMinted, Bumping
<1>4. Backs(k, p, ctx[p], RowsOf(k), row, call)
  BY <1>1, <1>2 DEF Backed
<1>5. \A R, row2, call2 :
        (\A j \in Ids : row[j] \in Nat /\ row2[j] \in Nat /\ row[j] <= row2[j])
          => Backs(k, p, AfterBump(p), R, row2, call2)
  <2> SUFFICES ASSUME NEW R, NEW row2, NEW call2,
                      \A j \in Ids : row[j] \in Nat /\ row2[j] \in Nat /\ row[j] <= row2[j]
               PROVE  Backs(k, p, AfterBump(p), R, row2, call2)
    OBVIOUS
  <2>1. CASE p \in Writers
    BY <1>2, <2>1, ClaimsNothing DEF AfterBump
  <2>2. CASE p \notin Writers
    <3> DEFINE c == AfterBump(p)
    <3>1. c.stage = "delete" /\ c.group = {} /\ c.seen = ctx[p].seen
      BY <2>2 DEF AfterBump
    <3>2. ASSUME NEW j \in Group(c.seen, k) PROVE c.seen[j].times <= row2[j]
      <4>1. j \in Ids /\ c.seen[j] \in Row /\ c.seen[j].times <= row[j]
        BY <1>2, <1>3, <1>4, <2>2, <3>1, <3>2, LiveRow DEF Group, Backs, Passing, Bumping
      <4> QED
        BY <4>1 DEF Row
    <3> HIDE DEF c
    <3> QED
      BY <3>1, <3>2 DEF Backs, c
  <2> QED
    BY <2>1, <2>2
<1>6. Step(p, AfterBump(p)) /\ UNCHANGED observed
  BY DEF BumpWrite, history
<1>7. CASE i \in RowsOf(k) /\ ~UNCHANGED rows
  <2> DEFINE row2 == [row EXCEPT ![i] = row[i] + a]
             call2 == [call EXCEPT ![p] = call[p] - a]
  <2>1. a <= call[p] /\ t <= row[i] /\ call[p] \in Nat /\ row[i] \in Nat
    BY <1>2, <1>3, <1>4, <1>7 DEF Backs
  <2>2. /\ row2 \in [Ids -> Nat] /\ row2[i] = row[i] + a /\ \A j \in Ids \ {i} : row2[j] = row[j]
        /\ call2 \in [Procs -> Nat] /\ call2[p] = call[p] - a /\ \A q \in Procs \ {p} : call2[q] = call[q]
    BY <1>2, <1>3, <2>1
  <2> HIDE DEF row2, call2
  <2>3. Total(row2, Ids) + Total(call2, Procs) <= observed'[k]
    <3>1. row2[i] + call2[p] = row[i] + call[p]
      BY <1>3, <2>1, <2>2
    <3>2. Total(row2, Ids) + Total(call2, Procs) = Total(row, Ids) + Total(call, Procs)
      BY <1>2, <1>3, <2>2, <3>1, Transfer
    <3> QED
      BY <1>1, <1>6, <3>2 DEF Backed
  <2>4. /\ \A j \in Ids : rows'[j] = IF j = i THEN [rows[i] EXCEPT !.times = t + a] ELSE rows[j]
        /\ rows[i] \in Row
    BY <1>3, <1>7, LiveRow DEF BumpWrite, Sound, TypeOK, Store, RowsOf, Live
  <2>5. rows'[i].times = t + a
    BY <1>3, <2>4 DEF Row
  <2>6. \A j \in RowsOf(k)' : j \in RowsOf(k) /\ row[j] <= row2[j] /\ rows'[j].times <= row2[j]
    <3> SUFFICES ASSUME NEW j \in RowsOf(k)'
                 PROVE  j \in RowsOf(k) /\ row[j] <= row2[j] /\ rows'[j].times <= row2[j]
      OBVIOUS
    <3>1. CASE j = i
      BY <1>3, <1>7, <2>1, <2>2, <2>5, <3>1
    <3>2. CASE j # i
      BY <1>1, <2>2, <2>4, <3>2 DEF RowsOf, Live, Backed
    <3> QED
      BY <3>1, <3>2
  <2>7. \A j \in Ids : row[j] \in Nat /\ row2[j] \in Nat /\ row[j] <= row2[j]
    <3>1. \A j \in Ids : row[j] \in Nat /\ row2[j] \in Nat
      BY <2>2
    <3> QED
      BY <1>3, <2>1, <2>2, <3>1
  <2>8. \A q \in Procs \ {p} : call[q] <= call2[q]
    BY <2>2
  <2> QED
    BY <1>1, <1>2, <1>5, <1>6, <2>2, <2>3, <2>6, <2>7, <2>8, StepAudit
<1>8. CASE i \notin RowsOf(k) \/ UNCHANGED rows
  <2>1. \A j \in Ids \ {i} : rows'[j] = rows[j]
    BY <1>3 DEF BumpWrite, Sound, TypeOK, Store
  <2>2. i \in RowsOf(k)' => i \in RowsOf(k) /\ rows'[i].times <= row[i]
    <3>1. CASE UNCHANGED rows
      BY <1>1, <3>1 DEF RowsOf, Live, Backed
    <3>2. CASE ~UNCHANGED rows /\ i \notin RowsOf(k)
      <4>1. rows'[i] = [rows[i] EXCEPT !.times = t + a] /\ rows[i] \in Row /\ Live(i)
        BY <1>3, <3>2, LiveRow DEF BumpWrite, Sound, TypeOK, Store, Live
      <4>2. rows'[i].text = rows[i].text
        BY <4>1 DEF Row
      <4> QED
        BY <3>2, <4>1, <4>2 DEF RowsOf
    <3> QED
      BY <1>8, <3>1, <3>2
  <2>3. Backs(k, p, AfterBump(p), RowsOf(k)', row, call)
    <3>1. \A j \in Ids : row[j] \in Nat /\ row[j] <= row[j]
      OBVIOUS
    <3> QED
      BY <1>5, <3>1
  <2> HIDE DEF i, a, t
  <2> QED
    BY <1>1, <1>2, <1>3, <1>6, <2>1, <2>2, <2>3, RowStepAudit
<1> QED
  BY <1>7, <1>8

LEMMA ReviveWriteAudit ==
  ASSUME Sound, OnePass, NEW k \in Texts, Audited(k), NEW w \in Writers, ReviveWrite(w)
  PROVE  Audited(k)'
<1>1. PICK row \in [Ids -> Nat], call \in [Procs -> Nat] : Backed(k, row, call)
  BY DEF Audited
<1>2. w \in Procs /\ ctx[w].id \in Ids
  BY CallsOf, CtxByStage, TypeSplit DEF ReviveWrite, Sound, Reviving
<1>3. Step(w, Idle) /\ UNCHANGED observed
  BY DEF ReviveWrite, history
<1>4. \A j \in Ids \ {ctx[w].id} : rows'[j] = rows[j]
  BY <1>2 DEF ReviveWrite, Sound, TypeOK, Store
<1>5. ctx[w].id \in RowsOf(k)' => ctx[w].id \in RowsOf(k) /\ rows'[ctx[w].id].times <= row[ctx[w].id]
  <2>1. CASE UNCHANGED rows
    BY <1>1, <2>1 DEF RowsOf, Live, Backed
  <2>2. CASE ~UNCHANGED rows
    <3>1. /\ rows'[ctx[w].id] = [rows[ctx[w].id] EXCEPT !.tomb = FALSE]
          /\ rows[ctx[w].id] \in Row /\ Live(ctx[w].id)
      BY <1>2, <2>2, LiveRow DEF ReviveWrite, Sound, TypeOK, Store, Live
    <3>2. rows'[ctx[w].id].text = rows[ctx[w].id].text /\ rows'[ctx[w].id].times = rows[ctx[w].id].times
      BY <3>1 DEF Row
    <3> QED
      BY <1>1, <1>2, <3>1, <3>2 DEF RowsOf, Backed
  <2> QED
    BY <2>1, <2>2
<1>6. Backs(k, w, Idle, RowsOf(k)', row, call)
  BY ClaimsNothing DEF Idle
<1> QED
  BY <1>1, <1>2, <1>3, <1>4, <1>5, <1>6, RowStepAudit

\* An edit of metadata takes along the counter it read, and writes it back.
LEMMA PatchReadAudit ==
  ASSUME Sound, OnePass, NEW k \in Texts, Audited(k), NEW e \in Editors,
         NEW i \in Ids, NEW text \in Texts, PatchRead(e, i, text)
  PROVE  Audited(k)'
<1>1. PICK row \in [Ids -> Nat], call \in [Procs -> Nat] : Backed(k, row, call)
  BY DEF Audited
<1>2. e \in Procs /\ e \notin Dedups
  BY CallsOf, MemoryStoreAssumption
<1>3. RowsOf(k)' = RowsOf(k) /\ UNCHANGED <<rows, observed>>
  BY DEF PatchRead, RowsOf, Live, history
<1>4. \A j \in RowsOf(k) : rows'[j].times <= row[j]
  BY <1>1, <1>3 DEF Backed
<1> DEFINE c == [stage |-> "patch", id |-> i, row |-> rows[i], text |-> text]
<1>5. Step(e, c) /\ c.stage = "patch" /\ c.id = i /\ c.row = rows[i]
  BY DEF PatchRead
<1> HIDE DEF c
<1>6. Backs(k, e, c, RowsOf(k), row, call)
  BY <1>2, <1>3, <1>4, <1>5 DEF Backs
<1> QED
  BY <1>1, <1>2, <1>3, <1>4, <1>5, <1>6, SameAccounts

LEMMA PatchWriteAudit ==
  ASSUME Sound, OnePass, NEW k \in Texts, Audited(k), NEW e \in Editors, PatchMetadata(e)
  PROVE  Audited(k)'
<1>1. PICK row \in [Ids -> Nat], call \in [Procs -> Nat] : Backed(k, row, call)
  BY DEF Audited
<1> DEFINE i == ctx[e].id
<1>2. e \in Procs /\ i \in Ids /\ ctx[e].row \in Row
  BY CallsOf, CtxByStage, TypeSplit DEF PatchMetadata, Sound, Editing
<1>3. Step(e, Idle) /\ UNCHANGED observed
  BY DEF PatchMetadata, history
<1>4. \A j \in Ids \ {i} : rows'[j] = rows[j]
  BY <1>2 DEF PatchMetadata, Sound, TypeOK, Store
<1>5. i \in RowsOf(k) => ctx[e].row.times <= row[i]
  BY <1>1, <1>2 DEF Backed, Backs, PatchMetadata
<1>6. i \in RowsOf(k)' => i \in RowsOf(k) /\ rows'[i].times <= row[i]
  <2>1. CASE Live(i)
    <3>1. /\ rows'[i] = [rows[i] EXCEPT !.times = ctx[e].row.times, !.tomb = ctx[e].row.tomb]
          /\ rows[i] \in Row
      BY <1>2, <2>1, LiveRow DEF PatchMetadata, Sound, TypeOK, Store, Live
    <3>2. rows'[i].text = rows[i].text /\ rows'[i].times = ctx[e].row.times
      BY <3>1 DEF Row
    <3> QED
      BY <1>5, <2>1, <3>2 DEF RowsOf
  <2>2. CASE ~Live(i)
    BY <2>2 DEF PatchMetadata, RowsOf, Live
  <2> QED
    BY <2>1, <2>2
<1>7. Backs(k, e, Idle, RowsOf(k)', row, call)
  BY ClaimsNothing DEF Idle
<1> HIDE DEF i
<1> QED
  BY <1>1, <1>2, <1>3, <1>4, <1>6, <1>7, RowStepAudit

\* An upsert writes a row of a text that is rewritten now.
LEMMA UpsertAudit ==
  ASSUME Sound, OnePass, NEW k \in Texts, k \notin rewritten', Audited(k), NEW e \in Editors, Upsert(e)
  PROVE  Audited(k)'
<1>1. PICK row \in [Ids -> Nat], call \in [Procs -> Nat] : Backed(k, row, call)
  BY DEF Audited
<1> DEFINE i == ctx[e].id
<1>2. e \in Procs /\ i \in Ids /\ ctx[e].row \in Row
  BY CallsOf, CtxByStage, TypeSplit DEF Upsert, Sound, Editing
<1>3. Step(e, Idle) /\ UNCHANGED observed
  BY DEF Upsert
<1>4. rows' = [rows EXCEPT ![i] = [ctx[e].row EXCEPT !.text = ctx[e].text]] /\ ctx[e].text # k
  BY DEF Upsert
<1>5. \A j \in Ids \ {i} : rows'[j] = rows[j]
  BY <1>2, <1>4 DEF Sound, TypeOK, Store
<1>6. i \notin RowsOf(k)'
  BY <1>2, <1>4 DEF RowsOf, Sound, TypeOK, Store, Row
<1>7. Backs(k, e, Idle, RowsOf(k)', row, call)
  BY ClaimsNothing DEF Idle
<1> HIDE DEF i
<1> QED
  BY <1>1, <1>2, <1>3, <1>5, <1>6, <1>7, RowStepAudit

LEMMA OtherAudit ==
  ASSUME Sound, OnePass, NEW k \in Texts, Audited(k),
         Tick \/ (\E i \in Ids : Tombstone(i) \/ Delete(i)) \/ UNCHANGED vars
  PROVE  Audited(k)'
<1>1. PICK row \in [Ids -> Nat], call \in [Procs -> Nat] : Backed(k, row, call)
  BY DEF Audited
<1>2. UNCHANGED <<ctx, observed>>
  BY DEF Tick, Tombstone, Delete, vars, history
<1>3. RowsOf(k)' \subseteq RowsOf(k) /\ \A j \in RowsOf(k)' : rows'[j].times <= row[j]
  <2>1. CASE UNCHANGED rows
    BY <1>1, <2>1 DEF RowsOf, Live, Backed
  <2>2. ASSUME NEW i \in Ids, Tombstone(i) \/ Delete(i)
        PROVE  RowsOf(k)' \subseteq RowsOf(k) /\ \A j \in RowsOf(k)' : rows'[j].times <= row[j]
    <3>1. rows[i] \in Row /\ Live(i)
      BY <2>2, LiveRow DEF Tombstone, Delete, Live, Sound, TypeOK
    <3>2. \A j \in Ids : j # i => rows'[j] = rows[j]
      BY <2>2 DEF Tombstone, Delete, Sound, TypeOK, Store
    <3>3. rows'[i] = [rows[i] EXCEPT !.tomb = TRUE] \/ rows'[i] = Gone
      BY <2>2 DEF Tombstone, Delete, Sound, TypeOK, Store
    <3>4. [rows[i] EXCEPT !.tomb = TRUE].text = rows[i].text /\ [rows[i] EXCEPT !.tomb = TRUE].times = rows[i].times
      BY <3>1 DEF Row
    <3> SUFFICES ASSUME NEW j \in RowsOf(k)'
                 PROVE  j \in RowsOf(k) /\ rows'[j].times <= row[j]
      OBVIOUS
    <3>5. j \in Ids /\ rows'[j].state = "live" /\ rows'[j].text = k
      BY DEF RowsOf, Live
    <3>6. j \in RowsOf(k) /\ rows'[j].times = rows[j].times
      <4>1. CASE j # i
        BY <3>2, <3>5, <4>1 DEF RowsOf, Live
      <4>2. CASE j = i
        <5>1. rows'[i] # Gone
          BY <3>5, <4>2 DEF Gone
        <5>2. rows'[i].text = rows[i].text /\ rows'[i].times = rows[i].times
          BY <3>3, <3>4, <5>1
        <5> QED
          BY <3>1, <3>5, <4>2, <5>2 DEF RowsOf
      <4> QED
        BY <4>1, <4>2
    <3> QED
      BY <1>1, <3>6 DEF Backed
  <2> QED
    BY <2>1, <2>2 DEF Tick, vars
<1>4. ASSUME NEW p \in Procs PROVE Backs(k, p, ctx[p], RowsOf(k)', row, call)
  BY <1>1, <1>3 DEF Backed, Backs
<1> QED
  BY <1>1, <1>2, <1>3, <1>4 DEF Audited, Backed

\* What a pass acts on: two rows of the text, as it has seen them.
LEMMA SeenByPass ==
  ASSUME TypeOK, Retention, NEW d \in Dedups, NEW text \in Texts,
         NEW survivor \in Ids, NEW dup \in Ids, DedupDelete(d, text, survivor, dup)
  PROVE  /\ ctx[d] \in Deduping /\ ctx[d].seen \in Store /\ SnapshotOK(ctx[d].seen)
         /\ ctx[d].seen[survivor].state = "live" /\ ctx[d].seen[survivor].text = text
         /\ ctx[d].seen[dup] \in Row /\ ctx[d].seen[dup].text = text
<1> DEFINE s == ctx[d].seen
<1>1. ctx[d] \in Deduping /\ SnapshotOK(s)
  BY CallsOf, CtxByStage, TypeSplit DEF DedupDelete, Retention, SnapshotsOK, Passing
<1>2. s \in Store
  BY <1>1 DEF Deduping
<1>3. HeadOfGroup(s, text, survivor) /\ dup # survivor
      /\ HeadOfGroup([s EXCEPT ![survivor] = Gone], text, dup)
  BY DEF DedupDelete
<1> HIDE DEF s
<1>4. [s EXCEPT ![survivor] = Gone][dup] = s[dup]
  BY <1>2, <1>3 DEF Store
<1>5. dup \in Group(s, text) /\ survivor \in Group(s, text)
  BY <1>3, <1>4 DEF HeadOfGroup, Group
<1>6. s[dup] \in Row
  BY <1>2, <1>5, LiveRow DEF Group
<1> QED
  BY <1>1, <1>2, <1>5, <1>6 DEF Group, s

\* A deleted row hands its credit, as far as it was seen, to the pass.
LEMMA DedupDeleteAudit ==
  ASSUME Sound, OnePass, NEW k \in Texts, k \notin rewritten, Audited(k), NEW d \in Dedups,
         NEW text \in Texts, NEW survivor \in Ids, NEW dup \in Ids, DedupDelete(d, text, survivor, dup)
  PROVE  Audited(k)'
<1>1. PICK row \in [Ids -> Nat], call \in [Procs -> Nat] : Backed(k, row, call)
  BY DEF Audited
<1> DEFINE s == ctx[d].seen
           left == [s EXCEPT ![dup] = Gone]
<1>2. /\ ctx[d] \in Deduping /\ s \in Store /\ SnapshotOK(s)
      /\ s[survivor].state = "live" /\ s[survivor].text = text
      /\ s[dup] \in Row /\ s[dup].text = text
  BY SeenByPass DEF Sound
<1>3. d \in Procs /\ ctx[d].stage = "delete" /\ ctx[d].group \subseteq {text} /\ UNCHANGED observed
  BY CallsOf DEF DedupDelete, history
<1>4. Backs(k, d, ctx[d], RowsOf(k), row, call)
  BY <1>1, <1>3 DEF Backed
<1>5. PICK ok \in BOOLEAN, group \in {{}, {text}} :
        LET gain == ctx[d].gain + (IF ok THEN s[dup].times ELSE 0) IN
        /\ rows' = IF ok THEN [rows EXCEPT ![dup] = Gone] ELSE rows
        /\ \/ Step(d, [stage |-> "bump", id |-> survivor, add |-> gain, times |-> 0, seen |-> left])
           \/ Step(d, [ctx[d] EXCEPT !.seen = left, !.gain = gain, !.group = group])
  BY MemoryStoreAssumption DEF DedupDelete, Counted
<1> DEFINE gain == ctx[d].gain + (IF ok THEN s[dup].times ELSE 0)
           n == IF ok /\ text = k THEN s[dup].times ELSE 0
           row2 == [row EXCEPT ![dup] = row[dup] - n]
           call2 == [call EXCEPT ![d] = call[d] + n]
<1>6. s[dup].times \in Nat /\ ctx[d].gain \in Nat
  BY <1>2 DEF Row, Deduping
<1>7. n \in Nat /\ n <= row[dup] /\ row[dup] \in Nat /\ call[d] \in Nat
  <2>1. text = k => s[dup].times <= row[dup]
    BY <1>2, <1>3, <1>4 DEF Backs, Passing, Group, Row
  <2> QED
    BY <1>3, <1>6, <2>1
<1>8. /\ row2 \in [Ids -> Nat] /\ row2[dup] = row[dup] - n /\ \A i \in Ids \ {dup} : row2[i] = row[i]
      /\ call2 \in [Procs -> Nat] /\ call2[d] = call[d] + n /\ \A q \in Procs \ {d} : call2[q] = call[q]
  <2> HIDE DEF n
  <2> QED
    BY <1>3, <1>7
<1>9. \A i \in Ids : left[i] = IF i = dup THEN Gone ELSE s[i]
  BY <1>2 DEF Store
<1>10. text = k => gain <= call[d] + n
  <2>1. text = k => ctx[d].gain <= call[d]
    <3>1. ctx[d].group = {} \/ ctx[d].group = {text}
      BY <1>3
    <3> QED
      BY <1>3, <1>4, <1>7, <3>1 DEF Backs, Sound, PassTidy
  <2> QED
    BY <1>6, <1>7, <2>1
<1>11. \A i \in Ids : rows'[i] = IF ok /\ i = dup THEN Gone ELSE rows[i]
  BY <1>5 DEF Sound, TypeOK, Store
<1>12. survivor \in RowsOf(k)' => text = k
  BY <1>2, <1>11 DEF SnapshotOK, RowsOf, Live, Gone
<1>13. ASSUME NEW i \in Group(left, k)
       PROVE  left[i].times <= row2[i]
  <2>1. i \in Ids /\ i # dup /\ i \in Group(s, k) /\ left[i] = s[i]
    BY <1>9, <1>13 DEF Group, Gone
  <2> QED
    BY <1>3, <1>4, <1>8, <2>1 DEF Backs, Passing
<1>14. ASSUME NEW i \in RowsOf(k)'
       PROVE  i \in RowsOf(k) /\ row[i] <= row2[i] /\ rows'[i].times <= row2[i]
  <2>1. i \in Ids /\ i \in RowsOf(k) /\ rows'[i] = rows[i] /\ ~(ok /\ i = dup)
    BY <1>11, <1>14 DEF RowsOf, Live, Gone
  <2>2. row2[i] = row[i] /\ row[i] \in Nat
    BY <1>7, <1>8, <2>1
  <2> QED
    BY <1>1, <2>1, <2>2 DEF Backed
<1>15. Total(row2, Ids) + Total(call2, Procs) <= observed'[k]
  <2> HIDE DEF n, row2, call2
  <2>1. row2[dup] + call2[d] = row[dup] + call[d]
    BY <1>7, <1>8
  <2>2. Total(row2, Ids) + Total(call2, Procs) = Total(row, Ids) + Total(call, Procs)
    BY <1>3, <1>8, <2>1, Transfer
  <2> QED
    BY <1>1, <1>3, <2>2 DEF Backed
<1>16. PICK c : /\ Step(d, c) /\ c.seen = left
                /\ \/ c.stage = "bump" /\ c.id = survivor /\ c.add = gain
                   \/ c.stage = "delete" /\ c.gain = gain /\ c.group \in {{}, {text}}
  <2>1. CASE Step(d, [stage |-> "bump", id |-> survivor, add |-> gain, times |-> 0, seen |-> left])
    <3> HIDE DEF gain, left
    <3> QED
      BY <2>1
  <2>2. CASE Step(d, [ctx[d] EXCEPT !.seen = left, !.gain = gain, !.group = group])
    <3> HIDE DEF gain, left
    <3> DEFINE c == [ctx[d] EXCEPT !.seen = left, !.gain = gain, !.group = group]
    <3>1. c.stage = "delete" /\ c.seen = left /\ c.gain = gain /\ c.group = group
      BY <1>2, <1>3 DEF Deduping
    <3> HIDE DEF c
    <3> QED
      BY <2>2, <3>1 DEF c
  <2> QED
    BY <1>5, <2>1, <2>2
<1> HIDE DEF s, left, gain, n, row2, call2
<1>17. Backs(k, d, c, RowsOf(k)', row2, call2)
  BY <1>3, <1>8, <1>10, <1>12, <1>13, <1>16 DEF Backs
<1>18. \A q \in Procs \ {d} : call[q] <= call2[q]
  BY <1>8
<1> QED
  BY <1>1, <1>3, <1>8, <1>14, <1>15, <1>16, <1>17, <1>18, StepAudit

\* What is not a step on counters
LEMMA WriterAudit ==
  ASSUME Sound, OnePass, NEW k \in Texts, Audited(k), NEW w \in Writers,
         WriterStep(w) \/ \E text \in Texts : StoreBegin(w, text)
  PROVE  Audited(k)'
<1>1. w \in Procs
  BY CallsOf
<1>2. CASE \E text \in Texts : StoreBegin(w, text)
  <2>1. PICK text \in Texts : StoreBegin(w, text)
    BY <1>2
  <2> DEFINE c == [stage |-> "lookup", text |-> text, created |-> now]
  <2>2. Step(w, c) /\ c.stage = "lookup" /\ UNCHANGED <<rows, observed>>
    BY <2>1 DEF StoreBegin, history
  <2> HIDE DEF c
  <2> QED
    BY <1>1, <2>2, QuietAudit
<1>3. CASE LookupMiss(w)
  <2> DEFINE c == [ctx[w] EXCEPT !.stage = "insert"]
  <2>1. ctx[w] \in Storing
    BY <1>1, <1>3, CtxByStage, TypeSplit DEF LookupMiss, Sound
  <2>2. Step(w, c) /\ c.stage = "insert" /\ UNCHANGED <<rows, observed>>
    BY <1>3, <2>1 DEF LookupMiss, Storing, history
  <2> HIDE DEF c
  <2> QED
    BY <1>1, <2>2, QuietAudit
<1>4. CASE ReviveRead(w)
  <2> DEFINE c == [ctx[w] EXCEPT !.stage = "clear"]
  <2>1. ctx[w] \in Reviving
    BY <1>1, <1>4, CtxByStage, TypeSplit DEF ReviveRead, Sound
  <2>2. c.stage = "clear" /\ Idle.stage = "idle"
    BY <2>1 DEF Reviving, Idle
  <2>3. (Step(w, c) \/ Step(w, Idle)) /\ UNCHANGED <<rows, observed>>
    BY <1>4 DEF ReviveRead, history
  <2> HIDE DEF c
  <2> QED
    BY <1>1, <2>2, <2>3, QuietAudit
<1> QED
  BY <1>2, <1>3, <1>4, HitAudit, InsertAudit, BumpReadAudit, BumpWriteAudit, ReviveWriteAudit
     DEF WriterStep

LEMMA EditorAudit ==
  ASSUME Sound, OnePass, NEW k \in Texts, k \notin rewritten', Audited(k), NEW e \in Editors,
         EditorStep(e) \/ \E i \in Ids, text \in Texts : PatchRead(e, i, text) \/ RewriteRead(e, i, text)
  PROVE  Audited(k)'
<1>1. e \in Procs
  BY CallsOf
<1>2. CASE PatchUpdate(e)
  <2> DEFINE c == [ctx[e] EXCEPT !.stage = "upsert"]
  <2>1. ctx[e] \in Editing
    BY <1>1, <1>2, CtxByStage, TypeSplit DEF PatchUpdate, Sound
  <2>2. c.stage = "upsert" /\ Idle.stage = "idle"
    BY <2>1 DEF Editing, Idle
  <2>3. (Step(e, c) \/ Step(e, Idle)) /\ UNCHANGED <<rows, observed>>
    BY <1>2 DEF PatchUpdate, history
  <2> HIDE DEF c
  <2> QED
    BY <1>1, <2>2, <2>3, QuietAudit
<1>3. ASSUME NEW i \in Ids, NEW text \in Texts, RewriteRead(e, i, text)
      PROVE  Audited(k)'
  <2> DEFINE c == [stage |-> "upsert", id |-> i, row |-> rows[i], text |-> text]
  <2>1. Step(e, c) /\ c.stage = "upsert" /\ UNCHANGED <<rows, observed>>
    BY <1>3 DEF RewriteRead, history
  <2> HIDE DEF c
  <2> QED
    BY <1>1, <2>1, QuietAudit
<1> QED
  BY <1>2, <1>3, PatchReadAudit, PatchWriteAudit, UpsertAudit DEF EditorStep

LEMMA PassAudit ==
  ASSUME Sound, OnePass, NEW k \in Texts, k \notin rewritten, Audited(k), NEW d \in Dedups, DedupStep(d)
  PROVE  Audited(k)'
<1>1. d \in Procs
  BY CallsOf
<1>2. CASE DedupEnd(d)
  <2>1. Step(d, Idle) /\ Idle.stage = "idle" /\ UNCHANGED <<rows, observed>>
    BY <1>2 DEF DedupEnd, Idle, history
  <2> QED
    BY <1>1, <2>1, QuietAudit
<1> QED
  BY <1>2, ScrollAudit, BumpReadAudit, BumpWriteAudit, DedupDeleteAudit DEF DedupStep

LEMMA AuditNext ==
  ASSUME Sound, OnePass, [Next]_vars, NEW k \in Texts, k \notin rewritten', Audited(k)
  PROVE  Audited(k)'
<1>2. ASSUME NEW w \in Writers, WriterStep(w) \/ \E text \in Texts : StoreBegin(w, text)
      PROVE  Audited(k)'
  BY <1>2, WriterAudit
<1>3. ASSUME NEW e \in Editors,
             EditorStep(e) \/ \E i \in Ids, text \in Texts : PatchRead(e, i, text) \/ RewriteRead(e, i, text)
      PROVE  Audited(k)'
  BY <1>3, EditorAudit
<1>4. ASSUME NEW d \in Dedups, DedupStep(d)
      PROVE  Audited(k)'
  <2>1. UNCHANGED rewritten
    BY <1>4 DEF DedupStep, DedupBegin, DedupScroll, DedupScrolled, DedupDelete, DedupEnd, BumpRead,
                BumpWrite, history
  <2> QED
    BY <1>4, <2>1, PassAudit
<1> QED
  BY <1>2, <1>3, <1>4, OtherAudit DEF Next

-----------------------------------------------------------------------------
(* Calls stay tidy *)

Tidy(p, c) ==
  /\ c.stage \in {"bump", "bumped"} => c.id \in used
  /\ p \in Dedups /\ c.stage = "scroll" => c.group = {} /\ c.gain = 0
  /\ p \in Dedups /\ c.stage = "delete" /\ c.group = {} => c.gain = 0

LEMMA TidyCalls ==
  ASSUME Sound, NEW p \in Procs
  PROVE  Tidy(p, ctx[p])
BY DEF Sound, BumpsMinted, PassTidy, Tidy

LEMMA TidyStep ==
  ASSUME Sound, used \subseteq used', NEW p \in Procs, NEW c, Step(p, c), Tidy(p, c)
  PROVE  BumpsMinted' /\ PassTidy'
<1>1. \A q \in Procs : ctx'[q] = IF q = p THEN c ELSE ctx[q]
  BY DEF Step, Sound, TypeOK
<1>2. BumpsMinted'
  BY <1>1 DEF Sound, BumpsMinted, Tidy
<1>3. PassTidy'
  BY <1>1, CallsOf DEF Sound, PassTidy, Tidy
<1> QED
  BY <1>2, <1>3

LEMMA TidyBump ==
  ASSUME Sound, NEW p \in Writers \cup Dedups, BumpRead(p) \/ BumpWrite(p)
  PROVE  BumpsMinted' /\ PassTidy'
<1>1. p \in Procs /\ UNCHANGED used
  BY CallsOf DEF BumpRead, BumpWrite
<1>2. ctx[p] \in Bumping /\ ctx[p].id \in used
  BY <1>1, CtxByStage, TypeSplit DEF BumpRead, BumpWrite, Sound, BumpsMinted
<1> DEFINE c == [ctx[p] EXCEPT !.stage = "bumped", !.times = rows[ctx[p].id].times]
<1>3. Tidy(p, c)
  <2>1. c.stage = "bumped" /\ c.id = ctx[p].id
    BY <1>2 DEF Bumping
  <2> HIDE DEF c
  <2> QED
    BY <1>2, <2>1 DEF Tidy
<1>4. Tidy(p, AfterBump(p))
  BY DEF Tidy, AfterBump
<1>5. Step(p, c) \/ Step(p, AfterBump(p))
  BY DEF BumpRead, BumpWrite
<1> HIDE DEF c
<1> QED
  BY <1>1, <1>3, <1>4, <1>5, TidyStep

LEMMA TidyWriter ==
  ASSUME Sound, NEW w \in Writers, WriterStep(w) \/ \E text \in Texts : StoreBegin(w, text)
  PROVE  BumpsMinted' /\ PassTidy'
<1>1. w \in Procs
  BY CallsOf
<1>2. CASE \E i \in Ids : LookupHit(w, i)
  <2>1. PICK i \in Ids : LookupHit(w, i)
    BY <1>2
  <2> DEFINE c == [stage |-> "bump", id |-> i, add |-> 1, times |-> 0, seen |-> Empty]
  <2>2. Step(w, c) /\ c.stage = "bump" /\ c.id = i /\ UNCHANGED used
    BY <2>1 DEF LookupHit
  <2>3. i \in used
    BY <2>1 DEF LookupHit, Sound, Retention, RowsMinted
  <2> HIDE DEF c
  <2> QED
    BY <1>1, <2>2, <2>3, TidyStep DEF Tidy
<1>3. CASE \/ LookupMiss(w) \/ ReviveRead(w) \/ ReviveWrite(w)
           \/ (\E i \in Ids : Insert(w, i)) \/ \E text \in Texts : StoreBegin(w, text)
  <2>1. PICK c : Step(w, c) /\ c.stage \in {"lookup", "insert", "clear", "idle"}
    <3>1. CASE LookupMiss(w)
      <4>1. [ctx[w] EXCEPT !.stage = "insert"].stage = "insert"
        BY <1>1, <3>1, CtxByStage, TypeSplit DEF LookupMiss, Storing, Sound
      <4> QED
        BY <3>1, <4>1 DEF LookupMiss
    <3>2. CASE ReviveRead(w)
      <4> DEFINE c == [ctx[w] EXCEPT !.stage = "clear"]
      <4>1. c.stage = "clear" /\ Idle.stage = "idle"
        BY <1>1, <3>2, CtxByStage, TypeSplit DEF ReviveRead, Reviving, Idle, Sound
      <4>2. Step(w, c) \/ Step(w, Idle)
        BY <3>2 DEF ReviveRead
      <4> HIDE DEF c
      <4> QED
        BY <4>1, <4>2
    <3>3. CASE ReviveWrite(w) \/ \E i \in Ids : Insert(w, i)
      <4>1. Step(w, Idle) /\ Idle.stage = "idle"
        BY <3>3 DEF ReviveWrite, Insert, Idle
      <4> QED
        BY <4>1
    <3>4. CASE \E text \in Texts : StoreBegin(w, text)
      <4>1. PICK text \in Texts : StoreBegin(w, text)
        BY <3>4
      <4> DEFINE c == [stage |-> "lookup", text |-> text, created |-> now]
      <4>2. Step(w, c) /\ c.stage = "lookup"
        BY <4>1 DEF StoreBegin
      <4> HIDE DEF c
      <4> QED
        BY <4>2
    <3> QED
      BY <1>3, <3>1, <3>2, <3>3, <3>4
  <2>2. used \subseteq used'
    BY <1>3 DEF LookupMiss, ReviveRead, ReviveWrite, Insert, StoreBegin
  <2>3. w \notin Dedups
    BY MemoryStoreAssumption
  <2> QED
    BY <1>1, <2>1, <2>2, <2>3, TidyStep DEF Tidy
<1> QED
  BY <1>2, <1>3, TidyBump DEF WriterStep

LEMMA TidyEditor ==
  ASSUME Sound, NEW e \in Editors,
         EditorStep(e) \/ \E i \in Ids, text \in Texts : PatchRead(e, i, text) \/ RewriteRead(e, i, text)
  PROVE  BumpsMinted' /\ PassTidy'
<1>1. e \in Procs /\ e \notin Dedups /\ UNCHANGED used
  BY CallsOf, MemoryStoreAssumption
     DEF EditorStep, PatchMetadata, PatchUpdate, Upsert, PatchRead, RewriteRead
<1>2. PICK c : Step(e, c) /\ c.stage \in {"idle", "patch", "upsert"}
  <2>1. CASE PatchUpdate(e)
    <3> DEFINE c == [ctx[e] EXCEPT !.stage = "upsert"]
    <3>1. c.stage = "upsert" /\ Idle.stage = "idle"
      BY <1>1, <2>1, CtxByStage, TypeSplit DEF PatchUpdate, Editing, Idle, Sound
    <3>2. Step(e, c) \/ Step(e, Idle)
      BY <2>1 DEF PatchUpdate
    <3> HIDE DEF c
    <3> QED
      BY <3>1, <3>2
  <2>2. CASE PatchMetadata(e) \/ Upsert(e)
    <3>1. Step(e, Idle) /\ Idle.stage = "idle"
      BY <2>2 DEF PatchMetadata, Upsert, Idle
    <3> QED
      BY <3>1
  <2>3. CASE \E i \in Ids, text \in Texts : PatchRead(e, i, text) \/ RewriteRead(e, i, text)
    <3>1. PICK i \in Ids, text \in Texts, s \in {"patch", "upsert"} :
            Step(e, [stage |-> s, id |-> i, row |-> rows[i], text |-> text])
      BY <2>3 DEF PatchRead, RewriteRead
    <3> DEFINE c == [stage |-> s, id |-> i, row |-> rows[i], text |-> text]
    <3>2. c.stage = s
      OBVIOUS
    <3> HIDE DEF c
    <3> QED
      BY <3>1, <3>2 DEF c
  <2> QED
    BY <2>1, <2>2, <2>3 DEF EditorStep
<1> QED
  BY <1>1, <1>2, TidyStep DEF Tidy

LEMMA TidyScroll ==
  ASSUME Sound, NEW d \in Dedups, DedupBegin(d) \/ DedupScroll(d) \/ DedupScrolled(d) \/ DedupEnd(d)
  PROVE  BumpsMinted' /\ PassTidy'
<1>1. d \in Procs /\ UNCHANGED used
  BY CallsOf DEF DedupBegin, DedupScroll, DedupScrolled, DedupEnd
<1>2. PICK c : Step(d, c) /\ Tidy(d, c)
  <2>1. CASE DedupBegin(d)
    <3> DEFINE c == [stage |-> "scroll", page |-> 0, seen |-> Empty, group |-> {}, gain |-> 0]
    <3>1. Step(d, c) /\ c.stage = "scroll" /\ c.group = {} /\ c.gain = 0
      BY <2>1 DEF DedupBegin
    <3> HIDE DEF c
    <3> QED
      BY <3>1 DEF Tidy
  <2>2. CASE DedupScroll(d)
    <3>1. PICK i : Step(d, [ctx[d] EXCEPT !.page = i + 1, !.seen[i] = rows[i]])
      BY <2>2 DEF DedupScroll
    <3> DEFINE c == [ctx[d] EXCEPT !.page = i + 1, !.seen[i] = rows[i]]
    <3>2. ctx[d] \in Deduping /\ ctx[d].stage = "scroll" /\ ctx[d].group = {} /\ ctx[d].gain = 0
      BY <1>1, <2>2, CtxByStage, TypeSplit DEF DedupScroll, Sound, PassTidy
    <3>3. c.stage = "scroll" /\ c.group = {} /\ c.gain = 0
      BY <3>2 DEF Deduping
    <3> HIDE DEF c
    <3> QED
      BY <3>1, <3>3 DEF c, Tidy
  <2>3. CASE DedupScrolled(d)
    <3> DEFINE c == [ctx[d] EXCEPT !.stage = "delete"]
    <3>1. ctx[d] \in Deduping /\ ctx[d].group = {} /\ ctx[d].gain = 0
      BY <1>1, <2>3, CtxByStage, TypeSplit DEF DedupScrolled, Sound, PassTidy
    <3>2. c.stage = "delete" /\ c.group = {} /\ c.gain = 0 /\ Step(d, c)
      BY <2>3, <3>1 DEF DedupScrolled, Deduping
    <3> HIDE DEF c
    <3> QED
      BY <3>2 DEF Tidy
  <2>4. CASE DedupEnd(d)
    <3>1. Step(d, Idle) /\ Idle.stage = "idle"
      BY <2>4 DEF DedupEnd, Idle
    <3>2. Tidy(d, Idle)
      BY <3>1 DEF Tidy
    <3> QED
      BY <3>1, <3>2
  <2> QED
    BY <2>1, <2>2, <2>3, <2>4
<1> QED
  BY <1>1, <1>2, TidyStep

LEMMA TidyDelete ==
  ASSUME Sound, NEW d \in Dedups, NEW text \in Texts, NEW survivor \in Ids, NEW dup \in Ids,
         DedupDelete(d, text, survivor, dup)
  PROVE  BumpsMinted' /\ PassTidy'
<1>1. d \in Procs /\ UNCHANGED used
  BY CallsOf DEF DedupDelete
<1>2. ctx[d] \in Deduping /\ ctx[d].stage = "delete" /\ survivor \in used
  <2>1. ctx[d] \in Deduping /\ SnapshotOK(ctx[d].seen) /\ ctx[d].seen[survivor].state = "live"
    BY SeenByPass DEF Sound
  <2> QED
    BY <2>1 DEF DedupDelete, SnapshotOK
<1> DEFINE left == [ctx[d].seen EXCEPT ![dup] = Gone]
           last == Group(left, text) = {survivor}
<1>3. PICK gain \in Nat :
        Step(d, IF last /\ gain > 0
                THEN [stage |-> "bump", id |-> survivor, add |-> gain, times |-> 0, seen |-> left]
                ELSE [ctx[d] EXCEPT !.seen = left, !.gain = gain, !.group = IF last THEN {} ELSE {text}])
  <2>1. PICK ok \in BOOLEAN :
          LET gain == ctx[d].gain + (IF ok THEN Counted(ctx[d].seen, dup) ELSE 0) IN
          Step(d, IF last /\ gain > 0
                  THEN [stage |-> "bump", id |-> survivor, add |-> gain, times |-> 0, seen |-> left]
                  ELSE [ctx[d] EXCEPT !.seen = left, !.gain = gain, !.group = IF last THEN {} ELSE {text}])
    BY MemoryStoreAssumption DEF DedupDelete
  <2> DEFINE gain == ctx[d].gain + (IF ok THEN Counted(ctx[d].seen, dup) ELSE 0)
  <2>2. gain \in Nat
    BY <1>2, SeenByPass DEF Counted, Deduping, Row, Sound
  <2> HIDE DEF left, last
  <2> QED
    BY <2>1, <2>2
<1> HIDE DEF left, last
<1>4. CASE last /\ gain > 0
  <2> DEFINE c == [stage |-> "bump", id |-> survivor, add |-> gain, times |-> 0, seen |-> left]
  <2>1. Step(d, c) /\ c.stage = "bump" /\ c.id = survivor
    BY <1>3, <1>4
  <2> HIDE DEF c
  <2> QED
    BY <1>1, <1>2, <2>1, TidyStep DEF Tidy
<1>5. CASE ~(last /\ gain > 0)
  <2> DEFINE group == IF last THEN {} ELSE {text}
             c == [ctx[d] EXCEPT !.seen = left, !.gain = gain, !.group = group]
  <2>1. Step(d, c)
    BY <1>3, <1>5
  <2>2. c.stage = "delete" /\ c.group = group /\ c.gain = gain
    <3> HIDE DEF group
    <3> QED
      BY <1>2 DEF Deduping
  <2>3. c.group = {} => c.gain = 0
    <3> HIDE DEF c
    <3> QED
      BY <1>5, <2>2
  <2> HIDE DEF c
  <2> QED
    BY <1>1, <2>1, <2>2, <2>3, TidyStep DEF Tidy
<1> QED
  BY <1>4, <1>5

LEMMA TidyNext == Sound /\ [Next]_vars => BumpsMinted' /\ PassTidy'
<1> SUFFICES ASSUME Sound, [Next]_vars PROVE BumpsMinted' /\ PassTidy'
  OBVIOUS
<1>1. ASSUME NEW w \in Writers, WriterStep(w) \/ \E text \in Texts : StoreBegin(w, text)
      PROVE  BumpsMinted' /\ PassTidy'
  BY <1>1, TidyWriter
<1>2. ASSUME NEW e \in Editors,
             EditorStep(e) \/ \E i \in Ids, text \in Texts : PatchRead(e, i, text) \/ RewriteRead(e, i, text)
      PROVE  BumpsMinted' /\ PassTidy'
  BY <1>2, TidyEditor
<1>3. ASSUME NEW d \in Dedups, DedupStep(d)
      PROVE  BumpsMinted' /\ PassTidy'
  BY <1>3, TidyScroll, TidyBump, TidyDelete DEF DedupStep
<1>4. CASE Tick \/ (\E i \in Ids : Tombstone(i) \/ Delete(i)) \/ UNCHANGED vars
  <2>1. UNCHANGED <<used, ctx>>
    BY <1>4 DEF Tick, Tombstone, Delete, vars
  <2> QED
    BY <2>1 DEF Sound, BumpsMinted, PassTidy
<1> QED
  BY <1>1, <1>2, <1>3, <1>4 DEF Next

-----------------------------------------------------------------------------
(* No reinforcement is invented *)

Accounts == Sound /\ \A k \in Texts \ rewritten : Audited(k)

LEMMA AccountsInit == ASSUME OnePass PROVE Init => Accounts
<1> SUFFICES ASSUME Init PROVE Accounts
  OBVIOUS
<1>1. \A p \in Procs : ctx[p] = Idle
  BY DEF Init
<1>2. BumpsMinted /\ PassTidy
  BY <1>1, CallsOf DEF BumpsMinted, PassTidy, Idle
<1>3. ASSUME NEW k \in Texts PROVE Audited(k)
  <2> DEFINE row == [i \in Ids |-> 0]
             call == [p \in Procs |-> 0]
  <2>1. row \in [Ids -> Nat] /\ call \in [Procs -> Nat] /\ Total(row, Ids) = 0 /\ Total(call, Procs) = 0
    BY TotalZero
  <2> HIDE DEF row, call
  <2>2. Total(row, Ids) + Total(call, Procs) <= observed[k]
    BY <2>1 DEF Init
  <2>3. RowsOf(k) = {}
    BY DEF Init, RowsOf, Live, Empty, Gone
  <2>4. \A p \in Procs : Backs(k, p, ctx[p], RowsOf(k), row, call)
    BY <1>1, ClaimsNothing DEF Idle
  <2> QED
    BY <2>1, <2>2, <2>3, <2>4 DEF Audited, Backed
<1> QED
  BY <1>2, <1>3, TypeInit, RetentionInit DEF Accounts, Sound

LEMMA RewrittenGrows == [Next]_vars => rewritten \subseteq rewritten'
<1> SUFFICES ASSUME [Next]_vars PROVE rewritten \subseteq rewritten'
  OBVIOUS
<1>1. ASSUME NEW w \in Writers, WriterStep(w) \/ \E text \in Texts : StoreBegin(w, text)
      PROVE  rewritten \subseteq rewritten'
  BY <1>1 DEF WriterStep, StoreBegin, LookupHit, LookupMiss, Insert, BumpRead, BumpWrite, ReviveRead,
              ReviveWrite, history
<1>2. ASSUME NEW d \in Dedups, DedupStep(d)
      PROVE  rewritten \subseteq rewritten'
  BY <1>2 DEF DedupStep, DedupBegin, DedupScroll, DedupScrolled, DedupDelete, DedupEnd, BumpRead,
              BumpWrite, history
<1>3. ASSUME NEW e \in Editors,
             EditorStep(e) \/ \E i \in Ids, text \in Texts : PatchRead(e, i, text) \/ RewriteRead(e, i, text)
      PROVE  rewritten \subseteq rewritten'
  BY <1>3 DEF EditorStep, PatchMetadata, PatchUpdate, Upsert, PatchRead, RewriteRead, history
<1>4. CASE Tick \/ (\E i \in Ids : Tombstone(i) \/ Delete(i)) \/ UNCHANGED vars
  BY <1>4 DEF Tick, Tombstone, Delete, vars, history
<1> QED
  BY <1>1, <1>2, <1>3, <1>4 DEF Next

LEMMA AccountsNext == ASSUME OnePass PROVE Accounts /\ [Next]_vars => Accounts'
<1> SUFFICES ASSUME Accounts, [Next]_vars PROVE Accounts'
  OBVIOUS
<1>1. Sound'
  BY TypeNext, RetentionNext, TidyNext DEF Accounts, Sound
<1>2. rewritten \subseteq rewritten'
  BY RewrittenGrows
<1>3. ASSUME NEW k \in Texts, k \notin rewritten' PROVE Audited(k)'
  BY <1>2, <1>3, AuditNext DEF Accounts
<1> QED
  BY <1>1, <1>3 DEF Accounts

\* The sum of NeverOverCounted
LEMMA TimesAdded ==
  ASSUME NEW S, IsFiniteSet(S), \A i \in S : rows[i].times \in Nat
  PROVE  MapThenSumSet(LAMBDA i : rows[i].times, S) = Total([i \in S |-> rows[i].times], S)
<1> DEFINE f == [i \in S |-> rows[i].times]
           first(s) == CHOOSE x \in s : TRUE
           folds(g) == g = [s \in SUBSET S |-> IF s = {} THEN 0
                                               ELSE rows[first(s)].times + g[s \ {first(s)}]]
           iter == CHOOSE g : folds(g)
<1>1. MapThenSumSet(LAMBDA i : rows[i].times, S) = iter[S]
  BY DEF MapThenSumSet, MapThenFoldSet
<1>2. IsFold(iter, f, S)
  <2>1. \A s \in SUBSET S : s # {} => f[first(s)] = rows[first(s)].times
    <3> SUFFICES ASSUME NEW s \in SUBSET S, s # {} PROVE first(s) \in S
      OBVIOUS
    <3> QED
      OBVIOUS
  <2> HIDE DEF f
  <2>2. ASSUME NEW g
        PROVE  IsFold(g, f, S) <=> folds(g)
    <3>1. \A s \in SUBSET S :
            (IF s = {} THEN 0 ELSE f[first(s)] + g[s \ {first(s)}])
              = (IF s = {} THEN 0 ELSE rows[first(s)].times + g[s \ {first(s)}])
      BY <2>1
    <3> DEFINE a(s) == IF s = {} THEN 0 ELSE f[first(s)] + g[s \ {first(s)}]
               b(s) == IF s = {} THEN 0 ELSE rows[first(s)].times + g[s \ {first(s)}]
    <3>2. [s \in SUBSET S |-> a(s)] = [s \in SUBSET S |-> b(s)]
      <4>1. \A s \in SUBSET S : a(s) = b(s)
        BY <3>1
      <4> HIDE DEF a, b
      <4> QED
        BY <4>1
    <3>3. IsFold(g, f, S) <=> g = [s \in SUBSET S |-> a(s)]
      BY DEF IsFold
    <3> QED
      BY <3>2, <3>3
  <2>3. \E g : IsFold(g, f, S)
    BY TotalFolds DEF NatOn, f
  <2> HIDE DEF folds
  <2> QED
    BY <2>2, <2>3
<1> QED
  BY <1>1, <1>2, FoldIsTotal DEF NatOn

LEMMA AccountsCover ==
  ASSUME OnePass, TypeOK, NEW k \in Texts, Audited(k)
  PROVE  MapThenSumSet(LAMBDA i : rows[i].times, RowsOf(k)) <= observed[k]
<1> DEFINE f == [i \in RowsOf(k) |-> rows[i].times]
<1>1. PICK row \in [Ids -> Nat], call \in [Procs -> Nat] : Backed(k, row, call)
  BY DEF Audited
<1>2. RowsOf(k) \in SUBSET Ids /\ IsFiniteSet(Ids) /\ IsFiniteSet(RowsOf(k))
  BY FS_Subset DEF RowsOf, OnePass
<1>3. ASSUME NEW i \in RowsOf(k) PROVE rows[i].times \in Nat
  BY <1>2, <1>3, LiveRow DEF RowsOf, Live, Row, TypeOK
<1>4. MapThenSumSet(LAMBDA i : rows[i].times, RowsOf(k)) = Total(f, RowsOf(k))
  BY <1>2, <1>3, TimesAdded
<1>5. NatOn(f, RowsOf(k)) /\ NatOn(row, Ids) /\ \A i \in RowsOf(k) : f[i] <= row[i]
  BY <1>1, <1>3 DEF NatOn, Backed
<1> HIDE DEF f
<1>6. Total(f, RowsOf(k)) <= Total(row, Ids) /\ Total(f, RowsOf(k)) \in Nat
  BY <1>2, <1>5, TotalGrows, TotalNat
<1>7. Total(row, Ids) + Total(call, Procs) <= observed[k] /\ observed[k] \in Nat
  BY <1>1 DEF Backed, TypeOK
<1>8. Total(f, RowsOf(k)) <= observed[k]
  BY <1>6, <1>7, AccountTypes
<1> QED
  BY <1>4, <1>8

\* With one pass at a time, whatever bumps overtake each other, whatever calls fail and
\* whatever edits of metadata write back, the counters of a text that no upsert touched
\* add up to no more than the times the text was stored.
THEOREM NothingInvented == OnePass => (Spec => []NeverOverCounted)
<1> SUFFICES ASSUME OnePass PROVE Spec => []NeverOverCounted
  OBVIOUS
<1>1. Init => Accounts
  BY AccountsInit
<1>2. Accounts /\ [Next]_vars => Accounts'
  BY AccountsNext
<1>3. Accounts => NeverOverCounted
  BY AccountsCover DEF Accounts, Sound, NeverOverCounted
<1> QED
  BY <1>1, <1>2, <1>3, PTL DEF Spec

=============================================================================

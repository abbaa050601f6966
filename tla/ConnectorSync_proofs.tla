------------------------ MODULE ConnectorSync_proofs ------------------------
(***************************************************************************)
(* Proofs about ConnectorSync, for any requests, workers, owners and pages: *)
(* the types, that what is on record was ingested for the owner on record,  *)
(* that progress only grows, and that the syncs keep to the vault, so that  *)
(* what is proved of the vault holds of them.                               *)
(***************************************************************************)
EXTENDS ConnectorSync, ConnectorVault_proofs

-----------------------------------------------------------------------------
(* The invariant *)

\* What revs says was ingested for owner.
Backed(owner, revs) ==
  \A r \in Resources :
    revs[r] = 0 \/ \E s \in ingested : s.owner = owner /\ s.res = r /\ s.rev >= revs[r]

\* The source has got at least as far as revs.
Within(revs) == \A r \in Resources : revs[r] <= source[r]

SoundRecord(record) ==
  /\ record.progress.cursor \in 0 .. Pages
  /\ Backed(record.owner, record.progress.revs)
  /\ Within(record.progress.revs)

\* A job's generation, if it is the connector's, was given to the job's owner.
Entitled(job) ==
  /\ job.gen <= minted
  /\ key # Absent /\ key.gen = job.gen => key.owner = job.owner

\* A sync works on a record of its job's instance, and what it has put together
\* extends the progress it read.
SoundLocal(l) ==
  /\ l # Free => Entitled(l.job)
  /\ l.stage \in {"list", "fetch"} =>
       l.record.gen = l.job.gen /\ l.record.owner = l.job.owner /\ SoundRecord(l.record)
  /\ l.stage = "fetch" =>
       /\ l.next \in 0 .. Pages
       /\ l.next # 0 => l.record.progress.cursor <= l.next
       /\ Backed(l.record.owner, l.revs) /\ Within(l.revs) /\ Within(l.listed)
       /\ \A r \in Resources : l.record.progress.revs[r] <= l.revs[r]
       /\ \A r \in l.left : l.record.progress.revs[r] <= l.listed[r]

\* An update in the vault belongs to a sync that is saving.
SoundCall(l, call) ==
  call # Idle /\ call.args.op = "update" =>
    /\ l.stage = "save"
    /\ call.args.gen = l.job.gen
    /\ Ahead(call.args.from, call.args.to)
    /\ call.args.to.cursor \in 0 .. Pages
    /\ Backed(l.job.owner, call.args.to.revs)
    /\ Within(call.args.to.revs)

Types ==
  /\ source \in [Resources -> Nat]
  /\ queue \subseteq Job
  /\ kept \subseteq Job
  /\ local \in [Callers -> Local]
  /\ ingested \subseteq Seen
  /\ missed \subseteq Owners \X Resources
  /\ events \in 0 .. MaxEvents

SoundKey == key # Absent => key.gen <= minted /\ SoundRecord(key)

SyncInv ==
  /\ VaultInv
  /\ Types
  /\ SoundKey
  /\ \A job \in queue : Entitled(job)
  /\ \A c \in Callers : SoundLocal(local[c]) /\ SoundCall(local[c], calls[c])

LEMMA SyncInvType == SyncInv => TypeOK
BY DEF SyncInv, VaultInv, Types, SoundKey, SoundRecord, TypeOK

LEMMA Slots == Routes \subseteq Callers /\ Workers \subseteq Callers
BY SyncAssumption

LEMMA LocalStages ==
  ASSUME NEW l \in Local
  PROVE  /\ l.stage \in {"free", "enqueue", "list", "fetch", "save"}
         /\ l # Free <=> l.stage # "free"
         /\ l # Free => l.job \in Job
         /\ l.stage = "fetch" => l \in Syncing
         /\ l.stage = "list" => l \in [stage: {"list"}, job: Job, record: Record]
BY DEF Local, Free, Syncing

LEMMA SyncInit == Init => SyncInv
<1> SUFFICES ASSUME Init PROVE SyncInv
  OBVIOUS
<1>1. VaultInv
  BY VaultInitInv DEF Init
<1>2. key # Absent => key \in Record /\ key.progress = Fresh /\ key.gen = 0
  BY <1>1 DEF Init, VaultInit, VaultInv, VaultTypeOK, Stored
<1>3. Types
  <2>1. queue \subseteq Job
    <3>1. key # Absent => OldJob(key.owner) \in Job
      BY <1>2 DEF OldJob, Job, Record
    <3>2. queue = {} \/ (key # Absent /\ queue = {OldJob(key.owner)})
      BY DEF Init
    <3> QED
      BY <3>1, <3>2
  <2> QED
    BY <2>1, SyncAssumption DEF Init, Types, Local
<1>4. SoundKey
  BY <1>2, SyncAssumption
     DEF Init, VaultInit, SoundKey, SoundRecord, Fresh, Backed, Within
<1>5. \A job \in queue : Entitled(job)
  BY DEF Init, VaultInit, OldJob, Entitled
<1>6. \A c \in Callers : local[c] = Free /\ calls[c] = Idle
  BY DEF Init, VaultInit
<1>7. SoundLocal(Free) /\ SoundCall(Free, Idle)
  BY DEF SoundLocal, SoundCall, Free
<1> QED
  BY <1>1, <1>3, <1>4, <1>5, <1>6, <1>7 DEF SyncInv

-----------------------------------------------------------------------------
(* What was sound stays sound *)

\* Nothing that was ingested is forgotten, the source only advances, and no generation
\* passes to another owner.
Advances ==
  /\ ingested \subseteq ingested'
  /\ \A r \in Resources : source[r] <= source'[r]
  /\ \A job \in Job : Entitled(job) => Entitled(job)'

LEMMA BackedStays ==
  ASSUME ingested \subseteq ingested', NEW owner, NEW revs, Backed(owner, revs)
  PROVE  Backed(owner, revs)'
BY DEF Backed

LEMMA WithinStays ==
  ASSUME Types, Types', Advances, NEW revs \in [Resources -> Nat], Within(revs)
  PROVE  Within(revs)'
<1> SUFFICES ASSUME NEW r \in Resources PROVE revs[r] <= source'[r]
  BY DEF Within
<1>1. revs[r] \in Nat /\ source[r] \in Nat /\ source'[r] \in Nat
  BY DEF Types
<1> QED
  BY <1>1 DEF Within, Advances

LEMMA RecordStays ==
  ASSUME Types, Types', Advances, NEW record \in Record, SoundRecord(record)
  PROVE  SoundRecord(record)'
<1>1. record.progress.revs \in [Resources -> Nat]
  BY DEF Record, Progress
<1> QED
  BY <1>1, BackedStays, WithinStays DEF SoundRecord, Advances

LEMMA LocalStays ==
  ASSUME Types, Types', Advances, NEW l \in Local, SoundLocal(l)
  PROVE  SoundLocal(l)'
<1>1. l # Free => Entitled(l.job)'
  BY LocalStages DEF SoundLocal, Advances
<1>2. l.stage \in {"list", "fetch"} => SoundRecord(l.record)'
  <2>1. l.stage \in {"list", "fetch"} => l.record \in Record
    BY LocalStages DEF Syncing
  <2> QED
    BY <2>1, RecordStays DEF SoundLocal
<1>3. l.stage = "fetch" => Backed(l.record.owner, l.revs)' /\ Within(l.revs)' /\ Within(l.listed)'
  <2>1. l.stage = "fetch" => l.revs \in [Resources -> Nat] /\ l.listed \in [Resources -> Nat]
    BY LocalStages DEF Syncing
  <2> QED
    BY <2>1, BackedStays, WithinStays DEF SoundLocal, Advances
<1> QED
  BY <1>1, <1>2, <1>3 DEF SoundLocal

LEMMA CallStays ==
  ASSUME Types, Types', Advances, NEW l, NEW call \in {Idle} \cup Call, SoundCall(l, call)
  PROVE  SoundCall(l, call)'
<1>1. call # Idle /\ call.args.op = "update" => call.args.to.revs \in [Resources -> Nat]
  BY DEF Call, Args, PutArgs, DeleteArgs, UpdateArgs, Progress
<1> QED
  BY <1>1, BackedStays, WithinStays DEF SoundCall, Advances

\* A step of one slot, on what the others keep.
LEMMA SlotSteps ==
  ASSUME SyncInv, VaultInv', Types', Advances, SoundKey', \A job \in queue' : Entitled(job)',
         NEW c \in Callers,
         \A d \in Callers \ {c} : local'[d] = local[d] /\ calls'[d] = calls[d],
         SoundLocal(local[c])', SoundCall(local[c], calls[c])'
  PROVE  SyncInv'
<1> SUFFICES ASSUME NEW d \in Callers
             PROVE  SoundLocal(local[d])' /\ SoundCall(local[d], calls[d])'
  BY DEF SyncInv
<1>1. CASE d = c
  BY <1>1
<1>2. CASE d # c
  <2>1. local[d] \in Local /\ calls[d] \in {Idle} \cup Call
    BY DEF SyncInv, Types, VaultInv, VaultTypeOK
  <2>2. SoundLocal(local[d])
    BY DEF SyncInv
  <2>3. SoundCall(local[d], calls[d])
    BY DEF SyncInv
  <2> QED
    BY <1>2, <2>1, <2>2, <2>3, LocalStays, CallStays DEF SyncInv
<1> QED
  BY <1>1, <1>2


-----------------------------------------------------------------------------
(* What a write does to the connector *)

Removed == key' = Absent /\ minted' = minted
Minted ==
  /\ key' \in Record /\ key'.gen = minted + 1 /\ minted' = minted + 1
  /\ \/ key'.progress = Fresh
     \/ key # Absent /\ key'.owner = key.owner /\ key'.progress = key.progress
SameInstance ==
  /\ key \in Record /\ key' \in Record
  /\ key'.gen = key.gen /\ key'.owner = key.owner /\ minted' = minted
Updated(args) ==
  args.op = "update" /\ args.gen = key.gen /\ args.from = key.progress /\ args.to = key'.progress

LEMMA WriteEffect ==
  ASSUME VaultInv, NEW c \in Callers, Write(c)
  PROVE  \/ Removed
         \/ Minted
         \/ SameInstance /\ (key'.progress = key.progress \/ Updated(calls[c].args))
<1> DEFINE args == calls[c].args
           seen == calls[c].seen
<1>1. calls[c] \in Call /\ calls[c].stage = "write" /\ Busy(c)
  BY DEF Write, Busy, VaultInv, VaultTypeOK
<1>2. args \in Args /\ seen \in Stored /\ ~Refused(args, seen)
  BY <1>1 DEF Call, VaultInv, Decided
<1>3. key = seen /\ key' = Result(args, seen)
      /\ minted' = IF Mints(args, seen) THEN minted + 1 ELSE minted
  BY DEF Write
<1>4. key' \in Stored
  BY <1>1, WriteInv DEF VaultInv, VaultTypeOK
<1> HIDE DEF args, seen
<1>5. CASE args \in PutArgs
  <2>1. args.op = "put" /\ key' = PutResult(args, seen)
    BY <1>3, <1>5 DEF PutArgs, Result
  <2>2. key' \in Record
    BY <1>4, <2>1 DEF PutResult, Stored, Absent
  <2>3. CASE KeepsInstance(args, seen)
    BY <1>2, <1>3, <2>1, <2>2, <2>3
       DEF KeepsInstance, SameOwner, PutResult, Stored, SameInstance, Mints
  <2>4. CASE ~KeepsInstance(args, seen)
    BY <1>3, <2>1, <2>2, <2>4 DEF SameOwner, PutResult, Minted, Mints
  <2> QED
    BY <2>3, <2>4
<1>6. CASE args \in DeleteArgs
  BY <1>3, <1>6 DEF DeleteArgs, Result, Mints, Removed
<1>7. CASE args \in UpdateArgs
  <2>1. args.op = "update" /\ args.to \in Progress
    BY <1>7 DEF UpdateArgs
  <2>2. seen \in Record /\ seen.gen = args.gen /\ seen.progress = args.from
    BY <1>2, <2>1 DEF Refused, UpdateRefused, Stored
  <2>3. key' = [key EXCEPT !.progress = args.to] /\ minted' = minted
    BY <1>3, <2>1 DEF Result, Mints
  <2>4. key' \in Record /\ key'.gen = key.gen /\ key'.owner = key.owner /\ key'.progress = args.to
    BY <1>3, <2>1, <2>2, <2>3 DEF Record
  <2> QED
    BY <1>3, <2>1, <2>2, <2>3, <2>4 DEF SameInstance, Updated, args
<1> QED
  BY <1>2, <1>5, <1>6, <1>7 DEF Args

\* No generation passes to another owner, and the connector stays sound.
LEMMA WriteKeeps ==
  ASSUME SyncInv, NEW c \in Callers, Write(c), UNCHANGED <<source, ingested>>
  PROVE  Advances /\ SoundKey'
<1>1. \/ Removed
      \/ Minted
      \/ SameInstance /\ (key'.progress = key.progress \/ Updated(calls[c].args))
  BY WriteEffect DEF SyncInv
<1>2. minted \in Nat /\ key \in Stored
  BY DEF SyncInv, VaultInv, VaultTypeOK
<1>3. Advances
  <2>1. ASSUME NEW job \in Job, Entitled(job) PROVE Entitled(job)'
    <3>1. job.gen \in Nat /\ job.gen <= minted
      BY <2>1 DEF Job, Entitled
    <3>2. CASE Removed
      BY <2>1, <3>1, <3>2 DEF Removed, Entitled
    <3>3. CASE Minted
      BY <1>2, <3>1, <3>3 DEF Minted, Entitled
    <3>4. CASE SameInstance
      BY <2>1, <3>1, <3>4, AbsentIsNoRecord DEF SameInstance, Entitled
    <3> QED
      BY <1>1, <3>2, <3>3, <3>4
  <2>2. \A r \in Resources : source[r] <= source'[r]
    BY DEF SyncInv, Types
  <2> QED
    BY <2>1, <2>2 DEF Advances
<1>4. SoundKey'
  <2> SUFFICES ASSUME key' # Absent PROVE key'.gen <= minted' /\ SoundRecord(key)'
    BY DEF SoundKey
  <2>1. key # Absent => SoundRecord(key) /\ key.gen <= minted
    BY DEF SyncInv, SoundKey
  <2>2. CASE Minted
    <3>1. key'.gen <= minted'
      BY <1>2, <2>2 DEF Minted
    <3>2. CASE key'.progress = Fresh
      BY <3>1, <3>2, SyncAssumption DEF SoundRecord, Fresh, Backed, Within, SyncInv, Types
    <3>3. CASE key # Absent /\ key'.owner = key.owner /\ key'.progress = key.progress
      BY <2>1, <3>1, <3>3 DEF SoundRecord, Backed, Within
    <3> QED
      BY <2>2, <3>2, <3>3, <3>1 DEF Minted
  <2>3. CASE SameInstance /\ key'.progress = key.progress
    BY <2>1, <2>3, AbsentIsNoRecord DEF SameInstance, SoundRecord, Backed, Within
  <2>4. CASE SameInstance /\ Updated(calls[c].args)
    <3> DEFINE args == calls[c].args
    <3>1. key # Absent /\ key.gen = args.gen /\ key'.progress = args.to
      BY <2>4, AbsentIsNoRecord DEF SameInstance, Updated
    <3>2. /\ local[c].stage = "save" /\ args.gen = local[c].job.gen
          /\ args.to.cursor \in 0 .. Pages
          /\ Backed(local[c].job.owner, args.to.revs) /\ Within(args.to.revs)
      BY <2>4 DEF SyncInv, SoundCall, Updated, Write, Busy
    <3>3. key.owner = local[c].job.owner
      BY <3>1, <3>2, LocalStages DEF SyncInv, SoundLocal, Entitled, Types
    <3>4. key'.owner = key.owner /\ key'.gen <= minted'
      BY <2>1, <2>4, <3>1 DEF SameInstance
    <3> HIDE DEF args
    <3> QED
      BY <3>1, <3>2, <3>3, <3>4 DEF SoundRecord, Backed, Within
  <2> QED
    BY <1>1, <2>2, <2>3, <2>4 DEF Removed
<1> QED
  BY <1>3, <1>4

-----------------------------------------------------------------------------
(* Syncs keep to the vault *)

LEMMA PutIsCall ==
  ASSUME NEW owner \in Owners, NEW config \in Configs, NEW mayTake \in BOOLEAN
  PROVE  [op |-> "put", owner |-> owner, config |-> config, mayTake |-> mayTake] \in Args
BY DEF Args, PutArgs

LEMMA RemovalIsCall ==
  ASSUME SyncInv, key # Absent
  PROVE  [op |-> "delete", gen |-> key.gen] \in Args
<1>1. key.gen \in Nat
  BY DEF SyncInv, VaultInv, VaultTypeOK, Stored, Record
<1> QED
  BY <1>1 DEF Args, DeleteArgs

\* The cursor a sync saves.
NewCursor(l) == IF l.next = 0 THEN l.record.progress.cursor ELSE l.next
UpdateOf(l) == [op |-> "update", gen |-> l.record.gen, from |-> l.record.progress,
                to |-> [cursor |-> NewCursor(l), revs |-> l.revs]]

LEMMA UpdateIsCall ==
  ASSUME SyncInv, NEW w \in Callers, local[w].stage = "fetch"
  PROVE  UpdateOf(local[w]) \in UpdateArgs
<1>1. local[w] \in Syncing
  BY LocalStages DEF SyncInv, Types
<1>2. local[w].record \in Record /\ local[w].next \in Nat /\ local[w].revs \in [Resources -> Nat]
  BY <1>1 DEF Syncing
<1>3. local[w].record.gen \in Nat /\ local[w].record.progress \in Progress
  BY <1>2 DEF Record
<1>4. NewCursor(local[w]) \in Nat
  BY <1>2, <1>3 DEF NewCursor, Progress
<1> QED
  BY <1>2, <1>3, <1>4 DEF UpdateOf, UpdateArgs, Progress

LEMMA StepOfVault == SyncInv /\ [Next]_vars => [VaultNext]_vaultVars
<1> SUFFICES ASSUME SyncInv, Next PROVE VaultNext \/ UNCHANGED vaultVars
  BY DEF vars, vaultVars
<1>1. ASSUME NEW c \in Routes, CallStep(c) \/ Enqueue(c) \/ SyncRequested(c)
      PROVE  VaultNext \/ UNCHANGED vaultVars
  BY <1>1, Slots DEF CallStep, Enqueue, SyncRequested, VaultNext, vaultVars
<1>2. ASSUME NEW c \in Routes, RemoveRoute(c) PROVE VaultNext
  BY <1>2, Slots, RemovalIsCall DEF RemoveRoute, VaultNext
<1>3. ASSUME NEW c \in Routes, NEW owner \in Owners, NEW config \in Configs, NEW mayTake \in BOOLEAN,
             RegisterRoute(c, owner, config, mayTake)
      PROVE  VaultNext
  <2>1. Begin(c, [op |-> "put", owner |-> owner, config |-> config, mayTake |-> mayTake])
    BY <1>3 DEF RegisterRoute
  <2> QED
    BY <2>1, Slots, PutIsCall DEF VaultNext
<1>4. ASSUME NEW w \in Workers, Save(w) PROVE VaultNext
  <2>1. local[w].stage = "fetch" /\ Begin(w, UpdateOf(local[w]))
    BY <1>4 DEF Save, SaveProgress, UpdateOf, NewCursor
  <2> QED
    BY <2>1, Slots, UpdateIsCall DEF VaultNext, Args
<1>5. ASSUME NEW w \in Workers, SaveStep(w) \/ WorkerKilled(w) PROVE VaultNext
  BY <1>5, Slots DEF SaveStep, WorkerKilled, VaultNext
<1>6. ASSUME NEW w \in Workers, List(w) \/ JobFails(w)
                                \/ (\E r \in Resources : Fetch(w, r) \/ FetchFails(w, r))
                                \/ (\E job \in queue : Skip(w, job) \/ Start(w, job))
      PROVE  UNCHANGED vaultVars
  BY <1>6 DEF List, JobFails, Fetch, FetchFails, Skip, Start, Take, vaultVars
<1>7. ASSUME (\E job \in kept : ResultExpires(job)) \/ (\E r \in Resources : Edit(r))
      PROVE  UNCHANGED vaultVars
  BY <1>7 DEF ResultExpires, Edit, vaultVars
<1> QED
  BY <1>1, <1>2, <1>3, <1>4, <1>5, <1>6, <1>7 DEF Next, RouteStep, WorkerStep

LEMMA VaultInvStays == SyncInv /\ [Next]_vars => VaultInv'
BY StepOfVault, VaultNextInv DEF SyncInv

-----------------------------------------------------------------------------
(* Each action *)

LEMMA QuietAdvances ==
  ASSUME SyncInv, UNCHANGED <<key, minted>>, ingested \subseteq ingested', source' = source
  PROVE  Advances /\ SoundKey'
<1>1. \A r \in Resources : source[r] <= source'[r]
  BY DEF SyncInv, Types
<1>2. Advances
  BY <1>1 DEF Advances, Entitled
<1>3. SoundKey'
  BY BackedStays DEF SyncInv, SoundKey, SoundRecord, Within
<1> QED
  BY <1>2, <1>3

\* A request that begins, reads or ends.
LEMMA RegisterRouteInv ==
  ASSUME SyncInv, VaultInv', NEW c \in Routes, NEW owner, NEW config, NEW mayTake,
         RegisterRoute(c, owner, config, mayTake)
  PROVE  SyncInv'
<1> DEFINE call == [op |-> "call", args |-> [op |-> "put", owner |-> owner, config |-> config,
                                             mayTake |-> mayTake],
                    stage |-> "read", seen |-> Absent, round |-> 1]
<1>1. calls' = [calls EXCEPT ![c] = call] /\ call.args.op = "put"
  BY DEF RegisterRoute, Begin, SetCall
<1> HIDE DEF call
<1>2. Types' /\ \A job \in queue' : Entitled(job)'
  BY SyncAssumption DEF RegisterRoute, Begin, Event, SyncInv, Types, Entitled
<1>3. Advances /\ SoundKey'
  BY QuietAdvances DEF RegisterRoute, Begin
<1>4. c \in Callers /\ local' = local /\ calls'[c] = call /\ calls \in [Callers -> {Idle} \cup Call]
  BY <1>1, Slots DEF RegisterRoute, SyncInv, VaultInv, VaultTypeOK
<1>5. SoundLocal(local[c])'
  BY <1>2, <1>3, <1>4, LocalStays DEF SyncInv, Types
<1>6. SoundCall(local[c], calls[c])'
  BY <1>1, <1>4 DEF SoundCall
<1>7. \A d \in Callers \ {c} : local'[d] = local[d] /\ calls'[d] = calls[d]
  BY <1>1, <1>4
<1> QED
  BY <1>2, <1>3, <1>4, <1>5, <1>6, <1>7, SlotSteps

LEMMA RemoveRouteInv ==
  ASSUME SyncInv, VaultInv', NEW c \in Routes, RemoveRoute(c)
  PROVE  SyncInv'
<1> DEFINE call == [op |-> "call", args |-> [op |-> "delete", gen |-> key.gen],
                    stage |-> "read", seen |-> Absent, round |-> 1]
<1>1. calls' = [calls EXCEPT ![c] = call] /\ call.args.op = "delete"
  BY DEF RemoveRoute, Begin, SetCall
<1> HIDE DEF call
<1>2. Types' /\ \A job \in queue' : Entitled(job)'
  BY SyncAssumption DEF RemoveRoute, Begin, Event, SyncInv, Types, Entitled
<1>3. Advances /\ SoundKey'
  BY QuietAdvances DEF RemoveRoute, Begin
<1>4. c \in Callers /\ local' = local /\ calls'[c] = call /\ calls \in [Callers -> {Idle} \cup Call]
  BY <1>1, Slots DEF RemoveRoute, SyncInv, VaultInv, VaultTypeOK
<1>5. SoundLocal(local[c])'
  BY <1>2, <1>3, <1>4, LocalStays DEF SyncInv, Types
<1>6. SoundCall(local[c], calls[c])'
  BY <1>1, <1>4 DEF SoundCall
<1>7. \A d \in Callers \ {c} : local'[d] = local[d] /\ calls'[d] = calls[d]
  BY <1>1, <1>4
<1> QED
  BY <1>2, <1>3, <1>4, <1>5, <1>6, <1>7, SlotSteps

\* A slot goes on with l, and the vault has nothing to do with it.
LEMMA SlotGoes ==
  ASSUME SyncInv, VaultInv', Types', Advances, SoundKey', \A job \in queue' : Entitled(job)',
         NEW c \in Callers, NEW l, Go(c, l), SoundLocal(l)', UNCHANGED calls,
         local[c].stage # "save"
  PROVE  SyncInv'
<1>1. local'[c] = l /\ \A d \in Callers \ {c} : local'[d] = local[d] /\ calls'[d] = calls[d]
  BY DEF Go, SyncInv, Types
<1>2. SoundLocal(local[c])'
  BY <1>1
<1>3. SoundCall(local[c], calls[c])'
  BY DEF SyncInv, SoundCall
<1> QED
  BY <1>1, <1>2, <1>3, SlotSteps

LEMMA SyncRequestedInv ==
  ASSUME SyncInv, VaultInv', NEW c \in Routes, SyncRequested(c)
  PROVE  SyncInv'
<1> PICK job : job = [gen |-> key.gen, owner |-> key.owner, old |-> FALSE]
  OBVIOUS
<1> PICK l : l = [stage |-> "enqueue", job |-> job]
  OBVIOUS
<1>1. c \in Callers /\ Go(c, l) /\ local[c].stage # "save"
  BY Slots DEF SyncRequested, Free
<1>2. key \in Record
  BY DEF SyncRequested, SyncInv, VaultInv, VaultTypeOK, Stored
<1>3. job \in Job
  BY <1>2 DEF Job, Record
<1>4. l \in Local /\ l.stage = "enqueue" /\ l.job = job
  BY <1>3 DEF Local
<1>5. Types'
  BY <1>1, <1>4 DEF Go, SyncRequested, SyncInv, Types
<1>6. Advances /\ SoundKey' /\ UNCHANGED <<calls, queue, key, minted>>
  BY QuietAdvances DEF SyncRequested
<1>7. Entitled(job)
  BY DEF SyncRequested, SyncInv, SoundKey, Entitled
<1>8. SoundLocal(l)'
  BY <1>3, <1>4, <1>6, <1>7 DEF SoundLocal, Advances
<1>9. \A j \in queue' : Entitled(j)'
  BY <1>6 DEF SyncInv, Entitled
<1> QED
  BY <1>1, <1>5, <1>6, <1>8, <1>9, SlotGoes

LEMMA FreeIsSound == Free \in Local /\ SoundLocal(Free) /\ SoundLocal(Free)'
BY DEF Local, SoundLocal, Free

LEMMA EnqueueInv ==
  ASSUME SyncInv, VaultInv', NEW c \in Routes, Enqueue(c)
  PROVE  SyncInv'
<1>1. c \in Callers /\ Go(c, Free) /\ local[c].stage = "enqueue" /\ local[c] \in Local
  BY Slots DEF Enqueue, SyncInv, Types
<1>2. Advances /\ SoundKey' /\ UNCHANGED <<calls, key, minted>>
  BY QuietAdvances DEF Enqueue
<1>3. queue' \subseteq queue \cup {local[c].job} /\ local[c].job \in Job
  BY <1>1, LocalStages DEF Enqueue
<1>4. Entitled(local[c].job)
  BY <1>1, LocalStages DEF SyncInv, SoundLocal
<1>5. \A j \in queue' : Entitled(j)'
  BY <1>2, <1>3, <1>4 DEF SyncInv, Advances, Types
<1>6. Types'
  BY <1>1, <1>3, FreeIsSound DEF Enqueue, Go, SyncInv, Types
<1> QED
  BY <1>1, <1>2, <1>5, <1>6, FreeIsSound, SlotGoes

-----------------------------------------------------------------------------
(* The sync job *)

LEMMA SkipInv ==
  ASSUME SyncInv, VaultInv', NEW w \in Workers, NEW job \in queue, Skip(w, job)
  PROVE  SyncInv'
<1>1. w \in Callers /\ Go(w, Free) /\ local[w].stage # "save" /\ job \in Job
  BY Slots DEF Skip, Take, End, SyncInv, Types, Free
<1>2. Advances /\ SoundKey' /\ UNCHANGED <<calls, key, minted>>
  BY QuietAdvances DEF Skip, Take
<1>3. \A j \in queue' : Entitled(j)'
  BY <1>2 DEF Skip, Take, SyncInv, Advances, Types
<1>4. Types'
  BY <1>1, FreeIsSound DEF Skip, Take, End, Go, SyncInv, Types
<1> QED
  BY <1>1, <1>2, <1>3, <1>4, FreeIsSound, SlotGoes

LEMMA StartInv ==
  ASSUME SyncInv, VaultInv', NEW w \in Workers, NEW job \in queue, Start(w, job)
  PROVE  SyncInv'
<1> PICK l : l = [stage |-> "list", job |-> job, record |-> key]
  OBVIOUS
<1>1. w \in Callers /\ Go(w, l) /\ local[w].stage # "save" /\ job \in Job
  BY Slots DEF Start, Take, SyncInv, Types, Free
<1>2. Advances /\ SoundKey' /\ UNCHANGED <<calls, key, minted, source, ingested>>
  BY QuietAdvances DEF Start, Take
<1>3. \A j \in queue' : Entitled(j)'
  BY <1>2 DEF Start, Take, SyncInv, Advances, Types
<1>4. key \in Record /\ key.gen = job.gen
  BY DEF Start, Due, SyncInv, VaultInv, VaultTypeOK, Stored
<1>5. l \in Local /\ l.stage = "list" /\ l.job = job /\ l.record = key
  BY <1>1, <1>4 DEF Local
<1>6. Types'
  BY <1>1, <1>5 DEF Start, Take, Go, SyncInv, Types
<1>7. Entitled(job) /\ key # Absent
  BY DEF SyncInv, Start, Due
<1>8. SoundRecord(key) /\ key.owner = job.owner
  BY <1>4, <1>7 DEF SyncInv, SoundKey, Entitled
<1>9. SoundLocal(l)
  BY <1>4, <1>5, <1>7, <1>8 DEF SoundLocal
<1>10. SoundLocal(l)'
  BY <1>2, <1>5, <1>6, <1>9, LocalStays DEF SyncInv
<1> QED
  BY <1>1, <1>2, <1>3, <1>6, <1>10, SlotGoes

LEMMA FollowingPage ==
  ASSUME NEW cursor \in 0 .. Pages
  PROVE  /\ Following(Page(cursor)) \in 0 .. Pages
         /\ Following(Page(cursor)) # 0 => cursor <= Following(Page(cursor))
BY SyncAssumption DEF Following, Page

LEMMA SyncingIsLocal ==
  ASSUME NEW job \in Job, NEW record \in Record, NEW next \in Nat,
         NEW listed \in [Resources -> Nat], NEW left \in SUBSET Resources,
         NEW revs \in [Resources -> Nat]
  PROVE  [stage |-> "fetch", job |-> job, record |-> record, next |-> next,
          listed |-> listed, left |-> left, revs |-> revs] \in Local
BY DEF Local, Syncing

LEMMA ListInv ==
  ASSUME SyncInv, VaultInv', NEW w \in Workers, List(w)
  PROVE  SyncInv'
<1> DEFINE was == local[w].record.progress
           page == Page(was.cursor)
<1> PICK l : l = [stage |-> "fetch", job |-> local[w].job, record |-> local[w].record,
                  next |-> Following(page),
                  listed |-> [r \in Resources |-> IF r \in On(page) THEN source[r] ELSE 0],
                  left |-> {r \in On(page) : was.revs[r] # source[r]},
                  revs |-> was.revs]
  OBVIOUS
<1>1. w \in Callers /\ Go(w, l) /\ local[w].stage = "list" /\ local[w] \in Local
  BY Slots DEF List, SyncInv, Types
<1>2. Advances /\ SoundKey' /\ UNCHANGED <<calls, key, minted, source, ingested>>
  BY QuietAdvances DEF List
<1>3. \A j \in queue' : Entitled(j)'
  BY <1>2 DEF List, SyncInv, Advances, Types
<1>4. local[w].record \in Record /\ local[w].job \in Job /\ was.revs \in [Resources -> Nat]
      /\ was.cursor \in Nat
  BY <1>1, LocalStages DEF Record, Progress
<1>5. /\ Entitled(local[w].job) /\ local[w].record.gen = local[w].job.gen
      /\ local[w].record.owner = local[w].job.owner /\ SoundRecord(local[w].record)
  BY <1>1, LocalStages DEF SyncInv, SoundLocal
<1>6. was.cursor \in 0 .. Pages /\ Backed(local[w].record.owner, was.revs) /\ Within(was.revs)
  BY <1>5 DEF SoundRecord
<1>7. l.next \in 0 .. Pages /\ (l.next # 0 => was.cursor <= l.next)
  BY <1>6, FollowingPage
<1>8. l.left \subseteq On(page) /\ On(page) \subseteq Resources
  BY DEF On
<1>9. l.listed \in [Resources -> Nat] /\ Within(l.listed)
  BY DEF SyncInv, Types, Within
<1>10. \A r \in l.left : was.revs[r] <= l.listed[r]
  BY <1>6, <1>8 DEF Within
<1>11. l \in Local
  <2>1. l = [stage |-> "fetch", job |-> local[w].job, record |-> local[w].record,
             next |-> l.next, listed |-> l.listed, left |-> l.left, revs |-> was.revs]
    OBVIOUS
  <2>2. l.next \in Nat /\ l.left \in SUBSET Resources
    BY <1>7, <1>8, SyncAssumption
  <2> HIDE DEF was, page
  <2> QED
    BY <1>4, <1>9, <2>1, <2>2, SyncingIsLocal
<1>12. \A r \in Resources : was.revs[r] <= was.revs[r]
  BY <1>4
<1>13. SoundLocal(l)
  BY <1>5, <1>6, <1>7, <1>9, <1>10, <1>12 DEF SoundLocal
<1>14. Types'
  BY <1>1, <1>11 DEF List, Go, SyncInv, Types
<1>15. SoundLocal(l)'
  BY <1>2, <1>11, <1>13, <1>14, LocalStays DEF SyncInv
<1> QED
  BY <1>1, <1>2, <1>3, <1>14, <1>15, SlotGoes

\* What is known of a sync that fetches.
LEMMA SyncUnderWay ==
  ASSUME SyncInv, NEW w \in Callers, local[w].stage = "fetch"
  PROVE  /\ local[w] \in Syncing /\ Entitled(local[w].job)
         /\ local[w].record.gen = local[w].job.gen /\ local[w].record.owner = local[w].job.owner
         /\ SoundRecord(local[w].record)
         /\ local[w].next \in 0 .. Pages
         /\ local[w].next # 0 => local[w].record.progress.cursor <= local[w].next
         /\ Backed(local[w].record.owner, local[w].revs)
         /\ Within(local[w].revs) /\ Within(local[w].listed)
         /\ \A r \in Resources : local[w].record.progress.revs[r] <= local[w].revs[r]
         /\ \A r \in local[w].left : local[w].record.progress.revs[r] <= local[w].listed[r]
BY LocalStages DEF SyncInv, Types, SoundLocal

LEMMA FetchInv ==
  ASSUME SyncInv, VaultInv', NEW w \in Workers, NEW r \in Resources, Fetch(w, r)
  PROVE  SyncInv'
<1> PICK l : l = [local[w] EXCEPT !.left = @ \ {r}, !.revs[r] = local[w].listed[r]]
  OBVIOUS
<1>1. w \in Callers /\ Go(w, l) /\ local[w].stage = "fetch" /\ r \in local[w].left
  BY Slots DEF Fetch
<1>2. local[w] \in Syncing
  BY <1>1, SyncUnderWay
<1>3. /\ l.stage = "fetch" /\ l.job = local[w].job /\ l.record = local[w].record
      /\ l.next = local[w].next /\ l.listed = local[w].listed /\ l.left = local[w].left \ {r}
      /\ l.revs = [local[w].revs EXCEPT ![r] = local[w].listed[r]]
      /\ l \in Syncing
  BY <1>2 DEF Syncing
<1>4. /\ local[w].revs \in [Resources -> Nat] /\ local[w].listed \in [Resources -> Nat]
      /\ local[w].record \in Record /\ local[w].job \in Job
  BY <1>2 DEF Syncing
<1>5. [owner |-> local[w].record.owner, res |-> r, rev |-> source[r]] \in Seen
  BY <1>4 DEF Seen, Record, SyncInv, Types
<1>6. Types'
  BY <1>1, <1>3, <1>5 DEF Fetch, Go, SyncInv, Types, Local
<1>7. Advances /\ SoundKey' /\ UNCHANGED <<calls, key, minted, source, queue>>
      /\ ingested \subseteq ingested'
  BY QuietAdvances DEF Fetch
<1>8. \A j \in queue' : Entitled(j)'
  BY <1>7 DEF SyncInv, Advances, Types
<1>9. Entitled(l.job)' /\ SoundRecord(l.record)'
  BY <1>1, <1>3, <1>4, <1>6, <1>7, SyncUnderWay, RecordStays DEF SyncInv, Advances
<1>10. Backed(l.record.owner, l.revs)'
  <2> SUFFICES ASSUME NEW q \in Resources
               PROVE  l.revs[q] = 0 \/ \E s \in ingested' : s.owner = l.record.owner
                                         /\ s.res = q /\ s.rev >= l.revs[q]
    BY DEF Backed
  <2>1. CASE q = r
    <3>1. l.revs[r] = local[w].listed[r] /\ local[w].listed[r] <= source[r]
      BY <1>1, <1>3, <1>4, SyncUnderWay DEF Within
    <3>2. source[r] >= l.revs[r]
      BY <1>4, <3>1 DEF SyncInv, Types
    <3> DEFINE s == [owner |-> local[w].record.owner, res |-> r, rev |-> source[r]]
    <3>3. s \in ingested'
      BY DEF Fetch
    <3>4. s.owner = l.record.owner /\ s.res = q /\ s.rev >= l.revs[q]
      BY <1>3, <2>1, <3>2
    <3> HIDE DEF s
    <3> QED
      BY <3>3, <3>4
  <2>2. CASE q # r
    BY <1>1, <1>3, <1>4, <1>7, <2>2, SyncUnderWay DEF Backed
  <2> QED
    BY <2>1, <2>2
<1>11. Within(l.revs)' /\ Within(l.listed)'
  BY <1>1, <1>3, <1>4, <1>7, SyncUnderWay DEF Within
<1>12. \A q \in Resources : l.record.progress.revs[q] <= l.revs[q]
  BY <1>1, <1>3, <1>4, SyncUnderWay
<1>13. \A q \in l.left : l.record.progress.revs[q] <= l.listed[q]
  BY <1>1, <1>3, SyncUnderWay
<1>14. SoundLocal(l)'
  <2>1. l.record.gen = l.job.gen /\ l.record.owner = l.job.owner
        /\ l.next \in 0 .. Pages /\ (l.next # 0 => l.record.progress.cursor <= l.next)
    BY <1>1, <1>3, SyncUnderWay
  <2> QED
    BY <1>3, <1>9, <1>10, <1>11, <1>12, <1>13, <2>1 DEF SoundLocal
<1> QED
  BY <1>1, <1>6, <1>7, <1>8, <1>14, SlotGoes

LEMMA FetchFailsInv ==
  ASSUME SyncInv, VaultInv', NEW w \in Workers, NEW r \in Resources, FetchFails(w, r)
  PROVE  SyncInv'
<1> PICK l : l = [local[w] EXCEPT !.left = @ \ {r}]
  OBVIOUS
<1>1. w \in Callers /\ Go(w, l) /\ local[w].stage = "fetch"
  BY Slots DEF FetchFails
<1>2. local[w] \in Syncing
  BY <1>1, SyncUnderWay
<1>3. /\ l.stage = "fetch" /\ l.job = local[w].job /\ l.record = local[w].record
      /\ l.next = local[w].next /\ l.listed = local[w].listed /\ l.left \subseteq local[w].left
      /\ l.revs = local[w].revs /\ l \in Syncing
  BY <1>2 DEF Syncing
<1>4. local[w].record.owner \in Owners
  BY <1>2 DEF Syncing, Record
<1>5. Types'
  BY <1>1, <1>3, <1>4, SyncAssumption DEF FetchFails, Event, Go, SyncInv, Types, Local
<1>6. Advances /\ SoundKey' /\ UNCHANGED <<calls, key, minted, source, queue, ingested>>
  BY QuietAdvances DEF FetchFails
<1>7. \A j \in queue' : Entitled(j)'
  BY <1>6 DEF SyncInv, Advances, Types
<1>8. SoundLocal(l)
  BY <1>1, <1>3, SyncUnderWay DEF SoundLocal
<1>9. SoundLocal(l)'
  BY <1>3, <1>5, <1>6, <1>8, LocalStays DEF SyncInv, Local
<1> QED
  BY <1>1, <1>5, <1>6, <1>7, <1>9, SlotGoes

LEMMA JobFailsInv ==
  ASSUME SyncInv, VaultInv', NEW w \in Workers, JobFails(w)
  PROVE  SyncInv'
<1>1. w \in Callers /\ Go(w, Free) /\ local[w].stage \in {"list", "fetch"} /\ local[w] \in Local
  BY Slots DEF JobFails, End, SyncInv, Types
<1>2. local[w].job \in Job
  BY <1>1, LocalStages
<1>3. Types'
  BY <1>1, <1>2, FreeIsSound, SyncAssumption DEF JobFails, End, Event, Go, SyncInv, Types
<1>4. Advances /\ SoundKey' /\ UNCHANGED <<calls, key, minted, source, queue, ingested>>
  BY QuietAdvances DEF JobFails
<1>5. \A j \in queue' : Entitled(j)'
  BY <1>4 DEF SyncInv, Advances, Types
<1> QED
  BY <1>1, <1>3, <1>4, <1>5, FreeIsSound, SlotGoes

LEMMA SaveInv ==
  ASSUME SyncInv, VaultInv', NEW w \in Workers, Save(w)
  PROVE  SyncInv'
<1> PICK l : l = local[w]
  OBVIOUS
<1> PICK new : new = [stage |-> "save", job |-> l.job]
  OBVIOUS
<1> PICK call : call = [op |-> "call", args |-> UpdateOf(l), stage |-> "read", seen |-> Absent,
                        round |-> 1]
  OBVIOUS
<1>1. w \in Callers /\ Go(w, new) /\ SetCall(w, call) /\ l.stage = "fetch"
  BY Slots DEF Save, SaveProgress, Begin, UpdateOf, NewCursor
<1>2. l \in Syncing /\ new \in Local /\ l.job \in Job /\ l.revs \in [Resources -> Nat]
      /\ l.record \in Record
  BY <1>1, SyncUnderWay DEF Syncing, Local
<1>3. Types'
  BY <1>1, <1>2 DEF Save, SaveProgress, Go, SyncInv, Types
<1>4. Advances /\ SoundKey' /\ UNCHANGED <<key, minted, source, queue, ingested>>
  BY QuietAdvances DEF Save, SaveProgress, Begin
<1>5. \A j \in queue' : Entitled(j)'
  BY <1>4 DEF SyncInv, Advances, Types
<1>6. local'[w] = new /\ calls'[w] = call
      /\ \A d \in Callers \ {w} : local'[d] = local[d] /\ calls'[d] = calls[d]
  BY <1>1 DEF Go, SetCall, SyncInv, Types, VaultInv, VaultTypeOK
<1>7. SoundLocal(new)'
  BY <1>1, <1>2, <1>4, SyncUnderWay DEF SoundLocal, Advances
<1>8. SoundCall(new, call)
  <2>1. l.record.progress.cursor \in 0 .. Pages
    BY <1>1, SyncUnderWay DEF SoundRecord
  <2>2. NewCursor(l) \in 0 .. Pages /\ l.record.progress.cursor <= NewCursor(l)
    BY <1>1, <2>1, SyncUnderWay, SyncAssumption DEF NewCursor
  <2>3. Ahead(l.record.progress, [cursor |-> NewCursor(l), revs |-> l.revs])
    BY <1>1, <2>2, SyncUnderWay DEF Ahead
  <2>4. call.args.gen = l.job.gen /\ Backed(l.job.owner, l.revs) /\ Within(l.revs)
    BY <1>1, SyncUnderWay DEF UpdateOf
  <2> QED
    BY <2>2, <2>3, <2>4 DEF SoundCall, UpdateOf
<1>9. call \in Call
  <2>1. UpdateOf(l) \in Args
    BY <1>1, UpdateIsCall DEF Args
  <2> QED
    BY <2>1 DEF Call, Stored
<1>10. SoundCall(new, call)'
  BY <1>3, <1>4, <1>8, <1>9, CallStays DEF SyncInv
<1> QED
  BY <1>1, <1>3, <1>4, <1>5, <1>6, <1>7, <1>10, SlotSteps

\* A vault call goes on with the same arguments, or ends.
LEMMA VaultStepKeeps ==
  ASSUME SyncInv, NEW c \in Callers, VaultStep(c), UNCHANGED <<source, ingested>>
  PROVE  /\ Advances /\ SoundKey'
         /\ calls'[c] = Idle
              \/ (calls[c] # Idle /\ calls'[c] # Idle /\ calls'[c].args = calls[c].args)
         /\ \A d \in Callers \ {c} : calls'[d] = calls[d]
<1>1. calls \in [Callers -> {Idle} \cup Call]
  BY DEF SyncInv, VaultInv, VaultTypeOK
<1>2. CASE Write(c)
  BY <1>1, <1>2, WriteKeeps DEF Write, SetCall
<1>3. CASE Read(c)
  <2>1. calls[c] \in Call /\ calls[c] # Idle
    BY <1>1, <1>3 DEF Read, Busy
  <2>2. [calls[c] EXCEPT !.stage = "write", !.seen = key] \in Call
    BY <2>1 DEF Call, SyncInv, VaultInv, VaultTypeOK
  <2>3. /\ [calls[c] EXCEPT !.stage = "write", !.seen = key] # Idle
        /\ [calls[c] EXCEPT !.stage = "write", !.seen = key].args = calls[c].args
    BY <2>1, <2>2 DEF Call, Idle
  <2> QED
    BY <1>1, <1>3, <2>1, <2>3, QuietAdvances DEF Read, SetCall
<1>4. CASE WriteLost(c)
  <2>1. calls[c] \in Call /\ calls[c] # Idle
    BY <1>1, <1>4 DEF WriteLost, Busy
  <2>2. calls[c].round + 1 \in Nat
    BY <2>1 DEF Call
  <2>3. [calls[c] EXCEPT !.stage = "read", !.round = @ + 1] \in Call
    BY <2>1, <2>2 DEF Call
  <2>4. /\ [calls[c] EXCEPT !.stage = "read", !.round = @ + 1] # Idle
        /\ [calls[c] EXCEPT !.stage = "read", !.round = @ + 1].args = calls[c].args
    BY <2>1, <2>3 DEF Call, Idle
  <2> QED
    BY <1>1, <1>4, <2>1, <2>4, QuietAdvances DEF WriteLost, SetCall
<1> QED
  BY <1>2, <1>3, <1>4 DEF VaultStep

\* What is said of a call is said of its arguments.
LEMMA SameArguments ==
  ASSUME NEW l, NEW call, NEW next, SoundCall(l, call), call # Idle,
         next = Idle \/ next.args = call.args
  PROVE  SoundCall(l, next)
BY DEF SoundCall

LEMMA CallGoesOn ==
  ASSUME SyncInv, VaultInv', Types', NEW c \in Callers, VaultStep(c),
         UNCHANGED <<source, ingested>>, local'[c] = local[c]
  PROVE  SoundLocal(local[c])' /\ SoundCall(local[c], calls[c])'
<1>1. Advances /\ SoundKey'
  BY VaultStepKeeps
<1>2. local[c] \in Local /\ SoundLocal(local[c]) /\ SoundCall(local[c], calls[c])
  BY DEF SyncInv, Types
<1>3. SoundLocal(local[c])'
  BY <1>1, <1>2, LocalStays DEF SyncInv
<1> PICK l : l = local[c]
  OBVIOUS
<1> PICK next : next = calls'[c]
  OBVIOUS
<1>4. calls'[c] \in {Idle} \cup Call
  BY DEF VaultInv, VaultTypeOK
<1>5. SoundCall(l, next)
  <2>1. CASE next = Idle
    BY <2>1 DEF SoundCall
  <2>2. CASE next # Idle
    BY <1>2, <2>2, VaultStepKeeps, SameArguments
  <2> QED
    BY <2>1, <2>2
<1>6. SoundCall(l, next)'
  BY <1>1, <1>4, <1>5, CallStays DEF SyncInv
<1> QED
  BY <1>3, <1>6

LEMMA CallStepInv ==
  ASSUME SyncInv, VaultInv', NEW c \in Routes, CallStep(c)
  PROVE  SyncInv'
<1>1. c \in Callers /\ VaultStep(c) /\ UNCHANGED syncVars
  BY Slots DEF CallStep
<1>2. Types' /\ UNCHANGED <<source, ingested, local, queue>>
  BY <1>1 DEF syncVars, SyncInv, Types
<1>3. Advances /\ SoundKey' /\ \A d \in Callers \ {c} : calls'[d] = calls[d]
  BY <1>1, <1>2, VaultStepKeeps
<1>4. \A j \in queue' : Entitled(j)'
  BY <1>2, <1>3 DEF SyncInv, Advances, Types
<1>5. SoundLocal(local[c])' /\ SoundCall(local[c], calls[c])'
  BY <1>1, <1>2, CallGoesOn
<1> QED
  BY <1>1, <1>2, <1>3, <1>4, <1>5, SlotSteps

LEMMA SaveStepInv ==
  ASSUME SyncInv, VaultInv', NEW w \in Workers, SaveStep(w)
  PROVE  SyncInv'
<1>1. w \in Callers /\ VaultStep(w) /\ UNCHANGED <<source, ingested, queue, missed, events>>
  BY Slots DEF SaveStep
<1>2. local \in [Callers -> Local] /\ local[w].stage = "save" /\ local[w].job \in Job
  BY <1>1, LocalStages DEF SaveStep, SyncInv, Types
<1>3. Advances /\ SoundKey' /\ \A d \in Callers \ {w} : calls'[d] = calls[d]
  BY <1>1, VaultStepKeeps
<1>4. \A j \in queue' : Entitled(j)'
  BY <1>1, <1>3 DEF SyncInv, Advances, Types
<1>5. CASE calls'[w] = Idle
  <2>1. local' = [local EXCEPT ![w] = Free] /\ kept' = kept \cup {local[w].job}
    BY <1>5 DEF SaveStep, End, Go
  <2>2. Types'
    BY <1>1, <1>2, <2>1, FreeIsSound DEF SyncInv, Types
  <2>3. local'[w] = Free /\ \A d \in Callers \ {w} : local'[d] = local[d]
    BY <1>1, <1>2, <2>1
  <2>4. SoundLocal(local[w])' /\ SoundCall(local[w], calls[w])'
    BY <1>5, <2>3, FreeIsSound DEF SoundCall
  <2> QED
    BY <1>1, <1>3, <1>4, <2>2, <2>3, <2>4, SlotSteps
<1>6. CASE calls'[w] # Idle
  <2>1. UNCHANGED <<local, kept>>
    BY <1>6 DEF SaveStep
  <2>2. Types'
    BY <1>1, <2>1 DEF SyncInv, Types
  <2>3. SoundLocal(local[w])' /\ SoundCall(local[w], calls[w])'
    BY <1>1, <2>1, <2>2, CallGoesOn
  <2> QED
    BY <1>1, <1>3, <1>4, <2>1, <2>2, <2>3, SlotSteps
<1> QED
  BY <1>5, <1>6

-----------------------------------------------------------------------------
(* What happens around them *)

LEMMA WorkerKilledInv ==
  ASSUME SyncInv, VaultInv', NEW w \in Workers, WorkerKilled(w)
  PROVE  SyncInv'
<1>1. w \in Callers /\ Go(w, Free) /\ SetCall(w, Idle) /\ local[w] # Free /\ local[w] \in Local
  BY Slots DEF WorkerKilled, Drop, SyncInv, Types
<1>2. local[w].job \in Job /\ Entitled(local[w].job)
  BY <1>1, LocalStages DEF SyncInv, SoundLocal
<1>3. Types'
  BY <1>1, <1>2, FreeIsSound, SyncAssumption DEF WorkerKilled, Event, Go, SyncInv, Types
<1>4. Advances /\ SoundKey' /\ UNCHANGED <<key, minted, source, ingested>>
  BY QuietAdvances DEF WorkerKilled, Drop
<1>5. \A j \in queue' : Entitled(j)'
  BY <1>2, <1>4 DEF WorkerKilled, SyncInv, Advances, Types
<1>6. local'[w] = Free /\ calls'[w] = Idle
      /\ \A d \in Callers \ {w} : local'[d] = local[d] /\ calls'[d] = calls[d]
  BY <1>1 DEF Go, SetCall, SyncInv, Types, VaultInv, VaultTypeOK
<1>7. SoundLocal(local[w])' /\ SoundCall(local[w], calls[w])'
  BY <1>6, FreeIsSound DEF SoundCall
<1> QED
  BY <1>1, <1>3, <1>4, <1>5, <1>6, <1>7, SlotSteps

\* Nothing happens to any slot.
LEMMA SlotsStay ==
  ASSUME SyncInv, VaultInv', Types', Advances, SoundKey', UNCHANGED <<queue, local, calls>>
  PROVE  SyncInv'
<1>1. \A j \in queue' : Entitled(j)'
  BY DEF SyncInv, Advances, Types
<1>2. ASSUME NEW c \in Callers PROVE SoundLocal(local[c])' /\ SoundCall(local[c], calls[c])'
  BY LocalStays, CallStays DEF SyncInv, Types, VaultInv, VaultTypeOK
<1> QED
  BY <1>1, <1>2 DEF SyncInv

LEMMA ResultExpiresInv ==
  ASSUME SyncInv, VaultInv', NEW job \in kept, ResultExpires(job)
  PROVE  SyncInv'
<1>1. Types'
  BY DEF ResultExpires, SyncInv, Types
<1> QED
  BY <1>1, QuietAdvances, SlotsStay DEF ResultExpires

LEMMA EditInv ==
  ASSUME SyncInv, VaultInv', NEW r \in Resources, Edit(r)
  PROVE  SyncInv'
<1>1. \A q \in Resources : source[q] \in Nat /\ source'[q] \in Nat /\ source[q] <= source'[q]
  BY DEF Edit, SyncInv, Types
<1>2. Types'
  BY <1>1, SyncAssumption DEF Edit, Event, SyncInv, Types
<1>3. Advances
  BY <1>1 DEF Edit, Advances, Entitled
<1>4. SoundKey'
  <2>1. key # Absent => key \in Record /\ key.gen <= minted /\ SoundRecord(key)
    BY DEF SyncInv, SoundKey, VaultInv, VaultTypeOK, Stored
  <2> PICK record : record = key
    OBVIOUS
  <2>2. record # Absent => SoundRecord(record)'
    BY <1>2, <1>3, <2>1, RecordStays DEF SyncInv
  <2>3. key' = record /\ minted' = minted
    BY DEF Edit
  <2> QED
    BY <2>1, <2>2, <2>3 DEF SoundKey
<1> QED
  BY <1>2, <1>3, <1>4, SlotsStay DEF Edit

LEMMA SyncNext == SyncInv /\ [Next]_vars => SyncInv'
<1> SUFFICES ASSUME SyncInv, [Next]_vars PROVE SyncInv'
  OBVIOUS
<1>0. VaultInv'
  BY VaultInvStays
<1>1. CASE UNCHANGED vars
  <2>1. Types' /\ UNCHANGED <<key, minted, calls, source, queue, local, ingested>>
    BY <1>1 DEF vars, syncVars, SyncInv, Types
  <2> QED
    BY <1>0, <2>1, QuietAdvances, SlotsStay
<1>2. ASSUME NEW c \in Routes,
             \/ RouteStep(c) \/ RemoveRoute(c) \/ SyncRequested(c)
             \/ \E owner \in Owners, config \in Configs, mayTake \in BOOLEAN :
                  RegisterRoute(c, owner, config, mayTake)
      PROVE  SyncInv'
  BY <1>0, <1>2, CallStepInv, EnqueueInv, RemoveRouteInv, SyncRequestedInv, RegisterRouteInv
     DEF RouteStep
<1>3. ASSUME NEW w \in Workers, WorkerStep(w) PROVE SyncInv'
  BY <1>0, <1>3, SkipInv, StartInv, ListInv, SaveInv, SaveStepInv, FetchInv DEF WorkerStep
<1>4. ASSUME NEW w \in Workers,
             (\E r \in Resources : FetchFails(w, r)) \/ JobFails(w) \/ WorkerKilled(w)
      PROVE  SyncInv'
  BY <1>0, <1>4, FetchFailsInv, JobFailsInv, WorkerKilledInv
<1>5. ASSUME (\E job \in kept : ResultExpires(job)) \/ (\E r \in Resources : Edit(r))
      PROVE  SyncInv'
  BY <1>0, <1>5, ResultExpiresInv, EditInv
<1> QED
  BY <1>1, <1>2, <1>3, <1>4, <1>5 DEF Next

-----------------------------------------------------------------------------
(* The theorems *)

\* Every value of the model is one of the code's, and the cursor is a page of the source.
THEOREM SyncTypeCorrect == Spec => []TypeOK
BY SyncInit, SyncNext, SyncInvType, PTL DEF Spec

\* Revisions on record were ingested for the owner on record, however registrations,
\* removals, overlapping syncs and dying workers interleave.
THEOREM SavedWasIngested == Spec => []SavedIsIngested
<1>1. SyncInv => SavedIsIngested
  BY DEF SyncInv, SoundKey, SoundRecord, Backed, SavedIsIngested
<1> QED
  BY <1>1, SyncInit, SyncNext, PTL DEF Spec

\* The steps of requests and syncs are steps of the vault: what is proved of any callers
\* of the vault holds of these.
THEOREM SyncsUseVault == Spec => VaultSpec
<1>1. Init => VaultInit
  BY DEF Init
<1> QED
  BY <1>1, StepOfVault, SyncInit, SyncNext, PTL DEF Spec, VaultSpec

\* The connector is an atomic register to all of them.
THEOREM SyncsSeeRegister == Spec => RegisterSpec
BY SyncsUseVault, VaultIsRegister DEF RegisterSpec

\* A step that leaves the instance in place leaves its progress, or takes it further.
LEMMA ProgressStep ==
  ASSUME SyncInv, [VaultNext]_vaultVars, key # Absent, key' # Absent, key'.gen = key.gen
  PROVE  Ahead(key.progress, key'.progress)
<1>1. key \in Record /\ key.gen \in Nat /\ minted \in Nat /\ key.gen <= minted
  BY DEF SyncInv, SoundKey, VaultInv, VaultTypeOK, Stored, Record
<1>2. key.progress \in Progress
  BY <1>1 DEF Record
<1>3. Ahead(key.progress, key.progress)
  BY <1>2 DEF Ahead, Progress
<1>4. ASSUME NEW c \in Callers, Write(c) PROVE Ahead(key.progress, key'.progress)
  <2>1. \/ Removed
        \/ Minted
        \/ SameInstance /\ (key'.progress = key.progress \/ Updated(calls[c].args))
    BY <1>4, WriteEffect DEF SyncInv
  <2>2. ~Removed /\ ~Minted
    BY <1>1 DEF Removed, Minted
  <2>3. CASE Updated(calls[c].args)
    BY <1>4, <2>3 DEF Updated, SyncInv, SoundCall, Write, Busy
  <2> QED
    BY <1>3, <2>1, <2>2, <2>3
<1>5. CASE key' = key
  BY <1>3, <1>5
<1> QED
  BY <1>4, <1>5 DEF VaultNext, VaultStep, Read, WriteLost, Drop, Begin, vaultVars

\* Overlapping syncs never roll an instance's progress back.
THEOREM ProgressNeverBack == Spec => ProgressForward
<1>1. SyncInv /\ [Next]_vars =>
        [(key # Absent /\ key' # Absent /\ key'.gen = key.gen)
           => Ahead(key.progress, key'.progress)]_vars
  BY StepOfVault, ProgressStep
<1> QED
  BY <1>1, SyncInit, SyncNext, PTL DEF Spec, ProgressForward

=============================================================================

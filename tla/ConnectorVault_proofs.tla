------------------------ MODULE ConnectorVault_proofs ------------------------
(***************************************************************************)
(* Proofs about ConnectorVault, for any number of concurrent calls and any  *)
(* owners, settings and resources: the types, and that the compare-and-set  *)
(* loops implement the atomic register of ConnectorRegister.                *)
(***************************************************************************)
EXTENDS ConnectorVault, TLAPS

-----------------------------------------------------------------------------
(* What a call decides *)

LEMMA FreshIsProgress == Fresh \in Progress
BY DEF Fresh, Progress

LEMMA AbsentIsNoRecord == \A r \in Record : r # Absent
BY DEF Record, Absent

\* What a call stores is a record, or nothing.
LEMMA ResultStored ==
  ASSUME NEW args \in Args, NEW seen \in Stored, minted \in Nat, ~Refused(args, seen)
  PROVE  Result(args, seen) \in Stored
<1>1. CASE args \in PutArgs
  <2>1. args.op = "put" /\ args.owner \in Owners /\ args.config \in Configs
    BY <1>1 DEF PutArgs
  <2>2. SameOwner(args, seen) => seen \in Record
    BY DEF SameOwner, Stored
  <2>3. PutResult(args, seen) \in Record
    BY <2>1, <2>2, FreshIsProgress DEF PutResult, Record, KeepsInstance
  <2> QED
    BY <2>1, <2>3 DEF Result, Stored
<1>2. CASE args \in DeleteArgs
  BY <1>2 DEF DeleteArgs, Result, Stored
<1>3. CASE args \in UpdateArgs
  <2>1. args.op = "update" /\ args.to \in Progress
    BY <1>3 DEF UpdateArgs
  <2>2. seen \in Record
    BY <2>1 DEF Refused, UpdateRefused, Stored
  <2>3. [seen EXCEPT !.progress = args.to] \in Record
    BY <2>1, <2>2 DEF Record
  <2> QED
    BY <2>1, <2>3 DEF Result, Stored
<1> QED
  BY <1>1, <1>2, <1>3 DEF Args

-----------------------------------------------------------------------------
(* The invariant of the loop *)

\* A call that is about to write was not refused by the record it read.
Decided ==
  \A c \in Callers :
    Busy(c) /\ calls[c].stage = "write" => ~Refused(calls[c].args, calls[c].seen)

VaultInv == VaultTypeOK /\ Decided

LEMMA VaultInitInv == VaultInit => VaultInv
<1> SUFFICES ASSUME VaultInit PROVE VaultInv
  OBVIOUS
<1>1. key \in Stored
  BY VaultAssumption, FreshIsProgress DEF VaultInit, Stored, Record
<1> QED
  BY <1>1 DEF VaultInit, VaultInv, VaultTypeOK, Decided, Busy

\* A slot's call is replaced by a sound one, the others are as they were.
LEMMA OneCallChanges ==
  ASSUME VaultInv, NEW c \in Callers, NEW call, SetCall(c, call),
         key' \in Stored, minted' \in Nat,
         call = Idle \/ (call \in Call /\ (call.stage = "write" => ~Refused(call.args, call.seen)))
  PROVE  VaultInv'
<1>1. calls' \in [Callers -> {Idle} \cup Call]
  BY DEF VaultInv, VaultTypeOK, SetCall
<1>2. ASSUME NEW d \in Callers, calls'[d] # Idle, calls'[d].stage = "write"
      PROVE  ~Refused(calls'[d].args, calls'[d].seen)
  <2>1. CASE d = c
    BY <1>2, <2>1 DEF VaultInv, VaultTypeOK, SetCall
  <2>2. CASE d # c
    BY <1>2, <2>2 DEF VaultInv, VaultTypeOK, SetCall, Decided, Busy
  <2> QED
    BY <2>1, <2>2
<1> QED
  BY <1>1, <1>2 DEF VaultInv, VaultTypeOK, Decided, Busy

LEMMA BeginInv == ASSUME VaultInv, NEW c \in Callers, NEW args \in Args, Begin(c, args) PROVE VaultInv'
<1> DEFINE call == [op |-> "call", args |-> args, stage |-> "read", seen |-> Absent, round |-> 1]
<1>1. call \in Call /\ call.stage # "write"
  BY DEF Call, Stored
<1>2. SetCall(c, call) /\ key' \in Stored /\ minted' \in Nat
  BY DEF Begin, VaultInv, VaultTypeOK
<1> HIDE DEF call
<1> QED
  BY <1>1, <1>2, OneCallChanges

LEMMA DropInv == ASSUME VaultInv, NEW c \in Callers, Drop(c) PROVE VaultInv'
BY OneCallChanges DEF Drop, VaultInv, VaultTypeOK

LEMMA ReadInv == ASSUME VaultInv, NEW c \in Callers, Read(c) PROVE VaultInv'
<1> DEFINE next == [calls[c] EXCEPT !.stage = "write", !.seen = key]
<1>1. key \in Stored /\ minted \in Nat /\ calls[c] \in Call
  BY DEF Read, Busy, VaultInv, VaultTypeOK
<1>2. next \in Call /\ next.args = calls[c].args /\ next.seen = key
  BY <1>1 DEF Call
<1>3. UNCHANGED <<key, minted>>
  BY DEF Read
<1>4. SetCall(c, IF Refused(calls[c].args, key) THEN Idle ELSE next)
  BY DEF Read
<1> HIDE DEF next
<1>5. CASE Refused(calls[c].args, key)
  BY <1>1, <1>3, <1>4, <1>5, OneCallChanges
<1>6. CASE ~Refused(calls[c].args, key)
  BY <1>1, <1>2, <1>3, <1>4, <1>6, OneCallChanges
<1> QED
  BY <1>5, <1>6

LEMMA WriteInv == ASSUME VaultInv, NEW c \in Callers, Write(c) PROVE VaultInv'
<1>1. calls[c] \in Call /\ calls[c].stage = "write" /\ Busy(c)
  BY DEF Write, Busy, VaultInv, VaultTypeOK
<1>2. ~Refused(calls[c].args, calls[c].seen)
  BY <1>1 DEF VaultInv, Decided
<1>3. calls[c].args \in Args /\ calls[c].seen \in Stored
  BY <1>1 DEF Call
<1>4. minted \in Nat /\ minted' \in Nat
  BY DEF Write, VaultInv, VaultTypeOK
<1>5. key' \in Stored
  BY <1>2, <1>3, <1>4, ResultStored DEF Write
<1> QED
  BY <1>4, <1>5, OneCallChanges DEF Write

LEMMA WriteLostInv == ASSUME VaultInv, NEW c \in Callers, WriteLost(c) PROVE VaultInv'
<1> DEFINE next == [calls[c] EXCEPT !.stage = "read", !.round = @ + 1]
<1>1. key \in Stored /\ minted \in Nat /\ calls[c] \in Call
  BY DEF WriteLost, Busy, VaultInv, VaultTypeOK
<1>2. next \in Call /\ next.stage # "write"
  <2>1. calls[c].round + 1 \in Nat
    BY <1>1 DEF Call
  <2> QED
    BY <1>1, <2>1 DEF Call
<1>3. SetCall(c, IF calls[c].round < Attempts THEN next ELSE Idle) /\ UNCHANGED <<key, minted>>
  BY DEF WriteLost
<1> HIDE DEF next
<1> QED
  BY <1>1, <1>2, <1>3, OneCallChanges

LEMMA VaultStepInv ==
  ASSUME VaultInv, NEW c \in Callers, VaultStep(c)
  PROVE  VaultInv'
BY ReadInv, WriteInv, WriteLostInv DEF VaultStep

LEMMA VaultNextInv == VaultInv /\ [VaultNext]_vaultVars => VaultInv'
<1> SUFFICES ASSUME VaultInv, [VaultNext]_vaultVars PROVE VaultInv'
  OBVIOUS
<1>1. CASE UNCHANGED vaultVars
  BY <1>1 DEF vaultVars, VaultInv, VaultTypeOK, Decided, Busy
<1>2. CASE VaultNext
  BY <1>2, VaultStepInv, DropInv, BeginInv DEF VaultNext
<1> QED
  BY <1>1, <1>2

\* The vault's records and calls are well formed, whatever the calls do.
THEOREM VaultTypeCorrect == VaultSpec => []VaultTypeOK
<1>1. VaultInv => VaultTypeOK
  BY DEF VaultInv
<1> QED
  BY <1>1, VaultInitInv, VaultNextInv, PTL DEF VaultSpec

-----------------------------------------------------------------------------
(* The register *)

LEMMA WriteIsRegisterStep ==
  ASSUME VaultInv, NEW c \in Callers, Write(c)
  PROVE  Register!Next
<1> DEFINE args == calls[c].args
           seen == calls[c].seen
<1>1. calls[c] \in Call /\ calls[c].stage = "write" /\ Busy(c)
  BY DEF Write, Busy, VaultInv, VaultTypeOK
<1>2. args \in Args /\ seen \in Stored /\ ~Refused(args, seen)
  BY <1>1 DEF Call, VaultInv, Decided
<1>3. key = seen /\ key' = Result(args, seen)
      /\ minted' = IF Mints(args, seen) THEN minted + 1 ELSE minted
  BY DEF Write
<1> HIDE DEF args, seen
<1>4. CASE args \in PutArgs
  <2>1. args.op = "put" /\ args.owner \in Owners /\ args.config \in Configs
    BY <1>4 DEF PutArgs
  <2>2. key' = PutResult(args, seen)
    BY <1>3, <2>1 DEF Result
  <2>3. CASE KeepsInstance(args, seen)
    <3>1. seen \in Record /\ seen.gen # 0 /\ seen.owner = args.owner
      BY <1>2, <2>3 DEF KeepsInstance, SameOwner, Stored
    <3>2. key' = [seen EXCEPT !.config = args.config]
      BY <2>2, <2>3, <3>1 DEF PutResult, SameOwner, KeepsInstance, Record
    <3> QED
      BY <1>3, <2>1, <2>3, <3>1, <3>2, AbsentIsNoRecord
         DEF Mints, Register!Next, Register!Register, Register!Renew, Register!Absent, Absent
  <2>4. CASE SameOwner(args, seen) /\ ~KeepsInstance(args, seen)
    <3>1. seen \in Record /\ seen.gen = 0 /\ seen.owner = args.owner
      BY <1>2, <2>4 DEF KeepsInstance, SameOwner, Stored
    <3>2. key' = [state |-> "stored", gen |-> minted + 1, owner |-> seen.owner,
                  config |-> args.config, progress |-> seen.progress]
      BY <2>2, <2>4, <3>1 DEF PutResult
    <3> QED
      BY <1>3, <2>1, <2>4, <3>1, <3>2, AbsentIsNoRecord
         DEF Mints, Register!Next, Register!Register, Register!Adopt, Register!Absent, Absent
  <2>5. CASE ~SameOwner(args, seen)
    <3>1. key # Absent => key.owner # args.owner
      BY <1>3, <2>5 DEF SameOwner
    <3>2. key' = [state |-> "stored", gen |-> minted + 1, owner |-> args.owner,
                  config |-> args.config, progress |-> Fresh]
      BY <2>2, <2>5 DEF PutResult, KeepsInstance
    <3>3. minted' = minted + 1
      BY <1>3, <2>1, <2>5 DEF Mints, KeepsInstance
    <3> QED
      BY <2>1, <3>1, <3>2, <3>3
         DEF Register!Next, Register!Register, Register!Create, Register!Absent, Absent
  <2> QED
    BY <2>3, <2>4, <2>5
<1>5. CASE args \in DeleteArgs
  <2>1. args.op = "delete"
    BY <1>5 DEF DeleteArgs
  <2>2. key # Absent /\ key' = Absent /\ minted' = minted
    BY <1>2, <1>3, <2>1 DEF Refused, DeleteRefused, Result, Mints
  <2> QED
    BY <2>2 DEF Register!Next, Register!Remove, Register!Absent, Absent
<1>6. CASE args \in UpdateArgs
  <2>1. args.op = "update" /\ args.to \in Progress
    BY <1>6 DEF UpdateArgs
  <2>2. seen \in Record
    BY <1>2, <2>1 DEF Refused, UpdateRefused, Stored
  <2>3. key' = [key EXCEPT !.progress = args.to] /\ minted' = minted
    BY <1>3, <2>1 DEF Result, Mints
  <2>4. key' \in Record /\ key'.progress = args.to
    BY <1>3, <2>1, <2>2, <2>3 DEF Record
  <2> QED
    BY <1>3, <2>1, <2>2, <2>3, <2>4, AbsentIsNoRecord
       DEF Register!Next, Register!Save, Register!Absent, Absent
<1> QED
  BY <1>2, <1>4, <1>5, <1>6 DEF Args

LEMMA VaultStepOfRegister ==
  VaultInv /\ [VaultNext]_vaultVars => [Register!Next]_(Register!vars)
<1> SUFFICES ASSUME VaultInv, VaultNext PROVE Register!Next \/ UNCHANGED <<key, minted>>
  BY DEF vaultVars, Register!vars
<1>1. ASSUME NEW c \in Callers, VaultStep(c)
      PROVE  Register!Next \/ UNCHANGED <<key, minted>>
  BY <1>1, WriteIsRegisterStep DEF VaultStep, Read, WriteLost
<1>2. ASSUME NEW c \in Callers, Drop(c) \/ \E args \in Args : Begin(c, args)
      PROVE  UNCHANGED <<key, minted>>
  BY <1>2 DEF Drop, Begin
<1> QED
  BY <1>1, <1>2 DEF VaultNext

\* However many calls read and write in separate steps, the record of a connector changes
\* as an atomic register does: no registration, removal or saved progress is lost to
\* another that was computed from an older record, and no instance is mixed with another.
THEOREM VaultIsRegister == VaultSpec => Register!Spec
<1>1. VaultInit => Register!Init
  <2> SUFFICES ASSUME VaultInit PROVE Register!Init
    OBVIOUS
  <2>1. key = Absent \/ (key \in Record /\ key.gen = 0)
    BY VaultAssumption, FreshIsProgress DEF VaultInit, Record
  <2> QED
    BY <2>1 DEF VaultInit, Register!Init, Register!Record, Record, Register!Absent, Absent
<1> QED
  BY <1>1, VaultInitInv, VaultNextInv, VaultStepOfRegister, PTL DEF VaultSpec, Register!Spec

=============================================================================

--------------------------- MODULE ConnectorVault ---------------------------
(***************************************************************************)
(* The vault of connectors (connectors/vault.py), for one connector id.     *)
(*                                                                         *)
(* put, delete and update_sync_state are loops around a compare-and-set:    *)
(* read the record, decide from what was read, store the outcome only if    *)
(* the key still holds exactly that, else begin again.  Reading and storing *)
(* are two round trips to Redis, and any number of calls run at once: from  *)
(* the HTTP routes and from sync jobs in other processes.                   *)
(*                                                                         *)
(* Credentials and settings are one value, so encryption, which gives the   *)
(* same credentials a new text each time, is left out, and so is            *)
(* last_synced_at.  Two records the model takes for equal may then differ   *)
(* in the code, which would go round the loop once more and end up the same.*)
(***************************************************************************)
EXTENDS Naturals

CONSTANTS
  Callers,   \* slots of concurrent vault calls: requests and sync jobs
  Owners, Configs,
  Legacy,    \* <<owner, config>> of a record from before generations that may be there
  Resources, \* items of the source
  Attempts   \* _CAS_ATTEMPTS

ASSUME VaultAssumption ==
  /\ Legacy \subseteq Owners \X Configs
  /\ Attempts \in Nat \ {0}

\* cursor 0 is None; the revision of a resource never seen is 0
Progress == [cursor: Nat, revs: [Resources -> Nat]]
Fresh == [cursor |-> 0, revs |-> [r \in Resources |-> 0]]

Absent == [state |-> "absent"]
Record == [state: {"stored"}, gen: Nat, owner: Owners, config: Configs,
           progress: Progress]
Stored == {Absent} \cup Record

VARIABLES
  key,    \* what Redis holds under ns:connector:<id>
  minted, \* generations given out so far
  calls   \* the vault call of each slot

vaultVars == <<key, minted, calls>>

Idle == [op |-> "none"]
\* A call: its arguments, the record it read, the round of its loop
PutArgs == [op: {"put"}, owner: Owners, config: Configs, mayTake: BOOLEAN]
DeleteArgs == [op: {"delete"}, gen: Nat]
UpdateArgs == [op: {"update"}, gen: Nat, from: Progress, to: Progress]
Args == PutArgs \cup DeleteArgs \cup UpdateArgs
Call == [op: {"call"}, args: Args, stage: {"read", "write"}, seen: Stored, round: Nat]

VaultTypeOK ==
  /\ key \in Stored
  /\ minted \in Nat
  /\ calls \in [Callers -> {Idle} \cup Call]

VaultInit ==
  /\ key \in {Absent} \cup {[state |-> "stored", gen |-> 0, owner |-> l[1], config |-> l[2],
                             progress |-> Fresh] : l \in Legacy}
  /\ minted = 0
  /\ calls = [c \in Callers |-> Idle]

SetCall(c, call) == calls' = [calls EXCEPT ![c] = call]
Busy(c) == calls[c] # Idle

-----------------------------------------------------------------------------
(* What each call decides from the record it read *)

SameOwner(args, seen) == seen # Absent /\ seen.owner = args.owner

\* ConnectorOwnedElsewhere
PutRefused(args, seen) ==
  seen # Absent /\ ~SameOwner(args, seen) /\ ~args.mayTake

\* Another instance, or another sync of this one got further meanwhile
DeleteRefused(args, seen) == seen = Absent \/ seen.gen # args.gen
UpdateRefusedWhenBehind(args, seen) == seen = Absent \/ seen.progress # args.from
UpdateRefusedWhenReplaced(args, seen) == seen = Absent \/ seen.gen # args.gen
UpdateRefused(args, seen) ==
  seen = Absent \/ seen.gen # args.gen \/ seen.progress # args.from

Refused(args, seen) ==
  \/ args.op = "put" /\ PutRefused(args, seen)
  \/ args.op = "delete" /\ DeleteRefused(args, seen)
  \/ args.op = "update" /\ UpdateRefused(args, seen)

\* Does put keep the instance that is there?
KeepsInstance(args, seen) == SameOwner(args, seen) /\ seen.gen # 0

\* uuid4: some generation never given out before, here the next one
PutResult(args, seen) ==
  [state |-> "stored",
   gen |-> IF KeepsInstance(args, seen) THEN seen.gen ELSE minted + 1,
   owner |-> args.owner,
   config |-> args.config,
   progress |-> IF SameOwner(args, seen) THEN seen.progress ELSE Fresh]

Result(args, seen) ==
  CASE args.op = "put" -> PutResult(args, seen)
    [] args.op = "delete" -> Absent
    [] args.op = "update" -> [seen EXCEPT !.progress = args.to]

Mints(args, seen) == args.op = "put" /\ ~KeepsInstance(args, seen)

-----------------------------------------------------------------------------
(* The loop *)

Begin(c, args) ==
  /\ ~Busy(c)
  /\ SetCall(c, [op |-> "call", args |-> args, stage |-> "read", seen |-> Absent,
                 round |-> 1])
  /\ UNCHANGED <<key, minted>>

\* store.get: the call gives up, or goes on with what it read
Read(c) ==
  /\ Busy(c) /\ calls[c].stage = "read"
  /\ SetCall(c, IF Refused(calls[c].args, key) THEN Idle
                ELSE [calls[c] EXCEPT !.stage = "write", !.seen = key])
  /\ UNCHANGED <<key, minted>>

WriteBlindly(c) ==
  /\ Busy(c) /\ calls[c].stage = "write"
  /\ key' = Result(calls[c].args, calls[c].seen)
  /\ minted' = IF Mints(calls[c].args, calls[c].seen) THEN minted + 1 ELSE minted
  /\ SetCall(c, Idle)
\* _compare_and_set, or the compare-and-delete, finds what the call read
Write(c) ==
  /\ Busy(c) /\ calls[c].stage = "write"
  /\ key = calls[c].seen
  /\ key' = Result(calls[c].args, calls[c].seen)
  /\ minted' = IF Mints(calls[c].args, calls[c].seen) THEN minted + 1 ELSE minted
  /\ SetCall(c, Idle)

\* It finds something else: once more, or VaultConflict
WriteLost(c) ==
  /\ Busy(c) /\ calls[c].stage = "write"
  /\ key # calls[c].seen
  /\ SetCall(c, IF calls[c].round < Attempts
                THEN [calls[c] EXCEPT !.stage = "read", !.round = @ + 1]
                ELSE Idle)
  /\ UNCHANGED <<key, minted>>

\* The process of the call is gone
Drop(c) ==
  /\ SetCall(c, Idle)
  /\ UNCHANGED <<key, minted>>

VaultStep(c) == Read(c) \/ Write(c) \/ WriteLost(c)
VaultNext ==
  \E c \in Callers : VaultStep(c) \/ Drop(c) \/ \E args \in Args : Begin(c, args)

VaultSpec == VaultInit /\ [][VaultNext]_vaultVars

\* The vault implements the register: a connector is what its key holds
Register == INSTANCE ConnectorRegister WITH record <- key

=============================================================================

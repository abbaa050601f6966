-------------------------- MODULE ConnectorRegister --------------------------
(***************************************************************************)
(* What the connector vault promises: the record of one connector id is an  *)
(* atomic register.  Every change of it is one of three, each in one step   *)
(* and computed from the record it replaces:                                *)
(*                                                                         *)
(*   Register  the connector is stored; only a registration by the owner    *)
(*             it has keeps the instance and its sync progress;             *)
(*   Remove    the connector is gone;                                       *)
(*   Save      a sync has got further, and changes nothing but the progress *)
(*             of the instance.                                             *)
(***************************************************************************)
EXTENDS Naturals

CONSTANTS
  Owners,   \* users a connector can belong to
  Configs,  \* credentials and settings, as one value
  Progress, \* what a sync can have saved
  Fresh     \* the progress of an instance that has never been synced

Absent == [state |-> "absent"]
\* gen is the record's "generation": 0 on a record from before there were any
Record == [state: {"stored"}, gen: Nat, owner: Owners, config: Configs,
           progress: Progress]

VARIABLES
  record, \* the connector
  minted  \* generations given out so far: 1 .. minted

vars == <<record, minted>>

Init ==
  /\ record \in {Absent} \cup {r \in Record : r.gen = 0}
  /\ minted = 0

\* The same instance goes on under new credentials
Renew ==
  /\ record # Absent /\ record.gen # 0
  /\ \E config \in Configs : record' = [record EXCEPT !.config = config]
  /\ UNCHANGED minted

\* A record from before generations gets one, and keeps its progress
Adopt ==
  /\ record # Absent /\ record.gen = 0
  /\ \E config \in Configs :
       record' = [state |-> "stored", gen |-> minted + 1, owner |-> record.owner,
                  config |-> config, progress |-> record.progress]
  /\ minted' = minted + 1

\* A new instance, which shares nothing with any other
Create ==
  /\ \E owner \in Owners, config \in Configs :
       /\ record # Absent => record.owner # owner
       /\ record' = [state |-> "stored", gen |-> minted + 1, owner |-> owner,
                     config |-> config, progress |-> Fresh]
  /\ minted' = minted + 1

Register == Renew \/ Adopt \/ Create

Remove ==
  /\ record # Absent
  /\ record' = Absent
  /\ UNCHANGED minted

Save ==
  /\ record # Absent /\ record' # Absent
  /\ record'.progress \in Progress
  /\ record' = [record EXCEPT !.progress = record'.progress]
  /\ UNCHANGED minted

Next == Register \/ Remove \/ Save
Spec == Init /\ [][Next]_vars

=============================================================================

--------------------------- MODULE FederatedStore ---------------------------
(***************************************************************************)
(* The evidence store of a federated node group as runtime/federation/     *)
(* store.py sees it: three directories under data_root, holding one file   *)
(* per unit each.  A directory is a function from unit to what its file    *)
(* holds.  The operators are the writes of class Store; the processes that *)
(* call them are in Federation.                                            *)
(*                                                                         *)
(* A unit_id is a uuid4 in hexadecimal.  Workers meet the units in the     *)
(* sorted order of those names, so units are numbers, and the order of the *)
(* numbers is the order of the names.                                      *)
(***************************************************************************)
EXTENDS Naturals

CONSTANTS
    Units,      \* unit ids
    Workers,    \* worker ids
    Snapshots,  \* snapshot identities
    None        \* no file at that name

\* What record_outcome writes: state "executed" comes with a result, "failed"
\* with a detail.
OutcomeRecord == [worker : Workers, snapshot : Snapshots, state : {"executed", "failed"}]

ASSUME StoreAssumption ==
    /\ Units \subseteq Nat
    /\ None \notin Workers
    /\ None \notin Snapshots
    /\ None \notin Units

ASSUME RecordAssumption == None \notin OutcomeRecord

VARIABLES
    queue,     \* queue/<unit>.unit.json: absent, created but not yet (or never) written, whole
    sealed,    \* the snapshot_id the unit record carries
    claims,    \* claims/<unit>.claim.json: the worker whose exclusive create won
    outcomes   \* outcomes/<unit>.outcome.json

storeVars == <<queue, sealed, claims, outcomes>>

StoreTypeOK ==
    /\ queue \in [Units -> {"absent", "torn", "whole"}]
    /\ sealed \in [Units -> Snapshots \cup {None}]
    /\ claims \in [Units -> Workers \cup {None}]
    /\ outcomes \in [Units -> OutcomeRecord \cup {None}]

StoreInit ==
    /\ queue = [u \in Units |-> "absent"]
    /\ sealed = [u \in Units |-> None]
    /\ claims = [u \in Units |-> None]
    /\ outcomes = [u \in Units |-> None]

-----------------------------------------------------------------------------
(***************************************************************************)
(* Store.enqueue is an exclusive create followed by a write of the record: *)
(* two steps, and a reader may come between them.                          *)
(***************************************************************************)
CreateUnit(u, s) ==
    /\ queue[u] = "absent"
    /\ queue' = [queue EXCEPT ![u] = "torn"]
    /\ sealed' = [sealed EXCEPT ![u] = s]
    /\ UNCHANGED <<claims, outcomes>>

FillUnit(u) ==
    /\ queue[u] = "torn"
    /\ queue' = [queue EXCEPT ![u] = "whole"]
    /\ UNCHANGED <<sealed, claims, outcomes>>

\* Store.queued: every unit that has a file, whatever the file holds.
Queued == {u \in Units : queue[u] # "absent"}

\* Store.is_claimed
IsClaimed(u) == claims[u] # None

\* Variant: the claim file is opened without O_EXCL.
WinClaimOver(u, w) ==
    /\ claims' = [claims EXCEPT ![u] = w]
    /\ UNCHANGED <<queue, sealed, outcomes>>

(***************************************************************************)
(* Store.claim.  The exclusive create decides; what is written into the    *)
(* file afterwards is never read back, so the claim is a single step.      *)
(***************************************************************************)
WinClaim(u, w) ==
    /\ ~IsClaimed(u)
    /\ claims' = [claims EXCEPT ![u] = w]
    /\ UNCHANGED <<queue, sealed, outcomes>>

(***************************************************************************)
(* Store.record_outcome: a temporary file renamed into place, so a reader  *)
(* sees no outcome or a whole one.  The rename replaces without asking.    *)
(***************************************************************************)
RecordOutcome(u, record) ==
    /\ outcomes' = [outcomes EXCEPT ![u] = record]
    /\ UNCHANGED <<queue, sealed, claims>>
=============================================================================

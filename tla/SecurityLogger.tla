--------------------------- MODULE SecurityLogger ---------------------------
(***************************************************************************)
(* The chaincode chaincode/security_logger.go on a Hyperledger Fabric      *)
(* channel.  A write runs in two steps: a peer ENDORSES a proposal, which  *)
(* runs LogSecurityEvent against the peer's current world state and        *)
(* records the version of the key it read, and later the ordered           *)
(* transaction is COMMITTED, which applies the write only if that version  *)
(* is still the key's version (Fabric's read-set validation).  Any number  *)
(* of proposals may be endorsed before one of them commits.                *)
(***************************************************************************)
EXTENDS Naturals

CONSTANTS
    EventIds,          \* keys of the world state
    Assets,            \* cloud_asset_id values
    Severities,        \* severity values
    Times,             \* timestamps, ordered by <=
    NoTime,            \* the empty timestamp argument ""
    Payloads,          \* the other fields: payload_hash, ipfs_cid, ... signature
    Msps,              \* organisations whose clients may call
    AuthorizedMsp,     \* "Org1MSP" in the source
    TxIds,             \* transaction ids; each is proposed once
    NoRecord           \* GetState's nil

\* The contract's SecurityEvent.
Records == [event_id : EventIds, cloud_asset_id : Assets, severity : Severities,
            timestamp : Times \cup {NoTime}, payload : Payloads]

ASSUME NoRecordIsNoRecord == NoRecord \notin Records

ASSUME TimesAreOrdered == Times \subseteq Nat /\ NoTime \notin Times

ASSUME AuthorizedIsAnMsp == AuthorizedMsp \in Msps

VARIABLES
    world,     \* the record under each key
    version,   \* the version of each key, 0 while it was never written
    txs        \* what became of each transaction

vars == <<world, version, txs>>

Statuses == {"none", "endorsed", "valid", "invalid"}

\* What may be stored: the ledger supplies a timestamp when the caller does not.
StoredRecords == {r \in Records : r.timestamp # NoTime}

Tx == [status : Statuses, msp : Msps, rec : StoredRecords \cup {NoRecord}, read : Nat]

NoTx == [status |-> "none", msp |-> AuthorizedMsp, rec |-> NoRecord, read |-> 0]

\* Type correctness: in particular no record without a timestamp reaches a
\* transaction or the world state, so every record can be found by time window.
TypeOK ==
    /\ world \in [EventIds -> StoredRecords \cup {NoRecord}]
    /\ version \in [EventIds -> Nat]
    /\ txs \in [TxIds -> Tx]

Init ==
    /\ world = [e \in EventIds |-> NoRecord]
    /\ version = [e \in EventIds |-> 0]
    /\ txs = [t \in TxIds |-> NoTx]

-----------------------------------------------------------------------------
(* The contract's functions.  Operation_Variant is the operation with a    *)
(* plausible mistake, to show that a property at the end can fail; no      *)
(* specification uses it.                                                  *)

EventExists(e) == world[e] # NoRecord

VerifyEvent(e) == world[e]

Timestamped_Verbatim(r, now) == r

\* Ledger time stands in for an empty timestamp argument.
Timestamped(r, now) ==
    IF r.timestamp = NoTime THEN [r EXCEPT !.timestamp = now] ELSE r

InWindow(r, from, to) ==
    /\ from # NoTime => from <= r.timestamp
    /\ to # NoTime => r.timestamp <= to

Stored == {world[e] : e \in EventIds} \ {NoRecord}

\* Both rich queries sort by timestamp; the order is left out here, the
\* properties below are about which records an auditor is shown.
QueryEventHistory(asset, from, to) ==
    {r \in Stored : r.cloud_asset_id = asset /\ InWindow(r, from, to)}

QueryEventsBySeverity(severity) == {r \in Stored : r.severity = severity}

LogSecurityEvent_NoMspCheck(t, msp, r, now) ==
    /\ txs[t].status = "none"
    /\ ~EventExists(r.event_id)
    /\ txs' = [txs EXCEPT ![t] = [status |-> "endorsed", msp |-> msp,
                                  rec |-> Timestamped(r, now),
                                  read |-> version[r.event_id]]]
    /\ UNCHANGED <<world, version>>

LogSecurityEvent_NoExistsCheck(t, msp, r, now) ==
    /\ txs[t].status = "none"
    /\ msp = AuthorizedMsp
    /\ txs' = [txs EXCEPT ![t] = [status |-> "endorsed", msp |-> msp,
                                  rec |-> Timestamped(r, now),
                                  read |-> version[r.event_id]]]
    /\ UNCHANGED <<world, version>>

\* A client of organisation msp has the event r endorsed as transaction t.
\* A caller of another organisation and an id that is taken are refused.
LogSecurityEvent(t, msp, r, now) ==
    /\ txs[t].status = "none"
    /\ msp = AuthorizedMsp
    /\ ~EventExists(r.event_id)
    /\ txs' = [txs EXCEPT ![t] = [status |-> "endorsed", msp |-> msp,
                                  rec |-> Timestamped(r, now),
                                  read |-> version[r.event_id]]]
    /\ UNCHANGED <<world, version>>

-----------------------------------------------------------------------------
(* Fabric's ordering and validation of an endorsed transaction.            *)

ReadSetCurrent_AnyWrite(t) == \A e \in EventIds : version[e] = txs[t].read

ReadSetCurrent(t) == version[txs[t].rec.event_id] = txs[t].read

CommitValid(t) ==
    /\ txs[t].status = "endorsed"
    /\ ReadSetCurrent(t)
    /\ LET e == txs[t].rec.event_id IN
         /\ world' = [world EXCEPT ![e] = txs[t].rec]
         /\ version' = [version EXCEPT ![e] = @ + 1]
    /\ txs' = [txs EXCEPT ![t].status = "valid"]

CommitInvalid(t) ==
    /\ txs[t].status = "endorsed"
    /\ ~ReadSetCurrent(t)
    /\ txs' = [txs EXCEPT ![t].status = "invalid"]
    /\ UNCHANGED <<world, version>>

Commit(t) == CommitValid(t) \/ CommitInvalid(t)

Next ==
    \E t \in TxIds :
        \/ \E msp \in Msps, r \in Records, now \in Times : LogSecurityEvent(t, msp, r, now)
        \/ CommitValid(t)
        \/ CommitInvalid(t)

Spec == Init /\ [][Next]_vars
-----------------------------------------------------------------------------
(* What auditors rely on.                                                  *)

Trail == INSTANCE AuditLedger
             WITH Entries <- StoredRecords, NoEntry <- NoRecord, ledger <- world

\* The chaincode on Fabric is an append-only trail with one entry per event id,
\* although several proposals for one id can pass EventExists before the first
\* of them commits (LogSecurityEvent's duplicate check and read-set validation).
ImplementsTrail == Trail!Spec

\* A transaction reported valid to its submitter has its record in the world
\* state for ever after, and both rich queries show it: no later transaction
\* endorsed against an older state replaces it.
ValidTxKept ==
    \A t \in TxIds : txs[t].status = "valid" =>
        LET r == txs[t].rec IN
          /\ VerifyEvent(r.event_id) = r
          /\ r \in QueryEventHistory(r.cloud_asset_id, NoTime, NoTime)
          /\ r \in QueryEventsBySeverity(r.severity)

\* A transaction is invalidated only because another one took its event id, so
\* an event whose submission fails validation is on the ledger all the same.
InvalidOnlyIfTaken ==
    \A t \in TxIds : txs[t].status = "invalid" =>
        \E u \in TxIds : /\ txs[u].status = "valid"
                         /\ txs[u].rec.event_id = txs[t].rec.event_id

\* Every record on the ledger was put there by a valid transaction of a client
\* of the authorised organisation, and by one only.
Provenance ==
    \A e \in EventIds : EventExists(e) =>
        \E t \in TxIds :
            /\ txs[t].status = "valid"
            /\ txs[t].rec = world[e]
            /\ txs[t].msp = AuthorizedMsp
            /\ \A u \in TxIds \ {t} :
                  ~(txs[u].status = "valid" /\ txs[u].rec.event_id = e)

\* An auditor who repeats a query for an asset and a time window sees at least
\* what the first answer held.
HistoryNeverShrinks ==
    [][\A a \in Assets, from, to \in Times \cup {NoTime} :
         QueryEventHistory(a, from, to) \subseteq QueryEventHistory(a, from, to)']_vars
=============================================================================

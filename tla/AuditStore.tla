----------------------------- MODULE AuditStore -----------------------------
(***************************************************************************)
(* What the blockchain-logger promises the audit-api about the stores they *)
(* share: the ledger, the records cached in Redis with their two indexes,  *)
(* and the payloads on the IPFS node.  BlockchainLogger implements it      *)
(* (KeepsStore); AuditApi reads it.                                        *)
(***************************************************************************)
EXTENDS Naturals

CONSTANTS
    EventIds,
    Records,      \* what the ledger may hold: records with the fields event_id,
                  \*   cloud_asset_id, severity, timestamp, payload
    NoRecord,
    Cids,         \* the payloads
    IndexKeys,    \* audit:idx:asset:<id> and audit:idx:severity:<s>
    PinEnabled    \* IPFS_PIN

VARIABLES
    world,        \* the ledger's record of each event id
    redis,        \* the cached one
    index,        \* each index: event id -> score, 0 for none
    ipfs          \* what the node holds of each payload

store_vars == <<world, redis, index, ipfs>>

Keys(r) == {<<"asset", r.cloud_asset_id>>, <<"severity", r.severity>>}

\* A record is not the absence of one; its timestamp is the score of its index entries.
ASSUME RecordsAreRecords ==
    /\ NoRecord \notin Records
    /\ \A r \in Records : /\ r.event_id \in EventIds /\ r.timestamp \in Nat \ {0}
                          /\ r.payload.ipfs_cid \in Cids /\ Keys(r) \subseteq IndexKeys

StoreInit ==
    /\ world = [e \in EventIds |-> NoRecord]
    /\ redis = [e \in EventIds |-> NoRecord]
    /\ index = [k \in IndexKeys |-> [e \in EventIds |-> 0]]
    /\ ipfs = [c \in Cids |-> "absent"]

\* A payload no ledger record names is stored, and may be pinned.
Upload(c) ==
    /\ \A e \in EventIds : world[e] # NoRecord => world[e].payload.ipfs_cid # c
    /\ \E state \in {"stored", "pinned"} : ipfs' = [ipfs EXCEPT ![c] = state]
    /\ UNCHANGED <<world, redis, index>>

\* The node may drop what is not pinned.
Collect(c) ==
    /\ ipfs[c] = "stored"
    /\ ipfs' = [ipfs EXCEPT ![c] = "absent"]
    /\ UNCHANGED <<world, redis, index>>

Log_Unpinned(r) ==
    /\ world[r.event_id] = NoRecord
    /\ ipfs[r.payload.ipfs_cid] # "absent"
    /\ world' = [world EXCEPT ![r.event_id] = r]
    /\ UNCHANGED <<redis, index, ipfs>>

\* An event is logged once, under a payload that will stay if IPFS_PIN is set.
Log(r) ==
    /\ world[r.event_id] = NoRecord
    /\ PinEnabled => ipfs[r.payload.ipfs_cid] = "pinned"
    /\ world' = [world EXCEPT ![r.event_id] = r]
    /\ UNCHANGED <<redis, index, ipfs>>

\* The ledger's record is cached and indexed in one step, at most once.
CacheRecord(e) ==
    /\ world[e] # NoRecord
    /\ redis[e] = NoRecord
    /\ \A k \in IndexKeys : index[k][e] = 0
    /\ redis' = [redis EXCEPT ![e] = world[e]]
    /\ index' = [k \in IndexKeys |->
                   IF k \in Keys(world[e])
                   THEN [index[k] EXCEPT ![e] = world[e].timestamp]
                   ELSE index[k]]
    /\ UNCHANGED <<world, ipfs>>

\* The cached record's TTL runs out; its index entries stay.
ExpireRecord(e) ==
    /\ redis[e] # NoRecord
    /\ redis' = [redis EXCEPT ![e] = NoRecord]
    /\ UNCHANGED <<world, index, ipfs>>

StoreNext ==
    \/ \E c \in Cids : Upload(c) \/ Collect(c)
    \/ \E e \in EventIds : CacheRecord(e) \/ ExpireRecord(e)
    \/ \E r \in Records : Log(r)

StoreSpec == StoreInit /\ [][StoreNext]_store_vars
=============================================================================

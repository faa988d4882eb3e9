-------------------------- MODULE AuditStoreProofs --------------------------
(***************************************************************************)
(* The blockchain-logger keeps the promise the audit-api relies on: every  *)
(* step of BlockchainLogger is a step of AuditStore, or leaves the ledger, *)
(* Redis and IPFS as they are.                                             *)
(***************************************************************************)
EXTENDS BlockchainLoggerProofs

\* What AuditStore assumes of its constants holds of the values it is given.
LEMMA StoreAssumptions ==
    /\ NoRecord \notin Fabric!StoredRecords
    /\ \A r \in Fabric!StoredRecords :
          /\ r.event_id \in EventIds /\ r.timestamp \in Nat \ {0}
          /\ r.payload.ipfs_cid \in Stamps /\ Store!Keys(r) \subseteq IndexKeys
<1>1. NoRecord \notin Fabric!StoredRecords
  BY NoRecordIsNoRecord DEF Fabric!StoredRecords
<1>2. ASSUME NEW r \in Fabric!StoredRecords
      PROVE  /\ r.event_id \in EventIds /\ r.timestamp \in Nat \ {0}
             /\ r.payload.ipfs_cid \in Stamps /\ Store!Keys(r) \subseteq IndexKeys
  <2>1. /\ r.event_id \in EventIds /\ r.cloud_asset_id \in Assets
        /\ r.severity \in Severities /\ r.timestamp \in Stamps
        /\ r.payload \in Payloads
    BY DEF Fabric!StoredRecords, Fabric!Records
  <2>2. Store!Keys(r) \subseteq IndexKeys
    BY <2>1 DEF Store!Keys, IndexKeys
  <2> QED
    BY <2>1, <2>2, LedgerAssumptions DEF Payloads
<1> QED
  BY <1>1, <1>2

\* No index holds the stamp of a worker that has yet to cache its record, so the
\* record it caches is neither cached nor indexed before.
IndexBehind ==
    /\ \A k \in IndexKeys, e \in EventIds : index[k][e] <= now
    /\ \A w \in Workers : pc[w] \in Parsed =>
          \A k \in IndexKeys, e \in EventIds : index[k][e] # stamp[w]

\* An index changes only where a worker caches its record, and is done with it.
LEMMA IndexChanges ==
    ASSUME TypeInv, Next, NEW k \in IndexKeys, NEW e \in EventIds
    PROVE  \/ index'[k][e] = index[k][e]
           \/ \E w \in Workers : /\ pc[w] = "redis" /\ pc'[w] \notin Parsed
                                 /\ UNCHANGED <<stamp, now>>
                                 /\ index'[k][e] = stamp[w]
<1>1. ASSUME NEW w \in Workers, pc[w] = "redis", WriteToRedis(Record(w))
      PROVE  index'[k][e] \in {index[k][e], stamp[w]}
  <2>1. Record(w).timestamp = stamp[w]
    BY <1>1, RecordIsRecord DEF Parsed
  <2> QED
    BY <1>1, <2>1 DEF WriteToRedis, TypeInv, TypeOK
<1>2. ASSUME NEW w \in Workers, Cache(w)
      PROVE  /\ pc[w] = "redis" /\ pc'[w] \notin Parsed
             /\ UNCHANGED <<stamp, now>> /\ WriteToRedis(Record(w))
  BY <1>2 DEF Cache, Goto, Parsed, TypeInv, TypeOK
<1>3. ASSUME NEW w \in Workers, CacheFails(w)
      PROVE  /\ pc[w] = "redis" /\ pc'[w] \notin Parsed
             /\ UNCHANGED <<stamp, now>>
             /\ WriteToRedis(Record(w)) \/ UNCHANGED index
  BY <1>3 DEF CacheFails, Retry, Goto, Parsed, TypeInv, TypeOK, redis_vars
<1>4. ASSUME NEW w \in Workers,
             Assign(w) \/ Steal(w) \/ Crash(w) \/ Step(w), ~Cache(w), ~CacheFails(w)
      PROVE  UNCHANGED index
  <2>1. CASE ProcessMessage(w)
    BY <1>4, <2>1 DEF ProcessMessage, Parse, ParseRefused, Add, AddFails, AddGarbled, Pin,
         PinFails, Cat, CatFails, Sign, LoadKeyFails, LoadKeyRefused, Submit, SubmitFails,
         Confirmed, WaitFails, redis_vars
  <2>2. CASE ~ProcessMessage(w)
    BY <1>4, <2>2 DEF Step, Assign, Steal, Crash, Start, Poll, DeadLetter, DeadLetterLost,
         CommitOffset, CommitFenced, redis_vars
  <2> QED
    BY <2>1, <2>2
<1>5. (\A w \in Workers : ~Assign(w) /\ ~Steal(w) /\ ~Crash(w) /\ ~Step(w))
      => UNCHANGED index
  BY DEF Next, Produce, FabricCommit, GarbageCollect, Expire, redis_vars
<1> QED
  BY <1>1, <1>2, <1>3, <1>4, <1>5

\* Every step of the logger keeps IndexBehind: a parse takes a later stamp than any in
\* an index, and only the worker that holds a stamp puts it there.
LEMMA IndexBehindStep ==
    ASSUME TypeInv, TypeInv', StampsAreFresh, IndexBehind, Next
    PROVE  IndexBehind'
<1>0. /\ now \in Nat /\ now' \in Nat /\ now <= now'
      /\ \A w \in Workers : stamp[w] <= now /\ stamp[w] \in Nat
      /\ \A k \in IndexKeys, e \in EventIds : index[k][e] \in Nat
  <2>1. now \in Nat /\ now' \in Nat
    BY MaxParsesIsNat DEF TypeInv, TypeOK
  <2>2. now <= now'
    BY StampChanges
  <2>3. \A n \in Stamps \cup {0} : n \in Nat
    BY MaxParsesIsNat DEF Stamps
  <2>4. \A w \in Workers : stamp[w] <= now /\ stamp[w] \in Nat
    BY <2>3 DEF TypeInv, TypeOK, StampsAreFresh
  <2>5. \A k \in IndexKeys, e \in EventIds : index[k][e] \in Nat
    BY <2>3 DEF TypeInv, TypeOK
  <2> QED
    BY <2>1, <2>2, <2>4, <2>5
<1>1. ASSUME NEW k \in IndexKeys, NEW e \in EventIds
      PROVE  index'[k][e] <= now'
  <2>1. index[k][e] <= now
    BY DEF IndexBehind
  <2>2. index'[k][e] = index[k][e] \/ \E w \in Workers : index'[k][e] = stamp[w]
    BY IndexChanges
  <2> QED
    BY <1>0, <2>1, <2>2
<1>2. ASSUME NEW w \in Workers, pc'[w] \in Parsed,
             NEW k \in IndexKeys, NEW e \in EventIds, index'[k][e] = stamp'[w]
      PROVE  FALSE
  <2>1. stamp'[w] # 0
    BY <1>2, LedgerAssumptions DEF TypeInv, InHand
  <2>2. ASSUME pc[w] \in Parsed, stamp'[w] = stamp[w]
        PROVE  FALSE
    <3>1. PICK v \in Workers : /\ pc'[v] \notin Parsed
                               /\ index'[k][e] = stamp[v]
      BY <1>2, <2>2, IndexChanges DEF IndexBehind
    <3>2. v # w /\ stamp[v] = stamp[w] /\ stamp[w] # 0
      BY <1>2, <2>1, <2>2, <3>1
    <3> QED
      BY <3>2 DEF StampsAreFresh
  <2>3. CASE UNCHANGED <<pc[w], stamp[w]>>
    BY <1>2, <2>2, <2>3
  <2>4. CASE Parse(w)
    <3>1. stamp'[w] = now + 1 /\ UNCHANGED index
      BY <2>4 DEF Parse, TypeInv, TypeOK, redis_vars
    <3>2. index[k][e] <= now
      BY DEF IndexBehind
    <3> QED
      BY <1>0, <1>2, <3>1, <3>2
  <2>5. CASE \/ Add(w) \/ Pin(w) \/ Cat(w) \/ Sign(w) \/ Submit(w) \/ Confirmed(w)
    BY <2>2, <2>5 DEF Add, Pin, Cat, Sign, Submit, Confirmed, Parsed
  <2> QED
    BY <1>2, <2>3, <2>4, <2>5, OthersSteps, Arrive DEF Parsed
<1> QED
  BY <1>1, <1>2 DEF IndexBehind

\* It holds in every reachable state: stamps are given out in increasing order.
THEOREM IndexBehindInvariance == Spec => []IndexBehind
<1>1. Init => IndexBehind
  BY DEF Init, IndexBehind, Parsed
<1>2. IInv /\ IInv' /\ IndexBehind /\ [Next]_vars => IndexBehind'
  <2>1. IInv /\ IInv' /\ IndexBehind /\ Next => IndexBehind'
    BY IndexBehindStep DEF IInv
  <2>2. IndexBehind /\ UNCHANGED vars => IndexBehind'
    BY DEF IndexBehind, vars, worker_vars, redis_vars
  <2> QED
    BY <2>1, <2>2
<1> QED
  BY <1>1, <1>2, Invariance, PTL DEF Spec

-----------------------------------------------------------------------------
(* The steps.                                                              *)

\* Every ledger record is that of a valid transaction, under whose stamp its
\* payload is stored.
LEMMA RecordsOfTransactions ==
    ASSUME IInv, NEW e \in EventIds, world[e] # NoRecord
    PROVE  \E t \in Stamps : /\ Proposed(t) /\ txs[t].rec = world[e]
                             /\ world[e].payload.ipfs_cid = t
<1>1. PICK t \in Stamps : txs[t].status = "valid" /\ txs[t].rec = world[e]
  BY DEF IInv, Ledger!IInv, Ledger!StoredByOne
<1> QED
  BY <1>1 DEF IInv, PinnedBeforeSubmit, Proposed

\* Adding or pinning a payload is an upload: no ledger record names it yet.
LEMMA UploadStep ==
    ASSUME IInv, NEW w \in Workers,
           Add(w) \/ AddFails(w) \/ AddGarbled(w) \/ Pin(w) \/ PinFails(w)
    PROVE  Store!Upload(stamp[w]) \/ UNCHANGED Store!store_vars
<1>1. /\ pc[w] \in {"add", "pin"}
      /\ UNCHANGED <<world, redis, index>>
      /\ \/ UNCHANGED ipfs
         \/ \E state \in {"stored", "pinned"} : ipfs' = [ipfs EXCEPT ![stamp[w]] = state]
  BY DEF Add, AddFails, AddGarbled, Pin, PinFails, fabric_vars, redis_vars
<1>2. ASSUME NEW e \in EventIds, world[e] # NoRecord
      PROVE  world[e].payload.ipfs_cid # stamp[w]
  BY <1>1, <1>2, RecordsOfTransactions DEF IInv, StampsAreFresh
<1> QED
  BY <1>1, <1>2 DEF Store!Upload, Store!store_vars

\* A commit of Fabric logs one record, or none.
LEMMA LogStep ==
    ASSUME IInv, NEW t \in Stamps, FabricCommit(t)
    PROVE  Store!StoreNext \/ UNCHANGED Store!store_vars
<1>1. CASE Ledger!CommitValid(t)
  <2>1. /\ world[txs[t].rec.event_id] = NoRecord
        /\ txs[t].rec \in Ledger!StoredRecords
    BY <1>1, Ledger!CommitValidIInv, LedgerAssumptions DEF IInv
  <2>2. /\ txs[t].status = "endorsed"
        /\ world' = [world EXCEPT ![txs[t].rec.event_id] = txs[t].rec]
    BY <1>1 DEF Ledger!CommitValid
  <2>3. PinEnabled => ipfs[txs[t].rec.payload.ipfs_cid] = "pinned"
    BY <2>2 DEF IInv, PinnedBeforeSubmit, Proposed
  <2>4. Store!Log(txs[t].rec)
    BY <2>1, <2>2, <2>3 DEF Store!Log, FabricCommit, redis_vars
  <2> QED
    BY <2>1, <2>4, SameRecords DEF Store!StoreNext
<1>2. CASE Ledger!CommitInvalid(t)
  BY <1>2 DEF Ledger!CommitInvalid, FabricCommit, redis_vars, Store!store_vars
<1> QED
  BY <1>1, <1>2, SameCommit DEF FabricCommit

\* Caching a record is a step of the store.
LEMMA CacheRecordIsNext ==
    \A e \in EventIds : Store!CacheRecord(e) => Store!StoreNext
BY DEF Store!StoreNext

\* A worker that writes to Redis caches the ledger's record, for the first time.
LEMMA CacheStep ==
    ASSUME IInv, IndexBehind, NEW w \in Workers, pc[w] = "redis",
           WriteToRedis(Record(w)), UNCHANGED <<world, ipfs>>
    PROVE  Store!StoreNext
<1> DEFINE r == Record(w)
<1>0. PICK e \in EventIds : e = r.event_id
  BY ConfirmedIsStored DEF IInv
<1>1. world[e] = r /\ r # NoRecord
  BY <1>0, ConfirmedIsStored DEF IInv
<1>2. r.timestamp = stamp[w] /\ stamp[w] # 0 /\ r \in Fabric!Records
  BY RecordIsRecord, LedgerAssumptions DEF IInv, Parsed, TypeInv, InHand
<1>3. Store!Keys(r) \subseteq IndexKeys
  BY <1>2 DEF Store!Keys, IndexKeys, Fabric!Records
<1>4. \A k \in IndexKeys : index[k][e] = 0
  BY <1>1, <1>2 DEF IInv, IndexMatchesLedger, IndexBehind, Parsed
<1>5. redis[e] = NoRecord
  BY <1>1, <1>3, <1>4 DEF IInv, IndexMatchesLedger, Store!Keys
<1>7. redis' = [redis EXCEPT ![e] = world[e]]
  BY <1>0, <1>1 DEF WriteToRedis
<1>8. Store!CacheRecord(e)
  BY <1>0, <1>1, <1>4, <1>5, <1>7 DEF Store!CacheRecord, Store!Keys, WriteToRedis
<1> QED
  BY <1>1, <1>8, CacheRecordIsNext

\* Every step of the logger is one of the store's, or changes none of it.
LEMMA StoreStep ==
    ASSUME IInv, IndexBehind, [Next]_vars
    PROVE  [Store!StoreNext]_Store!store_vars
<1>1. ASSUME NEW w \in Workers,
             Add(w) \/ AddFails(w) \/ AddGarbled(w) \/ Pin(w) \/ PinFails(w)
      PROVE  Store!StoreNext \/ UNCHANGED Store!store_vars
  <2>1. stamp[w] \in Stamps
    BY <1>1 DEF IInv, TypeInv, InHand, Parsed, Add, AddFails, AddGarbled, Pin, PinFails
  <2> QED
    BY <1>1, <2>1, UploadStep DEF Store!StoreNext
<1>2. ASSUME NEW w \in Workers, Cache(w) \/ CacheFails(w)
      PROVE  Store!StoreNext \/ UNCHANGED Store!store_vars
  <2>1. /\ pc[w] = "redis" /\ UNCHANGED <<world, ipfs>>
        /\ WriteToRedis(Record(w)) \/ UNCHANGED redis_vars
    BY <1>2 DEF Cache, CacheFails, fabric_vars
  <2>2. UNCHANGED redis_vars => UNCHANGED <<redis, index>>
    BY DEF redis_vars
  <2> QED
    BY <2>1, <2>2, CacheStep DEF Store!store_vars
<1>3. ASSUME NEW s \in Stamps, GarbageCollect(s)
      PROVE  Store!StoreNext
  <2>1. Store!Collect(s)
    BY <1>3 DEF GarbageCollect, Store!Collect, fabric_vars, redis_vars
  <2> QED
    BY <2>1 DEF Store!StoreNext
<1>4. ASSUME NEW e \in EventIds, Expire(e)
      PROVE  Store!StoreNext
  <2>6. Store!ExpireRecord(e)
    BY <1>4 DEF Expire, Store!ExpireRecord, fabric_vars
  <2> QED
    BY <2>6 DEF Store!StoreNext
<1>5. ASSUME NEW w \in Workers,
             \/ Assign(w) \/ Steal(w) \/ Crash(w) \/ Start(w) \/ Poll(w)
             \/ Parse(w) \/ ParseRefused(w) \/ Cat(w) \/ CatFails(w) \/ Sign(w)
             \/ LoadKeyFails(w) \/ LoadKeyRefused(w) \/ SubmitFails(w) \/ Confirmed(w)
             \/ WaitFails(w) \/ DeadLetter(w) \/ DeadLetterLost(w) \/ CommitOffset(w)
             \/ CommitFenced(w)
      PROVE  UNCHANGED Store!store_vars
  <2>1. UNCHANGED <<fabric_vars, redis_vars, ipfs>>
    BY <1>5 DEF Assign, Steal, Crash, Start, Poll, Parse, ParseRefused, Cat, CatFails,
                Sign, LoadKeyFails, LoadKeyRefused, SubmitFails, Confirmed, WaitFails,
                DeadLetter, DeadLetterLost, CommitOffset, CommitFenced
  <2> QED
    BY <2>1 DEF fabric_vars, redis_vars, Store!store_vars
<1>6. ASSUME NEW w \in Workers, Submit(w)
      PROVE  UNCHANGED Store!store_vars
  BY <1>6 DEF Submit, LogEvent, Fabric!LogSecurityEvent, redis_vars, Store!store_vars
<1>7. ASSUME NEW m \in Messages, Produce(m)
      PROVE  UNCHANGED Store!store_vars
  BY <1>7 DEF Produce, fabric_vars, redis_vars, Store!store_vars
<1>8. UNCHANGED vars => UNCHANGED Store!store_vars
  BY DEF vars, fabric_vars, redis_vars, Store!store_vars
<1>9. ASSUME NEW w \in Workers, Step(w)
      PROVE  Store!StoreNext \/ UNCHANGED Store!store_vars
  BY <1>1, <1>2, <1>5, <1>6, <1>9 DEF Step, ProcessMessage
<1> QED
  BY <1>3, <1>4, <1>5, <1>7, <1>8, <1>9, LogStep DEF Next

\* The logger implements the store the audit-api reads: a record is cached once,
\* from the ledger, with its index entries, and its payload stays if it is pinned.
THEOREM StoreRefinement == Spec => KeepsStore
<1>1. Init => Store!StoreInit
  BY DEF Init, Fabric!Init, Store!StoreInit
<1>2. IInv /\ IndexBehind /\ [Next]_vars => [Store!StoreNext]_Store!store_vars
  BY StoreStep
<1> QED
  BY <1>1, <1>2, Invariance, IndexBehindInvariance, PTL
     DEF Spec, KeepsStore, Store!StoreSpec
=============================================================================

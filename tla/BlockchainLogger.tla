-------------------------- MODULE BlockchainLogger --------------------------
(***************************************************************************)
(* services/blockchain-logger/app.py: a Kafka consumer group whose members *)
(* take a detector event from the topic, store its canonical payload on    *)
(* IPFS, sign it, submit it to Fabric, cache the committed record in Redis *)
(* and only then commit the offset; what cannot be logged is dead-lettered.*)
(*                                                                         *)
(* One partition of the topic is modelled (the others are independent) and *)
(* the whole group competes for it.  Every external call of process_message*)
(* is an action of its own, so that calls of different workers, crashes,   *)
(* rebalances and Fabric's commits fall between any two of them.           *)
(*                                                                         *)
(* SecurityEvent.timestamp defaults to the time of parsing, so every       *)
(* attempt yields a payload, CID and SHA-256 of its own.  The n-th parse   *)
(* has stamp n, which stands for that timestamp, for the content the CID   *)
(* and the hash identify, and for the transaction it is submitted as.      *)
(***************************************************************************)
EXTENDS Naturals, Sequences

CONSTANTS
    Workers,            \* members of the consumer group
    NoWorker,
    Messages,           \* events detectors send: records with the fields
                        \*   event_id, asset_id, severity, attack_category
    Severities,         \* the Severity enum of shared/event_schema.py
    MaxTopic,           \* bound: messages produced
    MaxRetries,         \* FABRIC_MAX_RETRIES
    MaxFaults,          \* bound: crashes and lost partitions
    Faults,             \* what may go wrong, a subset of FaultKinds
    PinEnabled,         \* IPFS_PIN
    ContractFunctions,  \* functions the deployed chaincode offers
    NoRecord

FaultKinds == {"ipfs", "ipfs_gc", "key", "fabric", "redis", "redis_ttl", "dlq",
               "crash", "steal"}

ASSUME NoWorkerIsNoWorker == NoWorker \notin Workers

ASSUME Bounds == MaxTopic \in Nat /\ MaxRetries \in Nat /\ MaxFaults \in Nat

ASSUME FaultsAreKnown == Faults \subseteq FaultKinds

ASSUME PinIsBoolean == PinEnabled \in BOOLEAN

EventIds == {m.event_id : m \in Messages}

Assets == {m.asset_id : m \in Messages}

IndexKeys == ({"asset"} \X Assets) \cup ({"severity"} \X Severities)

\* A message is parsed at most MaxRetries times per delivery, and is delivered
\* again at most once per crash or lost partition.
MaxParses == (MaxTopic + MaxFaults) * MaxRetries

Stamps == 1 .. MaxParses

\* What the logger adds to the event: the CID of its canonical payload and
\* whether the agent's identity (the certificate's subject) is in the record.
Payloads == [ipfs_cid : Stamps, agent_identity : BOOLEAN]

Org == "Org1MSP"

VARIABLES
    topic,      \* the partition's messages, in order
    committed,  \* the group's committed offset: messages 1..committed are done
    owner,      \* the worker the partition is assigned to
    pc,         \* where each worker is in main and process_message
    pos,        \* each worker's fetch position; the message in hand while busy
    attempt,    \* for attempt in range(1, max_retries + 1)
    stamp,      \* the stamp of the worker's current parse
    key,        \* _agent_private_key and _agent_identity
    now,        \* parses so far
    ipfs,       \* the IPFS node: what it holds of each payload
    world, version, txs,  \* the ledger, see SecurityLogger
    redis,      \* audit:event:<id>
    index,      \* audit:idx:asset:<id> and audit:idx:severity:<s>: id -> score
    dlq,        \* offsets whose message is in the dead-letter topic
    budget      \* crashes and lost partitions left

worker_vars == <<pc, pos, attempt, stamp, key>>
kafka_vars == <<topic, committed, owner, dlq>>
fabric_vars == <<world, version, txs>>
redis_vars == <<redis, index>>
vars == <<worker_vars, kafka_vars, fabric_vars, redis_vars, now, ipfs, budget>>

Fabric == INSTANCE SecurityLogger
              WITH Times <- Stamps, NoTime <- 0, TxIds <- Stamps,
                   Msps <- {Org}, AuthorizedMsp <- Org

\* What the audit-api may rely on.
Store == INSTANCE AuditStore
             WITH Records <- Fabric!StoredRecords, Cids <- Stamps

-----------------------------------------------------------------------------
Steps == {"down", "poll", "parse", "add", "pin", "cat", "sign", "submit", "wait",
          "redis", "dlq", "commit"}

Busy == Steps \ {"down", "poll"}

ASSUME NoRecordIsNoRecord == NoRecord \notin Fabric!Records

TypeOK ==
    /\ topic \in Seq(Messages) /\ Len(topic) <= MaxTopic
    /\ committed \in 0 .. Len(topic)
    /\ owner \in Workers \cup {NoWorker}
    /\ dlq \subseteq 1 .. Len(topic)
    /\ pc \in [Workers -> Steps]
    /\ pos \in [Workers -> 0 .. Len(topic)]
    /\ attempt \in [Workers -> 0 .. MaxRetries]
    /\ stamp \in [Workers -> Stamps \cup {0}]
    /\ key \in [Workers -> {"unset", "key_only", "loaded"}]
    /\ now \in 0 .. MaxParses
    /\ ipfs \in [Stamps -> {"absent", "stored", "pinned"}]
    /\ Fabric!TypeOK
    /\ redis \in [EventIds -> Fabric!Records \cup {NoRecord}]
    /\ index \in [IndexKeys -> [EventIds -> Stamps \cup {0}]]
    /\ budget \in 0 .. MaxFaults

Init ==
    /\ topic = <<>> /\ committed = 0 /\ owner = NoWorker /\ dlq = {}
    /\ pc = [w \in Workers |-> "poll"]
    /\ pos = [w \in Workers |-> 0]
    /\ attempt = [w \in Workers |-> 0]
    /\ stamp = [w \in Workers |-> 0]
    /\ key = [w \in Workers |-> "unset"]
    /\ now = 0
    /\ ipfs = [s \in Stamps |-> "absent"]
    /\ Fabric!Init
    /\ redis = [e \in EventIds |-> NoRecord]
    /\ index = [k \in IndexKeys |-> [e \in EventIds |-> 0]]
    /\ budget = MaxFaults

-----------------------------------------------------------------------------
(* Helpers.  Definitions named Operation_Variant, here and below, are the  *)
(* operation with a plausible mistake: each shows that a property at the   *)
(* end of the module can fail.  No specification uses them.                *)

Message(w) == topic[pos[w]]

\* SecurityEvent's validators: the detector's INFO severity and its default,
\* empty attack_category are refused.
SchemaValid(m) == m.severity \in Severities /\ m.attack_category # ""

\* The record of message m parsed with stamp s: to_ledger_dict().
LedgerRecord(m, s, known) ==
    [event_id |-> m.event_id, cloud_asset_id |-> m.asset_id, severity |-> m.severity,
     timestamp |-> s, payload |-> [ipfs_cid |-> s, agent_identity |-> known]]

Record(w) == LedgerRecord(Message(w), stamp[w], key[w] = "loaded")

Goto(w, step) == pc' = [pc EXCEPT ![w] = step]

Faulty(kind) == kind \in Faults

Retry_OneMore(w) ==
    IF attempt[w] <= MaxRetries
    THEN Goto(w, "parse") /\ attempt' = [attempt EXCEPT ![w] = @ + 1]
    ELSE Goto(w, "dlq") /\ UNCHANGED attempt

Retry_NoDeadLetter(w) ==
    IF attempt[w] < MaxRetries
    THEN Goto(w, "parse") /\ attempt' = [attempt EXCEPT ![w] = @ + 1]
    ELSE Goto(w, "commit") /\ UNCHANGED attempt

Retry_Uncounted(w) == Goto(w, "parse") /\ UNCHANGED attempt

\* The failing call raised something other than ValueError: try again from the
\* parse, or dead-letter the message when the attempts are used up.
Retry(w) ==
    IF attempt[w] < MaxRetries
    THEN Goto(w, "parse") /\ attempt' = [attempt EXCEPT ![w] = @ + 1]
    ELSE Goto(w, "dlq") /\ UNCHANGED attempt

\* The process is gone, with everything it held; the group coordinator takes
\* its partition away when the session times out.
Down(w) ==
    /\ Goto(w, "down")
    /\ pos' = [pos EXCEPT ![w] = 0]
    /\ attempt' = [attempt EXCEPT ![w] = 0]
    /\ stamp' = [stamp EXCEPT ![w] = 0]
    /\ key' = [key EXCEPT ![w] = "unset"]
    /\ owner' = IF owner = w THEN NoWorker ELSE owner

-----------------------------------------------------------------------------
(* Kafka: the topic, the group and its members' lives.                     *)

\* The detector-adapter's producer appends an event.
Produce(m) ==
    /\ Len(topic) < MaxTopic
    /\ topic' = Append(topic, m)
    /\ UNCHANGED <<worker_vars, committed, owner, dlq, fabric_vars, redis_vars, now,
                   ipfs, budget>>

Assign_FromLatest(w) ==
    /\ pc[w] = "poll"
    /\ owner = NoWorker
    /\ owner' = w
    /\ pos' = [pos EXCEPT ![w] = Len(topic)]
    /\ UNCHANGED <<topic, committed, dlq, pc, attempt, stamp, key, fabric_vars,
                   redis_vars, now, ipfs, budget>>

\* A worker that polls is given a partition nobody has, and starts from the
\* committed offset (auto.offset.reset is earliest).
Assign(w) ==
    /\ pc[w] = "poll"
    /\ owner = NoWorker
    /\ owner' = w
    /\ pos' = [pos EXCEPT ![w] = committed]
    /\ UNCHANGED <<topic, committed, dlq, pc, attempt, stamp, key, fabric_vars,
                   redis_vars, now, ipfs, budget>>

\* The partition moves from a live member to another, which the member does not
\* notice while it is busy: it exceeded max.poll.interval.ms between two polls,
\* or lost its session, or the group was scaled.
Steal(w) ==
    /\ Faulty("steal") /\ budget > 0
    /\ pc[w] = "poll"
    /\ owner \notin {w, NoWorker}
    /\ owner' = w
    /\ pos' = [pos EXCEPT ![w] = committed]
    /\ budget' = budget - 1
    /\ UNCHANGED <<topic, committed, dlq, pc, attempt, stamp, key, fabric_vars,
                   redis_vars, now, ipfs>>

\* The process dies, or stops on SIGTERM between two messages.
Crash(w) ==
    /\ Faulty("crash") /\ budget > 0
    /\ pc[w] # "down"
    /\ Down(w)
    /\ budget' = budget - 1
    /\ UNCHANGED <<topic, committed, dlq, fabric_vars, redis_vars, now, ipfs>>

\* Kubernetes restarts the container: main subscribes again.
Start(w) ==
    /\ pc[w] = "down"
    /\ Goto(w, "poll")
    /\ UNCHANGED <<kafka_vars, pos, attempt, stamp, key, fabric_vars, redis_vars, now,
                   ipfs, budget>>

\* consumer.poll returns the next message of the worker's partition.  With
\* FABRIC_MAX_RETRIES = 0 the attempt loop has no iteration and the offset is
\* not committed.
Poll(w) ==
    /\ pc[w] = "poll"
    /\ owner = w
    /\ pos[w] < Len(topic)
    /\ pos' = [pos EXCEPT ![w] = @ + 1]
    /\ IF MaxRetries > 0
       THEN Goto(w, "parse") /\ attempt' = [attempt EXCEPT ![w] = 1]
       ELSE UNCHANGED <<pc, attempt>>
    /\ UNCHANGED <<kafka_vars, stamp, key, fabric_vars, redis_vars, now, ipfs, budget>>

-----------------------------------------------------------------------------
(* process_message.                                                        *)

\* The message parses; its missing timestamp becomes the current time.
Parse(w) ==
    /\ pc[w] = "parse"
    /\ SchemaValid(Message(w))
    /\ now < MaxParses
    /\ now' = now + 1
    /\ stamp' = [stamp EXCEPT ![w] = now + 1]
    /\ Goto(w, "add")
    /\ UNCHANGED <<kafka_vars, pos, attempt, key, fabric_vars, redis_vars, ipfs, budget>>

\* It does not: a ValueError, not tried again.
ParseRefused(w) ==
    /\ pc[w] = "parse"
    /\ ~SchemaValid(Message(w))
    /\ Goto(w, "dlq")
    /\ UNCHANGED <<kafka_vars, pos, attempt, stamp, key, fabric_vars, redis_vars, now,
                   ipfs, budget>>

IpfsHas(s) == ipfs[s] # "absent"

Add_NeverPins(w) ==
    /\ pc[w] = "add"
    /\ ipfs' = [ipfs EXCEPT ![stamp[w]] = "stored"]
    /\ Goto(w, "cat")
    /\ UNCHANGED <<kafka_vars, pos, attempt, stamp, key, fabric_vars, redis_vars, now, budget>>

\* POST /api/v0/add stores the payload, unpinned.
Add(w) ==
    /\ pc[w] = "add"
    /\ ipfs' = [ipfs EXCEPT ![stamp[w]] = "stored"]
    /\ Goto(w, IF PinEnabled THEN "pin" ELSE "cat")
    /\ UNCHANGED <<kafka_vars, pos, attempt, stamp, key, fabric_vars, redis_vars, now, budget>>

\* The request fails or names no CID, with the payload stored or not.
AddFails(w) ==
    /\ pc[w] = "add" /\ Faulty("ipfs")
    /\ \/ ipfs' = [ipfs EXCEPT ![stamp[w]] = "stored"]
       \/ UNCHANGED ipfs
    /\ Retry(w)
    /\ UNCHANGED <<kafka_vars, pos, stamp, key, fabric_vars, redis_vars, now, budget>>

\* The body is not JSON: resp.json() raises a ValueError outside the try block.
AddGarbled(w) ==
    /\ pc[w] = "add" /\ Faulty("ipfs")
    /\ ipfs' = [ipfs EXCEPT ![stamp[w]] = "stored"]
    /\ Goto(w, "dlq")
    /\ UNCHANGED <<kafka_vars, pos, attempt, stamp, key, fabric_vars, redis_vars, now, budget>>

Pin(w) ==
    /\ pc[w] = "pin" /\ IpfsHas(stamp[w])
    /\ ipfs' = [ipfs EXCEPT ![stamp[w]] = "pinned"]
    /\ Goto(w, "cat")
    /\ UNCHANGED <<kafka_vars, pos, attempt, stamp, key, fabric_vars, redis_vars, now, budget>>

\* The pin request fails, applied or not; it must when the payload is gone.
PinFails(w) ==
    /\ pc[w] = "pin"
    /\ \/ ~IpfsHas(stamp[w]) /\ UNCHANGED ipfs
       \/ Faulty("ipfs") /\ UNCHANGED ipfs
       \/ Faulty("ipfs") /\ IpfsHas(stamp[w]) /\ ipfs' = [ipfs EXCEPT ![stamp[w]] = "pinned"]
    /\ Retry(w)
    /\ UNCHANGED <<kafka_vars, pos, stamp, key, fabric_vars, redis_vars, now, budget>>

\* fetch_and_verify finds what was added.
Cat(w) ==
    /\ pc[w] = "cat" /\ IpfsHas(stamp[w])
    /\ Goto(w, "sign")
    /\ UNCHANGED <<kafka_vars, pos, attempt, stamp, key, fabric_vars, redis_vars, now,
                   ipfs, budget>>

CatFails(w) ==
    /\ pc[w] = "cat" /\ (Faulty("ipfs") \/ ~IpfsHas(stamp[w]))
    /\ Retry(w)
    /\ UNCHANGED <<kafka_vars, pos, stamp, key, fabric_vars, redis_vars, now, ipfs, budget>>

\* _load_agent_key returns at once when the private key is set; otherwise it
\* reads the key and then the certificate.
Sign(w) ==
    /\ pc[w] = "sign"
    /\ key' = [key EXCEPT ![w] = IF @ = "unset" THEN "loaded" ELSE @]
    /\ Goto(w, "submit")
    /\ UNCHANGED <<kafka_vars, pos, attempt, stamp, fabric_vars, redis_vars, now, ipfs, budget>>

\* A file cannot be read: the key's, or the certificate's after the key is set.
LoadKeyFails(w) ==
    /\ pc[w] = "sign" /\ Faulty("key") /\ key[w] = "unset"
    /\ \E k \in {"unset", "key_only"} : key' = [key EXCEPT ![w] = k]
    /\ Retry(w)
    /\ UNCHANGED <<kafka_vars, pos, stamp, fabric_vars, redis_vars, now, ipfs, budget>>

\* A file is not the PEM it should be: a ValueError, not tried again.
LoadKeyRefused(w) ==
    /\ pc[w] = "sign" /\ Faulty("key") /\ key[w] = "unset"
    /\ \E k \in {"unset", "key_only"} : key' = [key EXCEPT ![w] = k]
    /\ Goto(w, "dlq")
    /\ UNCHANGED <<kafka_vars, pos, attempt, stamp, fabric_vars, redis_vars, now, ipfs, budget>>

LogEvent_Overwrites(t, r) ==
    Fabric!LogSecurityEvent_NoExistsCheck(t, Org, r, r.timestamp)

\* The function the logger invokes.  The repository's chaincode offers
\* LogSecurityEvent and no LogEvent; where the deployed contract has one, it is
\* taken to do what LogSecurityEvent does.
LogEvent(t, r) ==
    /\ "LogEvent" \in ContractFunctions
    /\ Fabric!LogSecurityEvent(t, Org, r, r.timestamp)

LogEventRefuses(e) == "LogEvent" \notin ContractFunctions \/ Fabric!EventExists(e)

\* peer chaincode invoke gets its endorsement and hands the transaction to the
\* orderer.
Submit(w) ==
    /\ pc[w] = "submit"
    /\ LogEvent(stamp[w], Record(w))
    /\ Goto(w, "wait")
    /\ UNCHANGED <<kafka_vars, pos, attempt, stamp, key, redis_vars, now, ipfs, budget>>

\* The contract refuses the proposal, or the peer cannot be reached.
SubmitFails(w) ==
    /\ pc[w] = "submit"
    /\ LogEventRefuses(Message(w).event_id) \/ Faulty("fabric")
    /\ Retry(w)
    /\ UNCHANGED <<kafka_vars, pos, stamp, key, fabric_vars, redis_vars, now, ipfs, budget>>

Confirmed_WithoutWaiting(w) ==
    /\ pc[w] = "wait"
    /\ Goto(w, "redis")
    /\ UNCHANGED <<kafka_vars, pos, attempt, stamp, key, fabric_vars, redis_vars, now,
                   ipfs, budget>>

\* --waitForEvent: the transaction committed.  The id read from the command's
\* output, or made up when it shows none, is a figure of the cached record that
\* nothing looks at, and is left out: it need not be the transaction's.
Confirmed(w) ==
    /\ pc[w] = "wait" /\ txs[stamp[w]].status = "valid"
    /\ Goto(w, "redis")
    /\ UNCHANGED <<kafka_vars, pos, attempt, stamp, key, fabric_vars, redis_vars, now,
                   ipfs, budget>>

\* It was invalidated, or the wait timed out whatever becomes of it.
WaitFails(w) ==
    /\ pc[w] = "wait"
    /\ txs[stamp[w]].status = "invalid" \/ Faulty("fabric")
    /\ Retry(w)
    /\ UNCHANGED <<kafka_vars, pos, stamp, key, fabric_vars, redis_vars, now, ipfs, budget>>

\* The MULTI/EXEC of _write_to_redis: the record and its two index entries.
WriteToRedis(r) ==
    /\ redis' = [redis EXCEPT ![r.event_id] = r]
    /\ index' = [k \in IndexKeys |->
                   IF k \in {<<"asset", r.cloud_asset_id>>, <<"severity", r.severity>>}
                   THEN [index[k] EXCEPT ![r.event_id] = r.timestamp]
                   ELSE index[k]]

Cache(w) ==
    /\ pc[w] = "redis"
    /\ WriteToRedis(Record(w))
    /\ Goto(w, "commit")
    /\ UNCHANGED <<kafka_vars, pos, attempt, stamp, key, fabric_vars, now, ipfs, budget>>

CacheFails_NotAtomic(w) ==
    /\ pc[w] = "redis" /\ Faulty("redis")
    /\ redis' = [redis EXCEPT ![Record(w).event_id] = Record(w)]
    /\ Retry(w)
    /\ UNCHANGED <<kafka_vars, pos, stamp, key, fabric_vars, index, now, ipfs, budget>>

\* Redis is unreachable, or the connection breaks after the EXEC.
CacheFails(w) ==
    /\ pc[w] = "redis" /\ Faulty("redis")
    /\ WriteToRedis(Record(w)) \/ UNCHANGED redis_vars
    /\ Retry(w)
    /\ UNCHANGED <<kafka_vars, pos, stamp, key, fabric_vars, now, ipfs, budget>>

-----------------------------------------------------------------------------
(* The end of the loop's body.                                             *)

DeadLetter(w) ==
    /\ pc[w] = "dlq"
    /\ dlq' = dlq \cup {pos[w]}
    /\ Goto(w, "commit")
    /\ UNCHANGED <<topic, committed, owner, pos, attempt, stamp, key, fabric_vars,
                   redis_vars, now, ipfs, budget>>

\* produce raises, which is caught, or the message times out in flush, which
\* reports nothing: the loop goes on as if it had been delivered.
DeadLetterLost(w) ==
    /\ pc[w] = "dlq" /\ Faulty("dlq")
    /\ Goto(w, "commit")
    /\ UNCHANGED <<kafka_vars, pos, attempt, stamp, key, fabric_vars, redis_vars, now,
                   ipfs, budget>>

CommitOffset_Unfenced(w) ==
    /\ pc[w] = "commit"
    /\ committed' = pos[w]
    /\ Goto(w, "poll")
    /\ attempt' = [attempt EXCEPT ![w] = 0]
    /\ stamp' = [stamp EXCEPT ![w] = 0]
    /\ UNCHANGED <<topic, owner, dlq, pos, key, fabric_vars, redis_vars, now, ipfs, budget>>

\* consumer.commit(message=msg, asynchronous=False) by the partition's owner.
CommitOffset(w) ==
    /\ pc[w] = "commit" /\ owner = w
    /\ committed' = pos[w]
    /\ Goto(w, "poll")
    /\ attempt' = [attempt EXCEPT ![w] = 0]
    /\ stamp' = [stamp EXCEPT ![w] = 0]
    /\ UNCHANGED <<topic, owner, dlq, pos, key, fabric_vars, redis_vars, now, ipfs, budget>>

\* The coordinator refuses a member that lost the partition; nothing catches the
\* KafkaException, so the process ends.
CommitFenced(w) ==
    /\ pc[w] = "commit" /\ owner # w
    /\ Down(w)
    /\ UNCHANGED <<topic, committed, dlq, fabric_vars, redis_vars, now, ipfs, budget>>

-----------------------------------------------------------------------------
(* The services' own steps.                                                *)

FabricCommit(t) ==
    /\ Fabric!Commit(t)
    /\ UNCHANGED <<worker_vars, kafka_vars, redis_vars, now, ipfs, budget>>

\* The node collects a payload nobody pinned.
GarbageCollect(s) ==
    /\ Faulty("ipfs_gc") /\ ipfs[s] = "stored"
    /\ ipfs' = [ipfs EXCEPT ![s] = "absent"]
    /\ UNCHANGED <<worker_vars, kafka_vars, fabric_vars, redis_vars, now, budget>>

\* A record's REDIS_TTL_S runs out; index entries have no TTL.
Expire(e) ==
    /\ Faulty("redis_ttl") /\ redis[e] # NoRecord
    /\ redis' = [redis EXCEPT ![e] = NoRecord]
    /\ UNCHANGED <<worker_vars, kafka_vars, fabric_vars, index, now, ipfs, budget>>

-----------------------------------------------------------------------------
ProcessMessage(w) ==
    \/ Parse(w) \/ ParseRefused(w)
    \/ Add(w) \/ AddFails(w) \/ AddGarbled(w)
    \/ Pin(w) \/ PinFails(w)
    \/ Cat(w) \/ CatFails(w)
    \/ Sign(w) \/ LoadKeyFails(w) \/ LoadKeyRefused(w)
    \/ Submit(w) \/ SubmitFails(w)
    \/ Confirmed(w) \/ WaitFails(w)
    \/ Cache(w) \/ CacheFails(w)

\* The steps the worker's own process takes.
Step(w) ==
    \/ Start(w) \/ Poll(w)
    \/ ProcessMessage(w)
    \/ DeadLetter(w) \/ DeadLetterLost(w)
    \/ CommitOffset(w) \/ CommitFenced(w)

Next ==
    \/ \E m \in Messages : Produce(m)
    \/ \E w \in Workers : Assign(w) \/ Steal(w) \/ Crash(w) \/ Step(w)
    \/ \E t \in Stamps : FabricCommit(t) \/ GarbageCollect(t)
    \/ \E e \in EventIds : Expire(e)

Spec == Init /\ [][Next]_vars

\* A live process keeps running and a dead one is restarted; the group coordinator
\* hands a free partition to a member that polls; Fabric commits what a worker
\* waits for.  Nothing is assumed about faults, or about a transaction nobody
\* waits for.
Fairness ==
    /\ \A w \in Workers : WF_vars(Step(w))
    /\ WF_vars(\E w \in Workers : Assign(w))
    /\ \A w \in Workers : WF_vars(pc[w] = "wait" /\ FabricCommit(stamp[w]))

FairSpec == Spec /\ Fairness

-----------------------------------------------------------------------------
(* Properties.                                                             *)

\* The ledger holds the message at offset o, by whichever worker and attempt.
Logged(o) ==
    LET m == topic[o]
        r == world[m.event_id]
    IN  r # NoRecord /\ r.cloud_asset_id = m.asset_id /\ r.severity = m.severity

\* The audit-api can find message o: its record is cached and in both indexes.
Queryable(o) ==
    o <= Len(topic) /\ LET m == topic[o] IN
      /\ Logged(o)
      /\ redis[m.event_id] # NoRecord
      /\ index[<<"asset", m.asset_id>>][m.event_id] # 0
      /\ index[<<"severity", m.severity>>][m.event_id] # 0

\* As long as the dead-letter topic accepts messages, no message behind the
\* committed offset is lost, whatever crashes, rebalances and failed calls came
\* between taking it and committing its offset (main's loop).
NoSilentLoss ==
    ~Faulty("dlq") => \A o \in 1 .. committed : o \in dlq \/ Logged(o)

\* What the audit-api reads from Redis is what the ledger holds, although an
\* event is submitted under several payloads and by several workers at a time:
\* process_message caches the record whose transaction it saw commit.
RedisMirrorsLedger ==
    \A e \in EventIds : redis[e] # NoRecord => redis[e] = world[e]

\* An index entry leads to a ledger record of that asset or severity and sorts it
\* by the record's own timestamp, and a cached record is in both its indexes.
IndexMatchesLedger ==
    /\ \A k \in IndexKeys, e \in EventIds : index[k][e] # 0 =>
         /\ world[e] # NoRecord
         /\ k \in {<<"asset", world[e].cloud_asset_id>>, <<"severity", world[e].severity>>}
         /\ index[k][e] = world[e].timestamp
    /\ \A e \in EventIds : redis[e] # NoRecord =>
         /\ index[<<"asset", world[e].cloud_asset_id>>][e] # 0
         /\ index[<<"severity", world[e].severity>>][e] # 0

\* With IPFS_PIN set, the payload behind every ledger record stays on the node
\* although the node collects what is not pinned: the order add, pin, cat, submit.
EvidenceRetrievable ==
    PinEnabled =>
        \A e \in EventIds : world[e] # NoRecord => ipfs[world[e].payload.ipfs_cid] = "pinned"

\* Through the whole pipeline, with redeliveries and retries under new payloads,
\* the ledger stays an append-only trail with one entry per event id.
LedgerIsTrail == Fabric!ImplementsTrail

\* The audit-api's view: records reach Redis once, from the ledger, indexed in the
\* same step, and with IPFS_PIN under payloads that stay.
KeepsStore == Store!StoreSpec

\* A worker that lost its partition while it was busy never takes the group's
\* offset back.
CommittedNeverRegresses == [][committed' >= committed]_vars

\* Every message is done with at some point: no fault, retry or rebalance leaves
\* the group stuck in front of one (at least one attempt is configured).
EventuallyDone ==
    MaxRetries > 0 =>
        \A o \in 1 .. MaxTopic : (Len(topic) >= o) ~> (committed >= o)

-----------------------------------------------------------------------------
(* What the repository says of the logger and the code does not keep.      *)

\* "Offsets are committed only after successful Fabric+IPFS submission"
\* (shared/config.py); main commits after dead-lettering as well.
CommittedOnlyAfterSubmission == \A o \in 1 .. committed : Logged(o)

\* Redis is what "the blockchain-logger writes to after every successful Fabric
\* commit" (audit-api's query_service.py): once main is done with a message, its
\* ledger record can be queried.
CommittedIsQueryable == \A o \in 1 .. committed : Logged(o) => Queryable(o)

\* "ECDSA P-256 signatures on each event" (docs/architecture.md), which the
\* end-to-end test expects to verify as VALID; _verify_signature rejects a record
\* that names no agent identity.
RecordsVerify ==
    \A e \in EventIds : world[e] # NoRecord => world[e].payload.agent_identity
=============================================================================

# A TLA+ model of the blockchain-backed security event logger

Detectors report security events of cloud assets; the system puts the
fingerprint of each on a Hyperledger Fabric ledger and its payload on IPFS, and
lets auditors query, verify and report on them. These modules model the
repository's own logic, function by function; TLC checks them on small instances
and TLAPS proves every safety and action property of the runs for all instances.
`PROJECT.json` relates every definition to the lines it models.

## The system

```
 detectors --REST--> detector-adapter --Kafka: security-events--> blockchain-logger
                          |                                        |     |     |
                     dead-letter topic <---------------------------+   IPFS  Fabric
                                                                   |  payload  chaincode
 auditors ---REST--> audit-api <------------- Redis ---------------+
 cron: compliance-scheduler --REST--> audit-api --> IPFS
 operator: run.py brings all of it up          live_blockchain_logger.py: one process
                                               that does the whole path by itself
```

| component | state it keeps | operations | what is hard about it | what makes it correct |
|---|---|---|---|---|
| chaincode (`chaincode/security_logger.go`) on Fabric | the world state: one record per event id | `LogSecurityEvent`; `VerifyEvent`, `EventExists`, two rich queries | proposals are endorsed against a state that others change before they commit | append-only; one authorised record per id; an answer never loses records |
| blockchain-logger (`services/blockchain-logger/app.py`) | Kafka offset, fetch position, attempt, cached key; Redis records and indexes | poll, parse, add, pin, fetch back, sign, submit, wait, cache, dead-letter, commit the offset | every call fails or times out on its own; crashes, redelivery, a partition taken away in mid-message; a new payload at every attempt | nothing behind the offset is lost; Redis shows what the ledger holds; evidence stays; the group moves on |
| detector-adapter (`services/detector-adapter`) | the producer's queue | single and batch ingestion, dead-lettering, stop | produce is asynchronous and its queue bounded; lost acknowledgements, kills | what a caller was told agrees with what reaches the topic |
| audit-api (`services/audit-api`) | none; it reads Redis and IPFS in several steps | by asset, by severity, by id, verify, report | records appear and expire between two reads; cached records may be altered | answers are sound, complete and in order; VALID means logged and signed as it stands |
| compliance-scheduler | none | three cron jobs that call the audit-api | – | – |
| `run.py` | files, Docker volumes, the channel; service processes | key pair, channel, chaincode life cycle, services, demo, Ctrl+C, teardown | it is repeated after failing anywhere; what is on disk stands for what is in the volumes; a failed demo leaves its services running, on the ports and in the consumer group of the next run | a re-run gets there, with a live ledger below it; neither a key pair nor a live ledger is replaced; what is cached verifies |
| live pipeline (`live_blockchain_logger.py`), also used by `benchmark.py` | the AES key file | one run per event; the benchmark's events in one process | runs share the key file; the peer command does not wait for the commit | what is on the ledger verifies and decrypts; success means logged |
| audit client (`audit_query.py`), also used by `benchmark.py` | none | query by asset, severity or id; verification of each record over IPFS | runs go on between the query and the last fetch; failures look like empty answers and corrupted payloads | it finds what the runs reported, and calls nothing corrupted that is not |

The services share nothing but Kafka, Fabric, IPFS and Redis. `PROJECT.json`
lists the remaining parts (prototypes, modules nothing imports, deployment data)
as not modelled, with the reason.

## The modules

`SecurityLogger` is the chaincode and Fabric's endorse/order/validate cycle:
`world` and `version` are the peer's key-value store, `txs` is what became of each
transaction. `LogSecurityEvent` is the endorsement, with its two refusals;
`CommitValid` and `CommitInvalid` are the validation of the read set. The abstract
specification of it is `AuditLedger`: free ids are filled, nothing else changes.

`BlockchainLogger` is the consumer group on one partition (partitions share
nothing but the stores, in which event ids and not partitions matter) with an
instance of `SecurityLogger` inside. Each external call of `process_message`
is an action; `pc[w]` is where worker `w` is, and `attempt` the loop variable of
`main`. Its failing variants (`AddFails`, `WaitFails`, `CacheFails`...) are guarded by
the set `Faults`, and all go through `Retry`, which is the `except` branch of `main`.
`SecurityEvent.timestamp` defaults to the time of parsing, so each
attempt has a payload of its own; the number of the parse (its *stamp*) stands for that
timestamp, for the CID and hash of the content and for the transaction it is
submitted as. A graceful stop ends the loop at `poll`, and is `Crash` there. What the
logger promises its readers is `AuditStore`; `KeepsStore` states that the
logger implements it. The `tx_id` of a cached record is left out, as it is text found in the
peer command's output and no property can rely on it (see below).

`AuditApi` extends `AuditStore`: a request advances by one read at a time while
the store takes steps of its own, so the logger is present by its promise only.
Requests share no state, so one at a time is enough. Whoever can write to Redis may
`Alter` parts of a cached record, the unsigned fields among them, or `Replace` it by the whole
record of another event (`held` is what stands under the key, `redis` what the logger cached there).
`verify_record` never looks at the ledger; that VALID implies the event fields, hash and CID
of some ledger record rests on the signature, which nobody else can make (`SignatureValid`).

`DetectorAdapter` has one handler at a time, because no handler awaits anything; the
producer's thread (`Deliver`, `DeliverUnacked`, `TimeOut`), a stop and a kill fall
between any two of its steps. `queue` is librdkafka's, with room for
`QueueLimit` messages, and `topic` counts how often each message arrived.

`EventPipeline` joins the two through the topic: what the adapter's producer delivers is
what the loggers poll, and the adapter's count of a message is read off the logger's topic, so
that the two modules' actions are composed as they are. Only the rebalance faults of the
logger are let in; its own runs have the others.

`Deployment` is the set-up of `run.py` as a sequence of steps `pc`, each of which first looks at what
is there: files and volumes (`orderer`, `peer`, `synced`), and a file may be left half written.
The agent's key and certificate are created empty and then written (`OpenKey`, `WriteKey`, `OpenCert`,
`WriteCert`, as `write_bytes` does), and only their existence counts for the next run.
Channels are numbered, since one created again under the old
name has another ledger; that is what the block file cannot tell. `LiveRun` extends it to
the whole of `main`: the three services it launches and waits for, the demo's steps and Ctrl+C. A
process is the run's `own`, `left` by an earlier one or `stopping` after a SIGTERM
nobody waits for. A logger remembers which key it once loaded, and whether it found a certificate
with it (`Loaded`): an empty certificate costs the event that loads it, and the events after it are signed
without an identity. `newest` is who signed the newest cached record of the asset the demo asks for.
Losses and teardowns happen between runs, crashes anywhere. `Launch` finds
no API still `stopping`, because `start_docker_stack` slept 30 s before (`--skip-docker` does not).

`LivePipeline` has several runs of `run_pipeline` in one directory, on an
instance of `SecurityLogger`. `aes_key` is the run whose key the file
holds, and 0 between the opening and the writing of `write_bytes`. Package
`<<n, 1>>` is run n's encrypted payload, `<<n, 2>>` the one its fallback encrypts again.
The benchmark's runs (`bench`) are new events under the key its process loaded first, and do not
retrieve what they stored. `EvidenceAudit` adds one audit: a query of the ledger at any
moment, and then one record after the other. The benchmark's integrity test is the same audit of a
whole asset, after its own events.

A definition named `Operation_Variant` is that operation with a plausible mistake:
each property comes with one that breaks it. No specification uses them.

## What TLC checks

| run | instance | what it shows |
|---|---|---|
| `chaincode` (8 281 states) | 2 ids, 3 transactions, 2 organisations, 2 assets and severities | Trail (`ImplementsTrail`), valid transactions stay and are shown (`ValidTxKept`), invalid ones were duplicates (`InvalidOnlyIfTaken`), one authorised writer each (`Provenance`), queries only grow (`HistoryNeverShrinks`) |
| `logger_group` (892 741) | 2 workers, 2 messages that may share an id, 2 crashes or lost partitions, Fabric and Redis faults | `NoSilentLoss`, `RedisMirrorsLedger`, `LedgerIsTrail`, `CommittedNeverRegresses` |
| `logger_services` (188 105) | 1 message, 2 attempts, 1 crash, every service fault | `IndexMatchesLedger`, `EvidenceRetrievable`, `KeepsStore`; `EventuallyDone`: no fault blocks the group |
| `event_pipeline` (182 179) | 1 request of up to 2 events, a queue of 1, 2 workers, 1 attempt, 1 rebalance, 1 fault of the adapter's (refusal, lost acknowledgement, kill) | `AcceptedIsQueryable`: an accepted event ends up queryable; `LoggedWasAccepted`: nothing the adapter rejected is on the ledger |
| `audit_api` (1 970 491) | 3 events of one asset, page sizes 0, 1, 2, report limit 1, up to 3 alterations of a record, its replacement among them | `AnswerIsSound`, `AnswerIsComplete`, `ValidIsGenuine`, `GenuineIsNotRefuted` |
| `live_run` (219 106) | every sequence of 2 of 10 kinds of fault, 3 channels, 3 key pairs | `ServedByLiveLedger`, `CachedRecordsVerify`, `AgentPairIsKept`, `LiveLedgerIsKept`; `RerunConverges`: repeated runs get there; `SampleIsSettled`: an accepted sample is logged or dead-lettered |
| `detector` (94 711) | 2 requests, batches up to 3, a queue of 2, 2 faults of 5 kinds | `AcceptedIsKept`, `RejectedIsNotForwarded`, `ForwardedOnce`, `AnsweredBatchIsSettled`, `EventuallyForwarded` |
| `live_pipeline` (1 698 024) | 3 runs, 2 at once, 2 event ids, 1 audit, 1 fault | `RecordsPassIntegrity`, `EvidenceDecrypts`, `SuccessIsLogged`, `AuditAgreesWithRuns` |

Four runs are expected to fail. Each shows one statement of the repository that the
code does not keep (quoted in `findings`):

- `logger_contract`: the chaincode has no function `LogEvent`, so every event
  is dead-lettered and its offset committed, against the comment in `config.py` on
  offsets. All other runs of the logger give the contract that function
  (`ContractWithLogEvent`, with `LogSecurityEvent`'s behaviour), as otherwise nothing
  after the submission is ever reached. `event_pipeline` and `live_run` do the same, by their constant
  `ContractFunctions`, and `RerunConverges` is stated for such a contract: with the repository's, every
  sample is dead-lettered, and the demo exits at `run.py:950` unless an earlier channel left records in Redis.
- `logger_key_fault`: if the certificate cannot be read just after the key was, the
  retry skips loading it and logs a record without an identity, which never verifies.
- `logger_redis_fault`: a Redis failure after the commit makes every retry a
  duplicate; the record never reaches Redis.
- `audit_report`: the report for a period counts the records of all periods.

### Bounds

All are constants. `MaxTopic`, `MaxRequests`, `MaxBatch`, `MaxEvents`, `MaxRuns`, `MaxAtOnce`, `MaxChannels`
and `MaxPairs` bound what the environment starts; `MaxFaults` (`MaxDetectorFaults` for the adapter inside
`EventPipeline`) the crashes and rebalances of
the logger and all faults elsewhere (service failures of the logger are
bounded by `MaxRetries`, as every one ends an attempt); `Alterable` and `MaxAlterations` what is
altered. `MaxParses` is not a limit but a consequence: a message is parsed at
most `MaxRetries` times per delivery; `EventuallyDone` would fail if it blocked a worker.
Two workers and two messages are where fencing, redelivery and duplicate
ids first meet, two attempts where a retry meets what the first attempt left. A queue shorter than a
batch meets rejection in the middle of one. Three runs of the live pipeline are a race
of two and a third that repeats one of them.
In `live_run` two faults let a run be interrupted and the repair be interrupted, or leave services
behind and then lose the ledger below them. With three, its invariants still hold (1 737 837
states), but with liveness that takes too long to be a run.
In `event_pipeline` a batch longer than the queue, a message that arrives twice and a partition that moves
while it is processed come together; attempts, services and ids that collide are
`logger_group`'s and `logger_services`'.
Events of the live pipeline are numbered in the order of their first runs, which loses nothing, as
they are interchangeable.
Workers are interchangeable in `logger_group` and transactions in `chaincode`;
neither run checks liveness.

### Fairness

- `BlockchainLogger`: a worker's own steps, including its restart (Kubernetes restarts the pods
  and keeps several replicas; `docker-compose.yml` and `run.py` do not restart, so under them the
  liveness results need an operator), the coordinator's assignment, and Fabric's commit
  of a transaction a worker waits for. Nothing is assumed of faults, nor of
  transactions nobody waits for.
- `LiveRun`: the operator repeats a failed run, processes go on, a logger that is up takes the
  sample in the end, and the peer fetches blocks. Nothing is assumed of faults or of Ctrl+C.
- `DetectorAdapter`: the event loop runs the handler, the producer thread sends what is
  queued, a stopping process stops. No restart.
- `EventPipeline`: what both modules assume, and no more.
- `LivePipeline` and `EvidenceAudit`: nothing, as only safety is checked.

### Conditions built into properties

A property names the faults it does not hold under, and TLC refutes it without them:
`NoSilentLoss` needs a dead-letter topic that accepts messages (`_send_to_dlq` ignores what
was not delivered); `EvidenceRetrievable` needs `IPFS_PIN`; `ServedByLiveLedger` excludes
an orderer that answers NOT_FOUND or cannot be asked and a peer volume that stays;
`RerunConverges` excludes commands killed half way, failed queries and volumes that stay,
after which `run.py` has no way on (the channel exists and its block file does not, so
`create` is refused for ever). One of these is the writing of `agent.pem`: killed when it has
created the file, a run leaves it empty, line 521 takes it for a certificate from then on, and nothing that
is logged verifies; `CachedRecordsVerify` excepts that state (`agent_pem = Empty`). These, and the
properties about services, exclude `--skip-docker` on top of a set-up that is not complete;
`SampleIsSettled` also excepts services that die by themselves;
`AuditAgreesWithRuns` is about queries that were answered; `AcceptedIsKept` and `EventuallyForwarded`
except kills, a broker that is away longer than `message.timeout.ms` and a missing client;
`ValidIsGenuine` is about what is signed, and about whichever event's record stands under the id;
`AnswerIsComplete` asks for the whole index with a `page_size` of 0 and for nothing with a negative one;
`ForwardedOnce` excepts lost acknowledgements, since `enable.idempotence`
is not set although `docs/architecture.md` calls the producer idempotent; `EvidenceDecrypts`
excepts two first runs that find no key file at the same time.

### Met while modelling

Behaviour that no statement of the repository contradicts, and that a user should know of:

- VALID does not say that the record is the requested event's: `verify_record` never compares `event_id` with
  the id it was asked for, so another event's whole record under the key passes all four checks
  (TLC refutes `ValidIsOfTheEvent`). Nor does it say anything of `agent_identity`, `tx_id`,
  `org_msp` and `block_number`, which nobody signs; an identity only has to be there.
- The cached `tx_id` need not be the transaction's. `_submit_to_fabric` takes the first `[...]` token of an output line
  that contains `txid`, which may be a logger's name, and makes one up (`cli-` and a hash) if
  there is none.
- An `agent.pem` that was created and not written (`run.py:559`) is never repaired by another run; it has to be deleted.
- The demo takes any record of its asset for the one it just sent: one that an earlier
  channel left in Redis is reported as found "on live ledger".
- A demo that fails leaves its three services running. The next run's APIs then cannot bind, and
  end, while `wait_for_port` is satisfied by the old ones; both loggers share the group.
- Ctrl+C stops a run's own processes only, and waits for none of them.
- `benchmark.py`'s integrity figure passes when the query failed or found nothing
  (`PassCoversReported` is what it would have to keep, and does not), and its throughput and latency
  figures cannot pass: `invoke_chaincode` sleeps three seconds in every event, against
  1000 events/s and 500 ms.
- Exit status 0 of `audit_query.py` says that records were found, not that they were intact.

## What is proved

Every invariant and action property of the runs that pass, for every value of the constants. No theorem has
hypotheses beyond the named assumptions of the modules, which TLC evaluates on each run:

- event ids, times and the like are distinct from the nil values (`NoRecordIsNoRecord`, `NoWorkerIsNoWorker`,
  `TimesAreOrdered`), bounds are numbers, fault kinds are known (`Bounds`, `BoundsArePositive`,
  `LimitsArePositive`, `RunsAreBounded`, `DetectorBounds`...);
- `RecordsAreRecords`: what `AuditStore`'s ledger may hold are records of its event ids, whose index
  keys and payloads exist. `StoreAssumptions` proves it of what the logger writes;
- `SeveritiesAreReported`: a record has one of the four severities the report asks for (the enum of
  `event_schema.py`); `PagesAreIntegers`, negative ones included.

An instance's theorems are used only behind a proof that its values satisfy its assumptions
(`LedgerAssumptions`, `AdapterAssumptions`).

None of the properties below is inductive. What each proof adds:

- `SecurityLoggerProofs`: type correctness and all five properties of the run `chaincode`,
  `ImplementsTrail` among them. `IInv` adds that every
  proposal read version 0 of its key (it passed `EventExists`), that a key's
  version is 0 exactly while it holds no record, that a valid transaction's
  record is what is stored, that a stored record has exactly one valid writer, and that an
  invalid transaction's id is taken. Then the first commit for an id raises the
  version, and every other proposal for it read 0 and becomes invalid.
- `BlockchainLoggerProofs`: `TypeOK`, `NoSilentLoss`, `RedisMirrorsLedger`, `IndexMatchesLedger`,
  `EvidenceRetrievable`, `CommittedNeverRegresses` and `LedgerIsTrail`, for any number of workers, messages,
  retries and faults. `IInv` contains the ledger's invariant (the module of `SecurityLoggerProofs` is
  instantiated, and every step of the logger is a step of the ledger or a stutter); which
  message a busy worker has in hand, and that its transaction is that
  message's (`InHand`, `OwnTransaction`); that the partition's owner is at the message
  after the committed offset (`OwnersPosition`), which is why a fenced
  worker cannot take the offset back; that whoever is about to
  commit has its message logged or dead-lettered (`AllAccounted`); that no two workers share a
  stamp (`StampsAreFresh`); and that a payload is pinned before it is submitted
  (`PinnedBeforeSubmit`).
- `AuditStoreProofs`: `KeepsStore`, the refinement `AuditApi` rests on. Beyond `IInv` it
  needs that an index never holds the event of a worker that has yet to cache it
  (`IndexBehind`), since a record is cached at most once.
- `AuditApiProofs`: `AnswerIsSound`, `AnswerIsComplete`, `ValidIsGenuine`, `GenuineIsNotRefuted`, for any
  records, page sizes and alterations. The stores only grow as far as a request is concerned
  (`Grown`: ledger records stay, index entries keep their scores), so a page read earlier is still a page of
  ledger records in order (`PageState`), and the entries before a record never get fewer
  (`BeforeGrows`). What stands under a key is some ledger record (`HeldIsLogged`), which the four checks hold
a copy to. `FoundOnce` and `TodoState` say that what was found is on no page or index still to be read,
  the report's four indexes being of different severities; `PresentIsReached`, that a record that
  was there all the time is found, still to be read, or behind a full page. That a page has no gap rests
  on `RankIsTaken`: the ranks of a finite index are 0 to its size less 1.
- `DetectorAdapterProofs`: `AcceptedIsKept`, `RejectedIsNotForwarded`, `ForwardedOnce` and
  `AnsweredBatchIsSettled`. A message is queued, on the topic or dead-lettered, in one of these places
  (`InOnePlace`), and there only if its outcome says so (`SentByOutcome`); a process without a Kafka client has an
  empty queue and is excused (`ProcessState`).
- `EventPipelineProofs`: a step of the pipeline is a step of the adapter and of the logger, or leaves
  one of them as it is (`RefinesAdapter`, `RefinesLogger`), so all of the above holds of them together.
  `LoggedWasAccepted` follows a record back to its transaction, to the message of the topic its worker had in hand
  (`LoggedFromTopic`) and to the outcome the adapter gave it. `AcceptedIsAccountedFor` goes
  forward: an accepted event is with the producer, on the topic ahead of the group's offset, dead-lettered or
  logged. TLC finds it to hold on the instance of `event_pipeline` too.
- `LiveRunProofs`: `CachedRecordsVerify`, `ServedByLiveLedger`, `AgentPairIsKept` and `LiveLedgerIsKept`, for any
  number of runs, channels, pairs and faults. `SignersState`: before there is a whole pair, or one with an
  empty certificate (`CertIsEmpty`), nothing is launched and nothing cached, and neither is ever replaced
  (`PairState`), so behind a whole pair all that signs has the file's; behind an empty certificate nothing is
  claimed. `ChannelState` and `LedgerState`: the orderer's channel is the block file's; the peer
  has it or none, unless its volume stayed; the peer is reset only while the orderer has
  no channel, unless it could not be asked; and so a channel that the orderer has and on which the chaincode is committed is the
  peer's, with the chaincode installed. That rules out what each step of the set-up, trusting what it finds,
  could run into.
- `LivePipelineProofs`: `RecordsPassIntegrity`, `EvidenceDecrypts`, `SuccessIsLogged` and, beside audits,
  `AuditAgreesWithRuns`. A run's payload is made once from a package it stored (`OwnPayload`) and its
  transaction carries it (`OwnTransaction`); unless two runs raced, whoever has a key has the file's
  (`OneKey`). An audit meets only records that pass (`AuditSound`), and what was reported
  before it asked is among those it fetches (`AuditComplete`).

Model-checked only, because TLAPS reasons about neither fairness nor `ENABLED` here: the liveness properties
`EventuallyDone`, `AcceptedIsQueryable`, `EventuallyForwarded`, `RerunConverges` and `SampleIsSettled`. So are the
four statements the code does not keep, since TLC refutes them.

## What is not modelled

- Times as durations: sleeps, timeouts and TTLs may end at any point. Metrics, logging, the
  health endpoints (`_KafkaProducer.is_healthy` is a constant, so `/healthz`
  reports a connected producer whatever happens).
- The anomaly score. As its look-up turns the severity into
  `SEVERITYLEVEL.CRITICAL`, every event is scored as if it were LOW and of an unknown cloud.
- Order of the chaincode's query results, and its chaincode event. Redis order is modelled.
- What a Fabric peer does when `_reset_peer_ledger` removes its volume and leaves its CouchDB's.
- The audit client's report, which renders what the query found, and how the REST gateway it needs, which
  is not in the repository, shows an empty answer.
- `run.py`'s lines in `/etc/hosts`, its search for binaries, its figures and its results file.
- `benchmark.py`'s figures of time and size and its custody report, which reads the ledger once more;
  `benchmark_dual.py`, which only times requests and simulations.
- The compliance-scheduler: two cron jobs request reports, log the outcome and go on to the next
  standard, keeping and changing nothing, and its spot check is a stub that only
  logs. What a report answers is `AuditApi`'s.

## Plan

Done, in this order: the ledger with its proofs; the logger, with its proofs; the store it
promises and the audit-api on top of it, with the refinement proof; the deployment; the
detector-adapter; the live pipeline; then the services and the demo on top of the deployment
(`LiveRun`), the adapter and the logger joined (`EventPipeline`), and the benchmark's events and the audit
client beside the live pipeline (`EvidenceAudit`).
Then the proofs: of the audit-api, the live pipeline and its audits, the adapter, the two services joined,
and repeated runs of `run.py`.

Next:

1. The audit-api on top of the logger itself: `KeepsStore` and `AuditApi`'s theorems joined into one
   specification whose store steps are the logger's.
2. The adapter in front of the demo: `LiveRun`'s sample through `EventPipeline` instead of its own step.

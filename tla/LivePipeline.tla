---------------------------- MODULE LivePipeline ----------------------------
(***************************************************************************)
(* live_blockchain_logger.py: run_pipeline logs one event by itself, with  *)
(* its payload encrypted under a key kept in a file beside the program.    *)
(* Several processes may run it in one directory, and a caller may repeat  *)
(* an event whose run failed.  benchmark.py logs new events with the same  *)
(* functions, one after the other in one process.  The ledger is           *)
(* SecurityLogger's; the peer command returns before the commit.           *)
(***************************************************************************)
EXTENDS Naturals, FiniteSets

CONSTANTS
    MaxEvents,  \* bound: event ids, numbered in the order of their first runs
    MaxRuns,    \* bound: runs of the pipeline
    MaxAtOnce,  \* bound: runs in progress at once
    MaxFaults,  \* bound: faults
    Faults,     \* what may go wrong, a subset of FaultKinds
    NoEvent,    \* a run that has not started
    NoPayload,  \* a run that has stored nothing
    NoRecord    \* GetState's nil

\* crash: the process ends before a step.  pki: the agent's private key is not a key.  ipfs: a request to the node fails, or its answer is lost.
\* fabric: the peer command fails, or cannot be started.
FaultKinds == {"crash", "pki", "ipfs", "fabric", "gateway"}

Events == 1 .. MaxEvents

Runs == 1 .. MaxRuns

\* A run encrypts its payload, and once more (under a new nonce) for the fallback.
Packages == Runs \X {1, 2}

\* A CID is a package's own or "sha256:" followed by its hash.  Identity and signature
\* make no difference to what follows and are left out.
Payloads == [ipfs_cid : [hash_only : BOOLEAN, package : Packages], payload_hash : Packages]

ASSUME RunsAreBounded ==
    /\ MaxEvents \in Nat /\ MaxRuns \in Nat /\ MaxAtOnce \in Nat /\ MaxFaults \in Nat /\ Faults \subseteq FaultKinds
    /\ NoEvent \notin Events /\ NoPayload \notin Payloads

VARIABLES
    aes_exists,  \* the key file is there
    aes_key,     \* the run whose key it holds, 0 while it is empty
    raced,       \* history: two runs found no key file at once
    run,         \* the state of each run
    ipfs,        \* packages on the node, which pins what it adds
    world, version, txs,   \* the ledger; a run's transaction has its number
    budget       \* faults left

key_vars == <<aes_exists, aes_key, raced>>
fabric_vars == <<world, version, txs>>
vars == <<key_vars, run, ipfs, fabric_vars, budget>>

Fabric == INSTANCE SecurityLogger
              WITH EventIds <- Events, Assets <- {"vm-prod-01"}, Severities <- {"HIGH"},
                   Times <- {1}, NoTime <- 0, Msps <- {"Org1MSP"},
                   AuthorizedMsp <- "Org1MSP", TxIds <- Runs

ASSUME NoRecordIsNoRecord == NoRecord \notin Fabric!Records

Steps == {"idle", "load_key", "generate", "write_key", "sign", "invoke", "query",
          "retrieve", "ok", "failed", "dead"}

\* dead: an exception or a signal ended the process.
Ended == {"ok", "failed", "dead"}

\* In particular no run gets beyond the encryption without a whole key.
TypeOK ==
    /\ aes_exists \in BOOLEAN /\ aes_key \in 0 .. MaxRuns /\ raced \in BOOLEAN
    /\ run \in [Runs -> [pc : Steps, event : Events \cup {NoEvent}, bench : BOOLEAN,
                         key : 0 .. MaxRuns, payload : Payloads \cup {NoPayload}]]
    /\ \A n \in Runs : run[n].pc \in {"invoke", "query", "retrieve", "ok", "failed"} =>
                           run[n].key # 0 /\ run[n].payload \in Payloads
    /\ ipfs \subseteq Packages
    /\ Fabric!TypeOK
    /\ budget \in 0 .. MaxFaults

Init ==
    /\ aes_exists = FALSE /\ aes_key = 0 /\ raced = FALSE
    /\ run = [n \in Runs |-> [pc |-> "idle", event |-> NoEvent, bench |-> FALSE,
                              key |-> 0, payload |-> NoPayload]]
    /\ ipfs = {}
    /\ Fabric!Init
    /\ budget = MaxFaults

-----------------------------------------------------------------------------
(* Helpers.  A definition named Operation_Variant is the operation with a  *)
(* plausible mistake; no specification uses it.                            *)

Fault(kind) ==
    /\ kind \in Faults /\ budget > 0
    /\ budget' = budget - 1

Goto(n, pc) == run' = [run EXCEPT ![n].pc = pc]

Record(n) ==
    [event_id |-> run[n].event, cloud_asset_id |-> "vm-prod-01", severity |-> "HIGH",
     timestamp |-> 1, payload |-> run[n].payload]

Logged == {world[e] : e \in Events} \ {NoRecord}

\* The runs are numbered in the order in which they start.
MayStart(n) ==
    /\ run[n].pc = "idle" /\ \A m \in 1 .. n - 1 : run[m].pc # "idle"
    /\ Cardinality({m \in 1 .. n - 1 : run[m].pc \notin Ended}) < MaxAtOnce

Used == {run[n].event : n \in Runs}

Fresh(e) == e \notin Used /\ 1 .. e - 1 \subseteq Used

BenchRuns == {n \in Runs : run[n].bench}

\* The benchmark's last event so far.
LastBench(n) == n \in BenchRuns /\ \A m \in BenchRuns : m <= n

\* run_pipeline is called, for a new event or one that was tried before.
Start(n, e) ==
    /\ MayStart(n)
    /\ \A m \in BenchRuns : run[m].event # e
    /\ Fresh(e) \/ e \in Used
    /\ run' = [run EXCEPT ![n].pc = "load_key", ![n].event = e]
    /\ UNCHANGED <<key_vars, ipfs, fabric_vars, budget>>

\* run_throughput_latency_test: its events are all new...
StartBench(n, e) ==
    /\ MayStart(n) /\ BenchRuns = {} /\ Fresh(e)
    /\ run' = [run EXCEPT ![n].pc = "load_key", ![n].event = e, ![n].bench = TRUE]
    /\ UNCHANGED <<key_vars, ipfs, fabric_vars, budget>>

\* ... and it goes on with the next one, whether the last succeeded or not, under the
\* key it loaded at the start.
NextBench(n, e) ==
    /\ MayStart(n) /\ Fresh(e)
    /\ \E last \in BenchRuns :
           /\ LastBench(last) /\ run[last].pc \in {"ok", "failed"}
           /\ run' = [run EXCEPT ![n].pc = "sign", ![n].event = e, ![n].bench = TRUE,
                                 ![n].key = run[last].key]
    /\ UNCHANGED <<key_vars, ipfs, fabric_vars, budget>>

Crash(n) ==
    /\ run[n].pc \notin Ended \cup {"idle"}
    /\ Fault("crash")
    /\ Goto(n, "dead")
    /\ UNCHANGED <<key_vars, ipfs, fabric_vars>>

-----------------------------------------------------------------------------
(* load_or_create_aes_key.                                                 *)

LoadKey_AlwaysNew(n) ==
    /\ run[n].pc = "load_key"
    /\ Goto(n, "generate")
    /\ raced' = (raced \/ \E m \in Runs : run[m].pc = "generate")
    /\ UNCHANGED <<aes_exists, aes_key, ipfs, fabric_vars, budget>>

\* Nothing removes the file, so it may be looked for and read in one step.
LoadKey(n) ==
    /\ run[n].pc = "load_key"
    /\ IF aes_exists
       THEN /\ run' = [run EXCEPT ![n].pc = "sign", ![n].key = aes_key]
            /\ UNCHANGED raced
       ELSE /\ Goto(n, "generate")
            /\ raced' = (raced \/ \E m \in Runs : run[m].pc = "generate")
    /\ UNCHANGED <<aes_exists, aes_key, ipfs, fabric_vars, budget>>

\* write_bytes opens the file, which creates or truncates it...
OpenKey(n) ==
    /\ run[n].pc = "generate"
    /\ aes_exists' = TRUE /\ aes_key' = 0
    /\ Goto(n, "write_key")
    /\ UNCHANGED <<raced, ipfs, fabric_vars, budget>>

\* ... and then writes the key to it.
WriteKey(n) ==
    /\ run[n].pc = "write_key"
    /\ aes_key' = n
    /\ run' = [run EXCEPT ![n].pc = "sign", ![n].key = n]
    /\ UNCHANGED <<aes_exists, raced, ipfs, fabric_vars, budget>>

-----------------------------------------------------------------------------
(* get_signer and store_off_chain_ipfs_encrypted.                          *)

\* A key file that is not a key raises, once in a process; what happens without a key
\* or a certificate, as with both, changes only the identity and the signature.
SignFails(n) ==
    /\ run[n].pc = "sign"
    /\ run[n].bench => \A m \in BenchRuns : n <= m
    /\ Fault("pki")
    /\ Goto(n, "dead")
    /\ UNCHANGED <<key_vars, ipfs, fabric_vars>>

Stored(n, hash_only, i, hash) ==
    run' = [run EXCEPT ![n].pc = "invoke",
                       ![n].payload = [ipfs_cid |-> [hash_only |-> hash_only, package |-> <<n, i>>],
                                       payload_hash |-> <<n, hash>>]]

\* An empty key is refused by the cipher, and refused again by the fallback.
EncryptFails(n) ==
    /\ run[n].pc = "sign" /\ run[n].key = 0
    /\ Goto(n, "dead")
    /\ UNCHANGED <<key_vars, ipfs, fabric_vars, budget>>

Upload_BeforeCheck(n) ==
    /\ run[n].pc = "sign"
    /\ ipfs' = ipfs \cup {<<n, 1>>}
    /\ Stored(n, FALSE, 1, 1)
    /\ UNCHANGED <<key_vars, fabric_vars, budget>>

Upload(n) ==
    /\ run[n].pc = "sign" /\ run[n].key # 0
    /\ ipfs' = ipfs \cup {<<n, 1>>}
    /\ Stored(n, FALSE, 1, 1)
    /\ UNCHANGED <<key_vars, fabric_vars, budget>>

UploadFails_OldHash(n) ==
    /\ run[n].pc = "sign" /\ run[n].key # 0
    /\ Fault("ipfs")
    /\ ipfs' \in {ipfs, ipfs \cup {<<n, 1>>}}
    /\ Stored(n, TRUE, 2, 1)
    /\ UNCHANGED <<key_vars, fabric_vars>>

\* The payload is encrypted again and only its hash is kept, although the node may
\* have the first package.
UploadFails(n) ==
    /\ run[n].pc = "sign" /\ run[n].key # 0
    /\ Fault("ipfs")
    /\ ipfs' \in {ipfs, ipfs \cup {<<n, 1>>}}
    /\ Stored(n, TRUE, 2, 2)
    /\ UNCHANGED <<key_vars, fabric_vars>>

-----------------------------------------------------------------------------
(* invoke_chaincode.                                                       *)

Endorsed(n) == Fabric!LogSecurityEvent(n, "Org1MSP", Record(n), 1)

Invoke(n) ==
    /\ run[n].pc = "invoke"
    /\ Endorsed(n)
    /\ Goto(n, "query")
    /\ UNCHANGED <<key_vars, ipfs, budget>>

\* The chaincode refuses an id it holds; or the command fails, before the transaction
\* was submitted or after it; or there is no such command, which nothing catches.
InvokeFails(n) ==
    /\ run[n].pc = "invoke"
    /\ \/ /\ Fabric!EventExists(run[n].event) /\ Goto(n, "failed")
          /\ UNCHANGED <<fabric_vars, budget>>
       \/ /\ Fault("fabric")
          /\ \/ \E end \in {"failed", "dead"} : Goto(n, end) /\ UNCHANGED fabric_vars
             \/ Endorsed(n) /\ Goto(n, "failed")
    /\ UNCHANGED <<key_vars, ipfs>>

FabricCommit(n) ==
    /\ Fabric!Commit(n)
    /\ UNCHANGED <<key_vars, run, ipfs, budget>>

\* The benchmark is content with the ledger's record.
Found(n) == IF run[n].bench THEN "ok" ELSE "retrieve"

Query_Unchecked(n) ==
    /\ run[n].pc = "query"
    /\ Goto(n, Found(n))
    /\ UNCHANGED <<key_vars, ipfs, fabric_vars, budget>>

\* Three seconds later, whether the transaction is committed by then or not.
Query(n) ==
    /\ run[n].pc = "query"
    /\ \/ /\ Goto(n, IF Fabric!EventExists(run[n].event) THEN Found(n) ELSE "failed")
          /\ UNCHANGED budget
       \/ Fault("fabric") /\ Goto(n, "failed")
    /\ UNCHANGED <<key_vars, ipfs, fabric_vars>>

\* The run fetches its own package and decrypts it with the key it still holds, so
\* only the comparison of the ids decides; what cannot be fetched is let pass.
Retrieve(n) ==
    /\ run[n].pc = "retrieve"
    /\ LET matches == \E r \in Logged : r.event_id = run[n].event IN
         \/ /\ Goto(n, IF run[n].payload.ipfs_cid.hash_only \/ matches THEN "ok" ELSE "failed")
            /\ UNCHANGED budget
         \/ Fault("ipfs") /\ Goto(n, "ok")
    /\ UNCHANGED <<key_vars, ipfs, fabric_vars>>

RunStep(n) ==
    \/ LoadKey(n) \/ OpenKey(n) \/ WriteKey(n)
    \/ SignFails(n) \/ EncryptFails(n) \/ Upload(n) \/ UploadFails(n)
    \/ Invoke(n) \/ InvokeFails(n) \/ Query(n) \/ Retrieve(n)

Next ==
    \E n \in Runs :
        \/ \E e \in Events : Start(n, e) \/ StartBench(n, e) \/ NextBench(n, e)
        \/ RunStep(n) \/ Crash(n) \/ FabricCommit(n)

Spec == Init /\ [][Next]_vars

-----------------------------------------------------------------------------
(* Properties.                                                             *)

\* audit_query.py's verify_ipfs_integrity, while the node answers.
IpfsIntegrity(payload) ==
    /\ payload.ipfs_cid.package = payload.payload_hash
    /\ payload.ipfs_cid.hash_only \/ payload.ipfs_cid.package \in ipfs

\* Every record on the ledger passes that check, whichever of the attempts at an event
\* got there and whether its upload, or only the answer to it, had failed.
RecordsPassIntegrity == \A r \in Logged : IpfsIntegrity(r.payload)

\* The evidence behind every record can be decrypted with the key file, through
\* crashes and repetitions, unless two first runs found no key at once.
EvidenceDecrypts ==
    ~raced => \A r \in Logged :
        ~r.payload.ipfs_cid.hash_only => run[r.payload.ipfs_cid.package[1]].key = aes_key

\* A run that reports success has its event on the ledger, and under its own evidence
\* unless another run carried the same id.
SuccessIsLogged ==
    \A n \in Runs : run[n].pc = "ok" =>
        /\ Fabric!EventExists(run[n].event)
        /\ (\A m \in Runs \ {n} : run[m].event # run[n].event) =>
               Fabric!VerifyEvent(run[n].event).payload = run[n].payload
=============================================================================

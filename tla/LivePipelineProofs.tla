------------------------- MODULE LivePipelineProofs -------------------------
(***************************************************************************)
(* The live pipeline's safety guarantees, for any number of events, runs,  *)
(* faults and fault kinds.  The ledger part rests on the theorems of       *)
(* SecurityLoggerProofs, instantiated for the pipeline's ledger; the rest  *)
(* is two arguments.  A run's payload is made once, from the package that  *)
(* the run itself stored, and its transaction carries exactly that.  And   *)
(* unless two runs found no key file at once, the file's first content is  *)
(* its only one.                                                           *)
(*                                                                         *)
(* The last section adds the audits: an audit's step does nothing to the   *)
(* pipeline but use up a fault, so the invariant holds beside it, and the  *)
(* audit meets no record that does not pass.                               *)
(***************************************************************************)
EXTENDS EvidenceAudit, TLAPS

Ledger == INSTANCE SecurityLoggerProofs
              WITH EventIds <- Events, Assets <- {"vm-prod-01"}, Severities <- {"HIGH"},
                   Times <- {1}, NoTime <- 0, Msps <- {"Org1MSP"},
                   AuthorizedMsp <- "Org1MSP", TxIds <- Runs

USE RunsAreBounded, NoRecordIsNoRecord

-----------------------------------------------------------------------------
(* The definitions LivePipeline takes from SecurityLogger are those the     *)
(* ledger's theorems are about.                                            *)

\* The ledger's records are the same under both instances.
LEMMA SameRecords ==
    /\ Fabric!Records = Ledger!Records
    /\ Fabric!StoredRecords = Ledger!StoredRecords
BY DEF Fabric!Records, Ledger!Records, Fabric!StoredRecords, Ledger!StoredRecords

\* What SecurityLogger assumes of its constants holds of the values it is given.
LEMMA LedgerAssumptions ==
    /\ NoRecord \notin Ledger!Records
    /\ {1} \subseteq Nat /\ 0 \notin {1}
    /\ "Org1MSP" \in {"Org1MSP"}
BY SameRecords

\* So is its type invariant,
LEMMA SameType == Fabric!TypeOK <=> Ledger!TypeOK
BY SameRecords DEF Fabric!TypeOK, Ledger!TypeOK, Fabric!Tx, Ledger!Tx,
   Fabric!Statuses, Ledger!Statuses

\* its initial state,
LEMMA SameInit == Fabric!Init <=> Ledger!Init
BY DEF Fabric!Init, Ledger!Init, Fabric!NoTx, Ledger!NoTx

\* the endorsement of a proposal,
LEMMA SameLogSecurityEvent ==
    ASSUME NEW t, NEW msp, NEW r, NEW time
    PROVE  Fabric!LogSecurityEvent(t, msp, r, time) <=> Ledger!LogSecurityEvent(t, msp, r, time)
BY DEF Fabric!LogSecurityEvent, Ledger!LogSecurityEvent, Fabric!EventExists, Ledger!EventExists,
       Fabric!Timestamped, Ledger!Timestamped

\* and the validation of a transaction.
LEMMA SameCommit ==
    ASSUME NEW t
    PROVE  Fabric!Commit(t) <=> Ledger!CommitValid(t) \/ Ledger!CommitInvalid(t)
BY DEF Fabric!Commit, Fabric!CommitValid, Ledger!CommitValid, Fabric!CommitInvalid,
       Ledger!CommitInvalid, Fabric!ReadSetCurrent, Ledger!ReadSetCurrent

-----------------------------------------------------------------------------
(* The inductive invariant.                                                *)

\* A run that has not started has no event and no key, and one that has not encrypted
\* its payload has none.
Unstarted ==
    \A n \in Runs :
        /\ run[n].pc # "idle" => run[n].event \in Events
        /\ run[n].pc = "idle" => run[n].key = 0
        /\ run[n].pc \in {"idle", "load_key", "generate", "write_key", "sign"} =>
               run[n].payload = NoPayload

\* A payload is the run's own, made under its key, hashed from the package its CID
\* names, which is on the node unless only the hash was kept.
OwnPayload ==
    \A n \in Runs : run[n].payload # NoPayload =>
        /\ run[n].payload.ipfs_cid.package[1] = n
        /\ run[n].key # 0
        /\ IpfsIntegrity(run[n].payload)

\* A run's transaction carries the record the run still holds.
OwnTransaction ==
    \A n \in Runs : txs[n].status # "none" =>
        /\ run[n].pc \in {"query", "retrieve"} \cup Ended
        /\ txs[n].rec = Record(n)

\* A run gets past the query only once its event is on the ledger.
PastQuery ==
    \A n \in Runs : run[n].pc \in {"retrieve", "ok"} => Fabric!EventExists(run[n].event)

\* No run holds a key before there is a key file.
KeyNeedsFile ==
    /\ ~aes_exists => aes_key = 0 /\ \A n \in Runs : run[n].key = 0
    /\ \A n \in Runs : run[n].pc = "write_key" => aes_exists

\* One run at most makes a key, and every key a run holds is the file's.
OneKey ==
    ~raced =>
        /\ \A m, n \in Runs :
             run[m].pc \in {"generate", "write_key"} /\ run[n].pc \in {"generate", "write_key"}
                 => m = n
        /\ \A n \in Runs : run[n].pc = "generate" => ~aes_exists
        /\ \A n \in Runs : run[n].pc = "write_key" => aes_key = 0
        /\ \A n \in Runs : run[n].key # 0 => run[n].key = aes_key

IInv ==
    /\ TypeOK
    /\ Ledger!IInv
    /\ Unstarted
    /\ OwnPayload
    /\ OwnTransaction
    /\ PastQuery
    /\ KeyNeedsFile
    /\ OneKey

-----------------------------------------------------------------------------
(* The ledger.                                                             *)

\* What a run in progress offers to the chaincode is one of its records.
LEMMA RecordIsRecord ==
    ASSUME TypeOK, Unstarted, NEW n \in Runs, run[n].pc # "idle",
           run[n].payload \in Payloads
    PROVE  Record(n) \in Ledger!Records /\ Record(n).timestamp = 1
BY DEF Unstarted, Record, Ledger!Records

\* Every step is a step of the ledger or leaves it alone.
LEMMA LedgerStep ==
    ASSUME TypeOK, Unstarted, Next
    PROVE  [Ledger!Next]_Ledger!vars
<1>1. ASSUME NEW n \in Runs, run[n].pc = "invoke", Endorsed(n)
      PROVE  Ledger!Next
  <2>1. Ledger!LogSecurityEvent(n, "Org1MSP", Record(n), 1)
    BY <1>1, SameLogSecurityEvent DEF Endorsed
  <2>2. Record(n) \in Ledger!Records
    BY <1>1, RecordIsRecord DEF TypeOK
  <2> QED
    BY <2>1, <2>2 DEF Ledger!Next
<1>2. ASSUME NEW n \in Runs, FabricCommit(n)
      PROVE  Ledger!Next
  BY <1>2, SameCommit DEF FabricCommit, Ledger!Next
<1>3. ASSUME NEW n \in Runs, InvokeFails(n)
      PROVE  Ledger!Next \/ UNCHANGED fabric_vars
  BY <1>1, <1>3 DEF InvokeFails
<1>4. ASSUME NEW n \in Runs, Invoke(n)
      PROVE  Ledger!Next
  BY <1>1, <1>4 DEF Invoke
<1>5. (\A n \in Runs : ~Invoke(n) /\ ~InvokeFails(n) /\ ~FabricCommit(n))
        => UNCHANGED fabric_vars
  BY DEF Next, RunStep, Start, StartBench, NextBench, Crash, LoadKey, OpenKey, WriteKey,
         SignFails, EncryptFails, Upload, UploadFails, Query, Retrieve
<1>6. UNCHANGED fabric_vars => UNCHANGED Ledger!vars
  BY DEF fabric_vars, Ledger!vars
<1> QED
  BY <1>2, <1>3, <1>4, <1>5, <1>6

\* A step keeps the ledger's invariant and its records.
LEMMA LedgerKept ==
    ASSUME TypeOK, Unstarted, Ledger!IInv, Next
    PROVE  /\ Ledger!IInv'
           /\ Fabric!TypeOK'
           /\ \A e \in Events : world[e] # NoRecord => world'[e] = world[e]
<1>1. [Ledger!Next]_Ledger!vars
  BY LedgerStep
<1>2. Ledger!IInv'
  BY <1>1, Ledger!NextIInv, LedgerAssumptions
<1>3. Fabric!TypeOK'
  BY <1>2, SameRecords DEF Ledger!IInv, Fabric!TypeOK, Ledger!TypeOK, Fabric!Tx, Ledger!Tx,
     Fabric!Statuses, Ledger!Statuses
<1>4. \A e \in Events : world[e] # NoRecord => world'[e] = world[e]
  <2>1. [Ledger!Trail!Next]_world
    BY <1>1, Ledger!StepAppendsOrStutters, LedgerAssumptions
  <2>2. world \in [Events -> Ledger!StoredRecords \cup {NoRecord}]
    BY DEF Ledger!IInv, Ledger!TypeOK
  <2> QED
    BY <2>1, <2>2 DEF Ledger!Trail!Next, Ledger!Trail!Append
<1> QED
  BY <1>2, <1>3, <1>4

-----------------------------------------------------------------------------
(* Type correctness.                                                       *)

RunState == [pc : Steps, event : Events \cup {NoEvent}, bench : BOOLEAN,
             key : 0 .. MaxRuns, payload : Payloads \cup {NoPayload}]

\* A run that only moves keeps everything else, and the other runs are left alone.
LEMMA GotoEffect ==
    ASSUME TypeOK, NEW n \in Runs, NEW pc \in Steps, Goto(n, pc)
    PROVE  /\ run' \in [Runs -> RunState]
           /\ \A m \in Runs :
                /\ run'[m].pc = IF m = n THEN pc ELSE run[m].pc
                /\ run'[m].event = run[m].event
                /\ run'[m].bench = run[m].bench
                /\ run'[m].key = run[m].key
                /\ run'[m].payload = run[m].payload
BY DEF Goto, TypeOK, RunState

Made(n, hash_only, i, hash) ==
    [ipfs_cid |-> [hash_only |-> hash_only, package |-> <<n, i>>],
     payload_hash |-> <<n, hash>>]

\* A run that has made its payload goes to the peer with it.
LEMMA StoredEffect ==
    ASSUME TypeOK, NEW n \in Runs, NEW hash_only \in BOOLEAN, NEW i \in {1, 2},
           NEW hash \in {1, 2}, Stored(n, hash_only, i, hash)
    PROVE  /\ Made(n, hash_only, i, hash) \in Payloads
           /\ run' \in [Runs -> RunState]
           /\ \A m \in Runs :
                /\ run'[m].pc = IF m = n THEN "invoke" ELSE run[m].pc
                /\ run'[m].event = run[m].event
                /\ run'[m].bench = run[m].bench
                /\ run'[m].key = run[m].key
                /\ run'[m].payload = IF m = n THEN Made(n, hash_only, i, hash)
                                     ELSE run[m].payload
<1>1. <<n, i>> \in Packages /\ <<n, hash>> \in Packages
  BY DEF Packages
<1>2. Made(n, hash_only, i, hash) \in Payloads
  BY <1>1 DEF Made, Payloads
<1>3. run' = [run EXCEPT ![n].pc = "invoke", ![n].payload = Made(n, hash_only, i, hash)]
  BY DEF Stored, Made
<1>4. run \in [Runs -> RunState]
  BY DEF TypeOK, RunState
<1>5. "invoke" \in Steps
  BY DEF Steps
<1> QED
  BY <1>2, <1>3, <1>4, <1>5 DEF RunState

\* A new run has its event and is not the benchmark's unless it starts or goes on with it.
LEMMA StartEffect ==
    ASSUME TypeOK, Unstarted, NEW n \in Runs, NEW e \in Events,
           Start(n, e) \/ StartBench(n, e) \/ NextBench(n, e)
    PROVE  /\ run' \in [Runs -> RunState]
           /\ run[n].pc = "idle"
           /\ \A m \in Runs \ {n} : run'[m] = run[m]
           /\ run'[n].pc \in {"load_key", "sign"} /\ run'[n].event = e
           /\ run'[n].payload = NoPayload
           /\ run'[n].key = 0 \/ \E m \in Runs : run'[n].key = run[m].key
           /\ UNCHANGED <<key_vars, ipfs, fabric_vars, budget>>
<1>1. run \in [Runs -> RunState] /\ "load_key" \in Steps /\ "sign" \in Steps
  BY DEF TypeOK, RunState, Steps
<1>2. CASE Start(n, e)
  BY <1>1, <1>2 DEF Start, MayStart, RunState, Unstarted
<1>3. CASE StartBench(n, e)
  BY <1>1, <1>3 DEF StartBench, MayStart, RunState, Unstarted
<1>4. CASE NextBench(n, e)
  <2>1. PICK last \in Runs :
            run' = [run EXCEPT ![n].pc = "sign", ![n].event = e, ![n].bench = TRUE,
                               ![n].key = run[last].key]
    BY <1>4 DEF NextBench, BenchRuns
  <2>2. run[last].key \in 0 .. MaxRuns /\ e \in Events \cup {NoEvent}
    BY <1>1 DEF RunState
  <2> DEFINE named == [run EXCEPT ![n].pc = "sign", ![n].event = e]
  <2>3. run' \in [Runs -> RunState]
    <3>1. named \in [Runs -> RunState]
      BY <1>1, <2>2 DEF RunState
    <3>2. run' = [named EXCEPT ![n].bench = TRUE, ![n].key = run[last].key]
      BY <2>1
    <3> HIDE DEF named
    <3> QED
      BY <2>2, <3>1, <3>2 DEF RunState
  <2>4. /\ \A m \in Runs \ {n} : run'[m] = run[m]
        /\ run'[n].pc = "sign" /\ run'[n].event = e /\ run'[n].key = run[last].key
        /\ run'[n].payload = run[n].payload
    BY <1>1, <2>1 DEF RunState
  <2>5. /\ run[n].pc = "idle" /\ run[n].payload = NoPayload
        /\ UNCHANGED <<key_vars, ipfs, fabric_vars, budget>>
    BY <1>4 DEF NextBench, MayStart, Unstarted
  <2> QED
    BY <2>3, <2>4, <2>5
<1> QED
  BY <1>2, <1>3, <1>4

\* LoadKey either takes the key from the file or goes to make one.
LEMMA LoadKeyEffect ==
    ASSUME TypeOK, NEW n \in Runs, LoadKey(n)
    PROVE  /\ run' \in [Runs -> RunState]
           /\ run[n].pc = "load_key"
           /\ \A m \in Runs \ {n} : run'[m] = run[m]
           /\ run'[n].event = run[n].event /\ run'[n].payload = run[n].payload
           /\ \/ /\ aes_exists /\ run'[n].pc = "sign" /\ run'[n].key = aes_key
                 /\ raced' = raced
              \/ /\ ~aes_exists /\ run'[n].pc = "generate" /\ run'[n].key = run[n].key
                 /\ raced' = (raced \/ \E m \in Runs : run[m].pc = "generate")
           /\ UNCHANGED <<aes_exists, aes_key, ipfs, fabric_vars, budget>>
<1>1. run \in [Runs -> RunState] /\ "generate" \in Steps /\ "sign" \in Steps
  BY DEF TypeOK, RunState, Steps
<1>2. CASE aes_exists
  <2>1. run' = [run EXCEPT ![n].pc = "sign", ![n].key = aes_key] /\ UNCHANGED raced
    BY <1>2 DEF LoadKey
  <2>2. aes_key \in 0 .. MaxRuns
    BY DEF TypeOK
  <2>3. run' \in [Runs -> RunState]
    BY <1>1, <2>1, <2>2 DEF RunState
  <2> QED
    BY <1>1, <1>2, <2>1, <2>3 DEF LoadKey, RunState
<1>3. CASE ~aes_exists
  <2>1. Goto(n, "generate")
    BY <1>3 DEF LoadKey
  <2>2. run' \in [Runs -> RunState]
    BY <1>1, <2>1, GotoEffect
  <2> QED
    BY <1>1, <1>3, <2>1, <2>2 DEF LoadKey, Goto, RunState
<1> QED
  BY <1>2, <1>3

\* Writing the key makes it the run's and the file's.
LEMMA WriteKeyEffect ==
    ASSUME TypeOK, NEW n \in Runs, WriteKey(n)
    PROVE  /\ run' \in [Runs -> RunState]
           /\ run[n].pc = "write_key"
           /\ \A m \in Runs \ {n} : run'[m] = run[m]
           /\ run'[n].event = run[n].event /\ run'[n].payload = run[n].payload
           /\ run'[n].pc = "sign" /\ run'[n].key = n /\ aes_key' = n
           /\ n \in 1 .. MaxRuns
           /\ UNCHANGED <<aes_exists, raced, ipfs, fabric_vars, budget>>
<1>1. run \in [Runs -> RunState] /\ "sign" \in Steps
  BY DEF TypeOK, RunState, Steps
<1>2. n \in 1 .. MaxRuns /\ n \in 0 .. MaxRuns
  BY DEF Runs
<1> QED
  BY <1>1, <1>2 DEF WriteKey, RunState

\* A run that moves on moves to a step it may be at, and past the encryption only with
\* a key and a payload.
LEMMA GotoTypeOK ==
    ASSUME TypeOK, Fabric!TypeOK', UNCHANGED <<key_vars, ipfs>>, budget' \in 0 .. MaxFaults,
           NEW n \in Runs, NEW pc \in Steps, Goto(n, pc),
           \/ run[n].pc \in {"invoke", "query", "retrieve"}
           \/ pc \in {"generate", "write_key", "dead"}
    PROVE  TypeOK'
<1>1. run' \in [Runs -> RunState]
  BY GotoEffect
<1>2. \A m \in Runs :
         run'[m].pc \in {"invoke", "query", "retrieve", "ok", "failed"} =>
             run'[m].key # 0 /\ run'[m].payload \in Payloads
  BY GotoEffect DEF TypeOK
<1> QED
  BY <1>1, <1>2 DEF TypeOK, RunState, key_vars

\* A fault takes one from the budget.
LEMMA FaultBudget ==
    ASSUME TypeOK, NEW kind, Fault(kind)
    PROVE  budget' \in 0 .. MaxFaults
BY DEF TypeOK, Fault

\* Every step keeps the types.
LEMMA TypeStep ==
    ASSUME TypeOK, Unstarted, Fabric!TypeOK', Next
    PROVE  TypeOK'
<1>0. budget \in 0 .. MaxFaults /\ {"ok", "failed", "dead", "query", "retrieve"} \subseteq Steps
  BY DEF TypeOK, Steps
<1>1. ASSUME NEW n \in Runs, NEW e \in Events,
             Start(n, e) \/ StartBench(n, e) \/ NextBench(n, e)
      PROVE  TypeOK'
  BY <1>1, StartEffect DEF TypeOK, RunState, key_vars
<1>2. ASSUME NEW n \in Runs, LoadKey(n)
      PROVE  TypeOK'
  BY <1>2, LoadKeyEffect DEF TypeOK, RunState
<1>3. ASSUME NEW n \in Runs, OpenKey(n)
      PROVE  TypeOK'
  <2>1. /\ Goto(n, "write_key") /\ "write_key" \in Steps
        /\ aes_exists' = TRUE /\ aes_key' = 0
        /\ UNCHANGED <<raced, ipfs, budget>>
    BY <1>3 DEF OpenKey, Steps
  <2>2. run' \in [Runs -> RunState]
    BY <2>1, GotoEffect
  <2>3. \A m \in Runs :
           run'[m].pc \in {"invoke", "query", "retrieve", "ok", "failed"} =>
               run'[m].key # 0 /\ run'[m].payload \in Payloads
    BY <2>1, GotoEffect DEF TypeOK
  <2> QED
    BY <2>1, <2>2, <2>3 DEF TypeOK, RunState
<1>4. ASSUME NEW n \in Runs, WriteKey(n)
      PROVE  TypeOK'
  BY <1>4, WriteKeyEffect DEF TypeOK, RunState
<1>5. ASSUME NEW n \in Runs, SignFails(n) \/ EncryptFails(n) \/ Crash(n)
      PROVE  TypeOK'
  <2>1. Goto(n, "dead") /\ UNCHANGED <<key_vars, ipfs>>
    BY <1>5 DEF SignFails, EncryptFails, Crash
  <2>2. budget' \in 0 .. MaxFaults
    BY <1>0, <1>5, FaultBudget DEF SignFails, EncryptFails, Crash
  <2> QED
    BY <1>0, <2>1, <2>2, GotoTypeOK
<1>6. ASSUME NEW n \in Runs, Upload(n) \/ UploadFails(n)
      PROVE  TypeOK'
  <2>1. PICK hash_only \in BOOLEAN, i \in {1, 2}, hash \in {1, 2} :
            Stored(n, hash_only, i, hash)
    BY <1>6 DEF Upload, UploadFails
  <2>2. /\ run[n].key # 0 /\ UNCHANGED key_vars
        /\ ipfs' \subseteq ipfs \cup {<<n, 1>>}
    BY <1>6 DEF Upload, UploadFails
  <2>3. budget' \in 0 .. MaxFaults
    BY <1>0, <1>6, FaultBudget DEF Upload, UploadFails
  <2>4. ipfs' \subseteq Packages
    BY <2>2 DEF TypeOK, Packages
  <2>5. \A m \in Runs :
           run'[m].pc \in {"invoke", "query", "retrieve", "ok", "failed"} =>
               run'[m].key # 0 /\ run'[m].payload \in Payloads
    BY <2>1, <2>2, StoredEffect DEF TypeOK
  <2> QED
    BY <2>1, <2>2, <2>3, <2>4, <2>5, StoredEffect DEF TypeOK, RunState, key_vars
<1>7. ASSUME NEW n \in Runs, Invoke(n) \/ InvokeFails(n)
      PROVE  TypeOK'
  <2>1. /\ run[n].pc = "invoke" /\ UNCHANGED <<key_vars, ipfs>>
        /\ \E pc \in {"query", "failed", "dead"} : Goto(n, pc)
    BY <1>7 DEF Invoke, InvokeFails
  <2>2. budget' \in 0 .. MaxFaults
    BY <1>0, <1>7, FaultBudget DEF Invoke, InvokeFails
  <2> QED
    BY <1>0, <2>1, <2>2, GotoTypeOK
<1>8. ASSUME NEW n \in Runs, Query(n) \/ Retrieve(n)
      PROVE  TypeOK'
  <2>1. /\ run[n].pc \in {"query", "retrieve"} /\ UNCHANGED <<key_vars, ipfs>>
        /\ \E pc \in {"retrieve", "failed", "ok"} : Goto(n, pc)
    BY <1>8 DEF Query, Found, Retrieve
  <2>2. budget' \in 0 .. MaxFaults
    BY <1>0, <1>8, FaultBudget DEF Query, Retrieve
  <2> QED
    BY <1>0, <2>1, <2>2, GotoTypeOK
<1>9. ASSUME NEW n \in Runs, FabricCommit(n)
      PROVE  TypeOK'
  BY <1>9 DEF FabricCommit, TypeOK, key_vars
<1> QED
  BY <1>1, <1>2, <1>3, <1>4, <1>5, <1>6, <1>7, <1>8, <1>9 DEF Next, RunStep

-----------------------------------------------------------------------------
(* Runs and their payloads.                                                *)

\* A run that only moves on keeps its event, key and payload.
LEMMA GotoKeepsPayload ==
    ASSUME TypeOK, Unstarted, OwnPayload, UNCHANGED ipfs, NEW n \in Runs, NEW pc \in Steps,
           Goto(n, pc), run[n].pc # "idle", pc \notin {"idle", "load_key", "sign"},
           pc \in {"generate", "write_key"} => run[n].payload = NoPayload
    PROVE  Unstarted' /\ OwnPayload'
<1>1. Unstarted'
  BY GotoEffect DEF Unstarted
<1>2. OwnPayload'
  BY GotoEffect DEF OwnPayload, IpfsIntegrity
<1> QED
  BY <1>1, <1>2

\* The payload a run makes is sound if its CID names the package that was hashed and
\* the node has that package, or if only the hash is kept.
LEMMA StoredIsOwn ==
    ASSUME TypeOK, Unstarted, OwnPayload, ipfs \subseteq ipfs', NEW n \in Runs,
           NEW hash_only \in BOOLEAN, NEW i \in {1, 2}, Stored(n, hash_only, i, i),
           run[n].pc = "sign", run[n].key # 0, hash_only \/ <<n, i>> \in ipfs'
    PROVE  Unstarted' /\ OwnPayload'
<1> DEFINE payload == Made(n, hash_only, i, i)
<1>1. \A m \in Runs :
        /\ run'[m].pc = IF m = n THEN "invoke" ELSE run[m].pc
        /\ run'[m].event = run[m].event
        /\ run'[m].key = run[m].key
        /\ run'[m].payload = IF m = n THEN payload ELSE run[m].payload
  BY StoredEffect
<1>2. /\ payload.ipfs_cid.package = <<n, i>> /\ payload.ipfs_cid.package[1] = n
      /\ payload.ipfs_cid.hash_only = hash_only /\ payload.payload_hash = <<n, i>>
  BY DEF Made
<1> HIDE DEF payload
<1>3. Unstarted'
  BY <1>1 DEF Unstarted
<1>4. OwnPayload'
  <2> SUFFICES ASSUME NEW m \in Runs, run'[m].payload # NoPayload
               PROVE  /\ run'[m].payload.ipfs_cid.package[1] = m
                      /\ run'[m].key # 0
                      /\ IpfsIntegrity(run[m].payload)'
    BY DEF OwnPayload
  <2>1. CASE m = n
    BY <2>1, <1>1, <1>2 DEF IpfsIntegrity
  <2>2. CASE m # n
    BY <2>2, <1>1 DEF OwnPayload, IpfsIntegrity
  <2> QED
    BY <2>1, <2>2
<1> QED
  BY <1>3, <1>4

\* A run makes its payload from a package of its own, and keeps it.
LEMMA PayloadStep ==
    ASSUME TypeOK, Unstarted, OwnPayload, Next
    PROVE  Unstarted' /\ OwnPayload'
<1>0. {"generate", "write_key", "ok", "failed", "dead", "query", "retrieve"} \subseteq Steps
  BY DEF Steps
<1>1. ASSUME NEW n \in Runs, NEW e \in Events,
             Start(n, e) \/ StartBench(n, e) \/ NextBench(n, e)
      PROVE  Unstarted' /\ OwnPayload'
  <2>1. Unstarted'
    BY <1>1, StartEffect DEF Unstarted
  <2>2. OwnPayload'
    BY <1>1, StartEffect DEF OwnPayload, IpfsIntegrity
  <2> QED
    BY <2>1, <2>2
<1>2. ASSUME NEW n \in Runs, LoadKey(n)
      PROVE  Unstarted' /\ OwnPayload'
  <2>1. Unstarted'
    BY <1>2, LoadKeyEffect DEF Unstarted
  <2>2. run[n].payload = NoPayload
    BY <1>2, LoadKeyEffect DEF Unstarted
  <2>3. OwnPayload'
    BY <1>2, <2>2, LoadKeyEffect DEF OwnPayload, IpfsIntegrity
  <2> QED
    BY <2>1, <2>3
<1>3. ASSUME NEW n \in Runs, OpenKey(n)
      PROVE  Unstarted' /\ OwnPayload'
  <2>1. Goto(n, "write_key") /\ run[n].pc = "generate" /\ UNCHANGED ipfs
    BY <1>3 DEF OpenKey
  <2>2. run[n].payload = NoPayload
    BY <2>1 DEF Unstarted
  <2> QED
    BY <1>0, <2>1, <2>2, GotoKeepsPayload
<1>4. ASSUME NEW n \in Runs, WriteKey(n)
      PROVE  Unstarted' /\ OwnPayload'
  <2>1. Unstarted'
    BY <1>4, WriteKeyEffect DEF Unstarted
  <2>2. run[n].payload = NoPayload
    BY <1>4, WriteKeyEffect DEF Unstarted
  <2>3. OwnPayload'
    BY <1>4, <2>2, WriteKeyEffect DEF OwnPayload, IpfsIntegrity
  <2> QED
    BY <2>1, <2>3
<1>5. ASSUME NEW n \in Runs, SignFails(n) \/ EncryptFails(n) \/ Crash(n)
      PROVE  Unstarted' /\ OwnPayload'
  <2>1. Goto(n, "dead") /\ run[n].pc # "idle" /\ UNCHANGED ipfs
    BY <1>5 DEF SignFails, EncryptFails, Crash
  <2> QED
    BY <1>0, <2>1, GotoKeepsPayload
<1>6. ASSUME NEW n \in Runs, Upload(n)
      PROVE  Unstarted' /\ OwnPayload'
  <2>1. /\ Stored(n, FALSE, 1, 1) /\ run[n].pc = "sign" /\ run[n].key # 0
        /\ ipfs' = ipfs \cup {<<n, 1>>}
    BY <1>6 DEF Upload
  <2> QED
    BY <2>1, StoredIsOwn
<1>7. ASSUME NEW n \in Runs, UploadFails(n)
      PROVE  Unstarted' /\ OwnPayload'
  <2>1. /\ Stored(n, TRUE, 2, 2) /\ run[n].pc = "sign" /\ run[n].key # 0
        /\ ipfs \subseteq ipfs'
    BY <1>7 DEF UploadFails
  <2> QED
    BY <2>1, StoredIsOwn
<1>8. ASSUME NEW n \in Runs, Invoke(n) \/ InvokeFails(n)
      PROVE  Unstarted' /\ OwnPayload'
  <2>1. /\ run[n].pc = "invoke" /\ UNCHANGED ipfs
        /\ \E pc \in {"query", "failed", "dead"} : Goto(n, pc)
    BY <1>8 DEF Invoke, InvokeFails
  <2> QED
    BY <1>0, <2>1, GotoKeepsPayload
<1>9. ASSUME NEW n \in Runs, Query(n) \/ Retrieve(n)
      PROVE  Unstarted' /\ OwnPayload'
  <2>1. /\ run[n].pc \in {"query", "retrieve"} /\ UNCHANGED ipfs
        /\ \E pc \in {"retrieve", "failed", "ok"} : Goto(n, pc)
    BY <1>9 DEF Query, Found, Retrieve
  <2> QED
    BY <1>0, <2>1, GotoKeepsPayload
<1>10. ASSUME NEW n \in Runs, FabricCommit(n)
      PROVE  Unstarted' /\ OwnPayload'
  BY <1>10 DEF FabricCommit, Unstarted, OwnPayload, IpfsIntegrity
<1> QED
  BY <1>1, <1>2, <1>3, <1>4, <1>5, <1>6, <1>7, <1>8, <1>9, <1>10 DEF Next, RunStep

-----------------------------------------------------------------------------
(* Runs and the ledger.                                                    *)

Invoked == {"query", "retrieve"} \cup Ended

\* A run that has been to the peer keeps what it went there with.
LEMMA InvokedKept ==
    ASSUME TypeOK, Unstarted, Next, NEW m \in Runs, run[m].pc \in Invoked
    PROVE  run'[m].pc \in Invoked /\ Record(m)' = Record(m)
<1>0. {"write_key", "ok", "failed", "dead", "query", "retrieve"} \subseteq Steps
  BY DEF Steps
<1>1. ASSUME NEW n \in Runs, NEW pc \in Steps, Goto(n, pc), pc \in Invoked \/ n # m
      PROVE  run'[m].pc \in Invoked /\ Record(m)' = Record(m)
  BY <1>1, GotoEffect DEF Record
<1>2. ASSUME NEW n \in Runs, NEW e \in Events,
             Start(n, e) \/ StartBench(n, e) \/ NextBench(n, e)
      PROVE  run'[m] = run[m]
  BY <1>2, StartEffect DEF Invoked, Ended
<1>3. ASSUME NEW n \in Runs, LoadKey(n)
      PROVE  run'[m] = run[m]
  BY <1>3, LoadKeyEffect DEF Invoked, Ended
<1>4. ASSUME NEW n \in Runs, OpenKey(n)
      PROVE  run'[m].pc \in Invoked /\ Record(m)' = Record(m)
  BY <1>0, <1>1, <1>4 DEF OpenKey, Invoked, Ended
<1>5. ASSUME NEW n \in Runs, WriteKey(n)
      PROVE  run'[m] = run[m]
  BY <1>5, WriteKeyEffect DEF Invoked, Ended
<1>6. ASSUME NEW n \in Runs, SignFails(n) \/ EncryptFails(n) \/ Crash(n)
      PROVE  run'[m].pc \in Invoked /\ Record(m)' = Record(m)
  BY <1>0, <1>1, <1>6 DEF SignFails, EncryptFails, Crash, Invoked, Ended
<1>7. ASSUME NEW n \in Runs, Upload(n) \/ UploadFails(n)
      PROVE  run'[m] = run[m]
  <2>1. n # m
    BY <1>7 DEF Upload, UploadFails, Invoked, Ended
  <2> QED
    BY <1>7, <2>1 DEF Upload, UploadFails, Stored, TypeOK
<1>8. ASSUME NEW n \in Runs, Invoke(n) \/ InvokeFails(n) \/ Query(n) \/ Retrieve(n)
      PROVE  run'[m].pc \in Invoked /\ Record(m)' = Record(m)
  BY <1>0, <1>1, <1>8 DEF Invoke, InvokeFails, Query, Found, Retrieve, Invoked, Ended
<1>9. ASSUME NEW n \in Runs, FabricCommit(n)
      PROVE  run'[m] = run[m]
  BY <1>9 DEF FabricCommit
<1>10. run'[m] = run[m] => run'[m].pc \in Invoked /\ Record(m)' = Record(m)
  BY DEF Record
<1> QED
  BY <1>2, <1>3, <1>4, <1>5, <1>6, <1>7, <1>8, <1>9, <1>10 DEF Next, RunStep

\* A transaction is proposed by its run, with the run's record, and never changed.
LEMMA TransactionStep ==
    ASSUME TypeOK, Unstarted, Next, NEW m \in Runs, txs'[m].status # "none"
    PROVE  \/ txs[m].status # "none" /\ txs'[m].rec = txs[m].rec
           \/ /\ run[m].pc = "invoke" /\ run'[m].pc \in Invoked
              /\ txs'[m].rec = Record(m) /\ Record(m)' = Record(m)
<1>0. /\ txs \in [Runs -> Fabric!Tx]
      /\ {"query", "failed", "dead"} \subseteq Steps
  BY DEF TypeOK, Fabric!TypeOK, Steps
<1>1. ASSUME NEW n \in Runs, Invoke(n) \/ InvokeFails(n), ~UNCHANGED txs
      PROVE  /\ run[n].pc = "invoke" /\ Endorsed(n)
             /\ \E pc \in {"query", "failed"} : Goto(n, pc)
  BY <1>1 DEF Invoke, InvokeFails, fabric_vars
<1>2. ASSUME NEW n \in Runs, Endorsed(n)
      PROVE  txs' = [txs EXCEPT ![n] = [status |-> "endorsed", msp |-> "Org1MSP",
                                        rec |-> Record(n), read |-> version[run[n].event]]]
  <2>1. Fabric!Timestamped(Record(n), 1) = Record(n) /\ Record(n).event_id = run[n].event
    BY DEF Fabric!Timestamped, Record
  <2> QED
    BY <1>2, <2>1 DEF Endorsed, Fabric!LogSecurityEvent
<1>3. ASSUME NEW n \in Runs, Invoke(n) \/ InvokeFails(n), ~UNCHANGED txs, n = m
      PROVE  /\ run[m].pc = "invoke" /\ run'[m].pc \in Invoked
             /\ txs'[m].rec = Record(m) /\ Record(m)' = Record(m)
  <2>1. run'[m].pc \in Invoked /\ Record(m)' = Record(m)
    BY <1>0, <1>1, <1>3, GotoEffect DEF Invoked, Ended, Record
  <2>2. txs'[m].rec = Record(m)
    BY <1>0, <1>1, <1>2, <1>3
  <2> QED
    BY <1>1, <1>3, <2>1, <2>2
<1>4. ASSUME NEW n \in Runs, Invoke(n) \/ InvokeFails(n), ~UNCHANGED txs, n # m
      PROVE  txs'[m] = txs[m]
  BY <1>0, <1>1, <1>2, <1>4
<1>5. ASSUME NEW n \in Runs, FabricCommit(n)
      PROVE  txs[m].status # "none" /\ txs'[m].rec = txs[m].rec
  BY <1>0, <1>5 DEF FabricCommit, Fabric!Commit, Fabric!CommitValid, Fabric!CommitInvalid,
     Fabric!Tx
<1>6. (\A n \in Runs : ~Invoke(n) /\ ~InvokeFails(n) /\ ~FabricCommit(n)) => UNCHANGED txs
  BY DEF Next, RunStep, Start, StartBench, NextBench, Crash, LoadKey, OpenKey, WriteKey,
         SignFails, EncryptFails, Upload, UploadFails, Query, Retrieve, fabric_vars
<1> QED
  BY <1>3, <1>4, <1>5, <1>6

\* A run submits its own payload, as the transaction that bears its number.
LEMMA OwnTransactionStep ==
    ASSUME TypeOK, Unstarted, OwnTransaction, Next
    PROVE  OwnTransaction'
<1> SUFFICES ASSUME NEW m \in Runs, txs'[m].status # "none"
             PROVE  run'[m].pc \in Invoked /\ txs'[m].rec = Record(m)'
  BY DEF OwnTransaction, Invoked
<1>1. CASE txs[m].status # "none" /\ txs'[m].rec = txs[m].rec
  BY <1>1, InvokedKept DEF OwnTransaction, Invoked
<1>2. CASE /\ run'[m].pc \in Invoked
           /\ txs'[m].rec = Record(m) /\ Record(m)' = Record(m)
  BY <1>2
<1> QED
  BY <1>1, <1>2, TransactionStep

\* No step but the query's, with the event on the ledger, takes a run past the query.
LEMMA PastQueryStep ==
    ASSUME TypeOK, Unstarted, PastQuery, Next,
           \A e \in Events : world[e] # NoRecord => world'[e] = world[e]
    PROVE  PastQuery'
<1> SUFFICES ASSUME NEW m \in Runs, run'[m].pc \in {"retrieve", "ok"}
             PROVE  world'[run'[m].event] # NoRecord
  BY DEF PastQuery, Fabric!EventExists
<1>0. {"write_key", "ok", "failed", "dead", "query", "retrieve"} \subseteq Steps
  BY DEF Steps
<1> DEFINE Allowed == /\ run'[m].event = run[m].event /\ run[m].pc # "idle"
                      /\ run[m].pc \in {"retrieve", "ok"} \/ Fabric!EventExists(run[m].event)
<1>1. ASSUME NEW n \in Runs, NEW pc \in Steps, Goto(n, pc),
             pc \in {"retrieve", "ok"} =>
                 run[n].pc = "retrieve" \/ (run[n].pc = "query" /\ Fabric!EventExists(run[n].event))
      PROVE  Allowed
  BY <1>1, GotoEffect
<1>2. ASSUME NEW n \in Runs, NEW e \in Events,
             Start(n, e) \/ StartBench(n, e) \/ NextBench(n, e)
      PROVE  Allowed
  BY <1>2, StartEffect
<1>3. ASSUME NEW n \in Runs, LoadKey(n)
      PROVE  Allowed
  BY <1>3, LoadKeyEffect
<1>4. ASSUME NEW n \in Runs, OpenKey(n)
      PROVE  Allowed
  BY <1>0, <1>1, <1>4 DEF OpenKey
<1>5. ASSUME NEW n \in Runs, WriteKey(n)
      PROVE  Allowed
  BY <1>5, WriteKeyEffect
<1>6. ASSUME NEW n \in Runs, SignFails(n) \/ EncryptFails(n) \/ Crash(n)
      PROVE  Allowed
  BY <1>0, <1>1, <1>6 DEF SignFails, EncryptFails, Crash
<1>7. ASSUME NEW n \in Runs, Upload(n) \/ UploadFails(n)
      PROVE  Allowed
  <2>1. PICK hash_only \in BOOLEAN, i \in {1, 2}, hash \in {1, 2} :
            Stored(n, hash_only, i, hash)
    BY <1>7 DEF Upload, UploadFails
  <2> QED
    BY <2>1, StoredEffect
<1>8. ASSUME NEW n \in Runs, Invoke(n) \/ InvokeFails(n)
      PROVE  Allowed
  BY <1>0, <1>1, <1>8 DEF Invoke, InvokeFails
<1>9. ASSUME NEW n \in Runs, Query(n)
      PROVE  Allowed
  BY <1>0, <1>1, <1>9 DEF Query, Found
<1>10. ASSUME NEW n \in Runs, Retrieve(n)
      PROVE  Allowed
  BY <1>0, <1>1, <1>10 DEF Retrieve
<1>11. ASSUME NEW n \in Runs, FabricCommit(n)
      PROVE  Allowed
  BY <1>11 DEF FabricCommit
<1>12. Allowed
  BY <1>2, <1>3, <1>4, <1>5, <1>6, <1>7, <1>8, <1>9, <1>10, <1>11 DEF Next, RunStep
<1>13. run[m].event \in Events /\ world[run[m].event] # NoRecord
  BY <1>12 DEF PastQuery, Unstarted, Fabric!EventExists
<1> QED
  BY <1>12, <1>13

-----------------------------------------------------------------------------
(* The key file.                                                           *)

\* Steps that have nothing to do with the key: no run's key changes, the file does not,
\* and no run comes to the steps that make one.
LEMMA KeyAlone ==
    ASSUME KeyNeedsFile, OneKey, UNCHANGED <<aes_exists, aes_key, raced>>,
           \A m \in Runs : /\ run'[m].key = run[m].key \/ run'[m].key = 0
                                \/ \E k \in Runs : run'[m].key = run[k].key
                           /\ run'[m].pc \in {"generate", "write_key"} => run'[m].pc = run[m].pc
    PROVE  KeyNeedsFile' /\ OneKey'
<1>1. KeyNeedsFile'
  BY DEF KeyNeedsFile
<1>2. OneKey'
  <2>1. CASE raced
    BY <2>1 DEF OneKey
  <2>2. CASE ~raced
    BY <2>2 DEF OneKey
  <2> QED
    BY <2>1, <2>2
<1> QED
  BY <1>1, <1>2

\* Unless two runs raced for the file, whoever has a key has the file's.
LEMMA KeyStep ==
    ASSUME TypeOK, Unstarted, KeyNeedsFile, OneKey, Next
    PROVE  KeyNeedsFile' /\ OneKey'
<1>0. {"write_key", "ok", "failed", "dead", "query", "retrieve"} \subseteq Steps
  BY DEF Steps
<1>1. ASSUME NEW n \in Runs, NEW pc \in Steps, Goto(n, pc), UNCHANGED key_vars,
             pc \notin {"generate", "write_key"}
      PROVE  KeyNeedsFile' /\ OneKey'
  <2>1. \A m \in Runs : /\ run'[m].key = run[m].key
                        /\ run'[m].pc \in {"generate", "write_key"} => run'[m].pc = run[m].pc
    BY <1>1, GotoEffect
  <2> QED
    BY <1>1, <2>1, KeyAlone DEF key_vars
<1>2. ASSUME NEW n \in Runs, NEW e \in Events,
             Start(n, e) \/ StartBench(n, e) \/ NextBench(n, e)
      PROVE  KeyNeedsFile' /\ OneKey'
  <2>1. \A m \in Runs : /\ \/ run'[m].key = run[m].key
                           \/ run'[m].key = 0
                           \/ \E k \in Runs : run'[m].key = run[k].key
                        /\ run'[m].pc \in {"generate", "write_key"} => run'[m].pc = run[m].pc
    BY <1>2, StartEffect
  <2>2. UNCHANGED <<aes_exists, aes_key, raced>>
    BY <1>2, StartEffect DEF key_vars
  <2> QED
    BY <2>1, <2>2, KeyAlone
<1>3. ASSUME NEW n \in Runs, LoadKey(n)
      PROVE  KeyNeedsFile' /\ OneKey'
  <2>1. /\ run[n].pc = "load_key" /\ UNCHANGED <<aes_exists, aes_key>>
        /\ \A m \in Runs \ {n} : run'[m] = run[m]
    BY <1>3, LoadKeyEffect
  <2>2. CASE /\ aes_exists /\ run'[n].pc = "sign" /\ run'[n].key = aes_key
             /\ raced' = raced
    <3>1. KeyNeedsFile'
      BY <2>1, <2>2 DEF KeyNeedsFile
    <3>2. OneKey'
      BY <2>1, <2>2 DEF OneKey
    <3> QED
      BY <3>1, <3>2
  <2>3. CASE /\ ~aes_exists /\ run'[n].pc = "generate" /\ run'[n].key = run[n].key
             /\ raced' = (raced \/ \E m \in Runs : run[m].pc = "generate")
    <3>1. KeyNeedsFile'
      BY <2>1, <2>3 DEF KeyNeedsFile
    <3>2. OneKey'
      <4>1. ~raced' => ~raced /\ \A m \in Runs : run[m].pc \notin {"generate", "write_key"}
        BY <2>3 DEF KeyNeedsFile
      <4> QED
        BY <2>1, <2>3, <4>1 DEF OneKey, KeyNeedsFile
    <3> QED
      BY <3>1, <3>2
  <2> QED
    BY <1>3, <2>2, <2>3, LoadKeyEffect
<1>4. ASSUME NEW n \in Runs, OpenKey(n)
      PROVE  KeyNeedsFile' /\ OneKey'
  <2>1. /\ run[n].pc = "generate"
        /\ Goto(n, "write_key")
        /\ aes_exists' = TRUE /\ aes_key' = 0 /\ raced' = raced
    BY <1>4 DEF OpenKey
  <2>2. \A m \in Runs : /\ run'[m].pc = IF m = n THEN "write_key" ELSE run[m].pc
                        /\ run'[m].key = run[m].key
    BY <1>0, <2>1, GotoEffect
  <2>3. KeyNeedsFile'
    BY <2>1, <2>2 DEF KeyNeedsFile
  <2>4. OneKey'
    BY <2>1, <2>2 DEF OneKey, KeyNeedsFile
  <2> QED
    BY <2>3, <2>4
<1>5. ASSUME NEW n \in Runs, WriteKey(n)
      PROVE  KeyNeedsFile' /\ OneKey'
  <2>1. /\ run[n].pc = "write_key" /\ run'[n].pc = "sign"
        /\ run'[n].key = n /\ aes_key' = n /\ n # 0
        /\ \A m \in Runs \ {n} : run'[m] = run[m]
        /\ UNCHANGED <<aes_exists, raced>>
    BY <1>5, WriteKeyEffect
  <2>2. KeyNeedsFile'
    BY <2>1 DEF KeyNeedsFile
  <2>3. OneKey'
    BY <2>1 DEF OneKey
  <2> QED
    BY <2>2, <2>3
<1>6. ASSUME NEW n \in Runs, SignFails(n) \/ EncryptFails(n) \/ Crash(n)
      PROVE  KeyNeedsFile' /\ OneKey'
  BY <1>0, <1>1, <1>6 DEF SignFails, EncryptFails, Crash
<1>7. ASSUME NEW n \in Runs, Upload(n) \/ UploadFails(n)
      PROVE  KeyNeedsFile' /\ OneKey'
  <2>1. PICK hash_only \in BOOLEAN, i \in {1, 2}, hash \in {1, 2} :
            Stored(n, hash_only, i, hash)
    BY <1>7 DEF Upload, UploadFails
  <2>2. \A m \in Runs : /\ run'[m].key = run[m].key
                        /\ run'[m].pc \in {"generate", "write_key"} => run'[m].pc = run[m].pc
    BY <2>1, StoredEffect
  <2>3. UNCHANGED <<aes_exists, aes_key, raced>>
    BY <1>7 DEF Upload, UploadFails, key_vars
  <2> QED
    BY <2>2, <2>3, KeyAlone
<1>8. ASSUME NEW n \in Runs, Invoke(n) \/ InvokeFails(n)
      PROVE  KeyNeedsFile' /\ OneKey'
  BY <1>0, <1>1, <1>8 DEF Invoke, InvokeFails
<1>9. ASSUME NEW n \in Runs, Query(n) \/ Retrieve(n)
      PROVE  KeyNeedsFile' /\ OneKey'
  BY <1>0, <1>1, <1>9 DEF Query, Found, Retrieve
<1>10. ASSUME NEW n \in Runs, FabricCommit(n)
      PROVE  KeyNeedsFile' /\ OneKey'
  BY <1>10, KeyAlone DEF FabricCommit, key_vars
<1> QED
  BY <1>2, <1>3, <1>4, <1>5, <1>6, <1>7, <1>8, <1>9, <1>10 DEF Next, RunStep

-----------------------------------------------------------------------------
(* The invariant holds throughout.                                         *)

\* The invariant holds at the start.
LEMMA InitIInv == Init => IInv
<1> SUFFICES ASSUME Init PROVE IInv
  OBVIOUS
<1>1. Ledger!IInv /\ Fabric!TypeOK
  BY SameInit, SameType, Ledger!InitIInv, LedgerAssumptions DEF Init, Ledger!IInv
<1>2. TypeOK
  <2>1. run \in [Runs -> RunState]
    BY DEF Init, RunState, Steps
  <2>2. \A n \in Runs : run[n].pc = "idle"
    BY DEF Init
  <2>3. aes_exists \in BOOLEAN /\ raced \in BOOLEAN
    BY Zenon DEF Init
  <2>4. aes_key \in 0 .. MaxRuns /\ ipfs \subseteq Packages /\ budget \in 0 .. MaxFaults
    BY DEF Init
  <2> QED
    BY <1>1, <2>1, <2>2, <2>3, <2>4 DEF TypeOK, RunState
<1>3. \A n \in Runs : txs[n].status = "none"
  BY DEF Init, Fabric!Init, Fabric!NoTx
<1> QED
  BY <1>1, <1>2, <1>3 DEF IInv, Init, Unstarted, OwnPayload, OwnTransaction, PastQuery,
     KeyNeedsFile, OneKey

\* Every step keeps the invariant, and what is on the ledger stays there.
LEMMA NextIInv ==
    ASSUME IInv, Next
    PROVE  /\ IInv'
           /\ \A e \in Events : world[e] # NoRecord => world'[e] = world[e]
<1>1. /\ Ledger!IInv' /\ Fabric!TypeOK'
      /\ \A e \in Events : world[e] # NoRecord => world'[e] = world[e]
  BY LedgerKept DEF IInv
<1>2. TypeOK'
  BY <1>1, TypeStep DEF IInv
<1>3. Unstarted' /\ OwnPayload'
  BY PayloadStep DEF IInv
<1>4. OwnTransaction'
  BY OwnTransactionStep DEF IInv
<1>5. PastQuery'
  BY <1>1, PastQueryStep DEF IInv
<1>6. KeyNeedsFile' /\ OneKey'
  BY KeyStep DEF IInv
<1> QED
  BY <1>1, <1>2, <1>3, <1>4, <1>5, <1>6 DEF IInv

\* A step that takes no more than a fault keeps the invariant.
LEMMA StutterIInv ==
    ASSUME IInv, UNCHANGED <<key_vars, run, ipfs, fabric_vars>>, budget' \in 0 .. MaxFaults
    PROVE  IInv'
<1>1. Ledger!IInv'
  <2>1. UNCHANGED Ledger!vars
    BY DEF Ledger!vars, fabric_vars
  <2> QED
    BY <2>1, Ledger!StutterIInv, LedgerAssumptions DEF IInv
<1>2. TypeOK'
  BY DEF IInv, TypeOK, key_vars, fabric_vars, Fabric!TypeOK
<1>3. Unstarted' /\ OwnPayload' /\ OwnTransaction' /\ PastQuery' /\ KeyNeedsFile' /\ OneKey'
  BY DEF IInv, Unstarted, OwnPayload, IpfsIntegrity, OwnTransaction, Record, PastQuery,
     Fabric!EventExists, KeyNeedsFile, OneKey, key_vars, fabric_vars
<1> QED
  BY <1>1, <1>2, <1>3 DEF IInv

\* The strengthened invariant holds in every state, whichever runs race for the key file,
\* fail or are repeated.
THEOREM Invariance == Spec => []IInv
<1>1. IInv /\ UNCHANGED vars => IInv'
  BY StutterIInv DEF vars, IInv, TypeOK
<1> QED
  BY <1>1, InitIInv, NextIInv, PTL DEF Spec

\* Every variable keeps its type, and no run gets beyond the encryption without a whole
\* key (run_pipeline, whatever becomes of the key file).
THEOREM TypeCorrect == Spec => []TypeOK
<1>1. IInv => TypeOK
  BY DEF IInv
<1> QED
  BY <1>1, Invariance, PTL

-----------------------------------------------------------------------------
(* The properties, as consequences of the invariant.                       *)

\* A record on the ledger is the one that a run proposed and still holds.
LEMMA LoggedByRun ==
    ASSUME IInv, NEW e \in Events, world[e] # NoRecord
    PROVE  \E n \in Runs : /\ world[e] = Record(n) /\ run[n].event = e
                           /\ run[n].payload \in Payloads /\ run[n].payload # NoPayload
<1>1. PICK n \in Runs : txs[n].status = "valid" /\ txs[n].rec = world[e]
  BY DEF IInv, Ledger!IInv, Ledger!StoredByOne
<1>2. world[e] = Record(n)
  BY <1>1 DEF IInv, OwnTransaction
<1>3. world[e].event_id = e
  BY DEF IInv, Ledger!IInv, Ledger!WrittenIffPresent
<1>4. world[e].payload \in Payloads
  BY DEF IInv, TypeOK, Fabric!TypeOK, Fabric!StoredRecords, Fabric!Records
<1> QED
  BY <1>2, <1>3, <1>4 DEF Record

\* A ledger record's hash and CID are of the same package, whose content stays.
LEMMA IInvRecordsPassIntegrity == IInv => RecordsPassIntegrity
<1> SUFFICES ASSUME IInv, NEW e \in Events, world[e] # NoRecord
             PROVE  IpfsIntegrity(world[e].payload)
  BY DEF RecordsPassIntegrity, Logged
<1>1. PICK n \in Runs : world[e] = Record(n) /\ run[n].payload # NoPayload
  BY LoggedByRun
<1>2. IpfsIntegrity(run[n].payload)
  BY <1>1 DEF IInv, OwnPayload
<1> QED
  BY <1>1, <1>2 DEF Record

\* audit_query.py's integrity check passes every record of the ledger, whichever of the
\* attempts at an event got there and whichever upload had failed.
THEOREM IntegrityPasses == Spec => []RecordsPassIntegrity
BY IInvRecordsPassIntegrity, Invariance, PTL

\* The key of a ledger record's payload is the file's.
LEMMA IInvEvidenceDecrypts == IInv => EvidenceDecrypts
<1> SUFFICES ASSUME IInv, ~raced, NEW e \in Events, world[e] # NoRecord
             PROVE  run[world[e].payload.ipfs_cid.package[1]].key = aes_key
  BY DEF EvidenceDecrypts, Logged
<1>1. PICK n \in Runs : world[e] = Record(n) /\ run[n].payload # NoPayload
  BY LoggedByRun
<1>2. run[n].payload.ipfs_cid.package[1] = n /\ run[n].key # 0
  BY <1>1 DEF IInv, OwnPayload
<1>3. run[n].key = aes_key
  BY <1>2 DEF IInv, OneKey
<1> QED
  BY <1>1, <1>2, <1>3 DEF Record

\* The key file decrypts the evidence of every record, through crashes and repetitions,
\* unless two first runs found no key file at once (load_or_create_aes_key).
THEOREM EvidenceIsReadable == Spec => []EvidenceDecrypts
BY IInvEvidenceDecrypts, Invariance, PTL

\* A run that reported success saw its event on the ledger, which keeps it.
LEMMA IInvSuccessIsLogged == IInv => SuccessIsLogged
<1> SUFFICES ASSUME IInv, NEW n \in Runs, run[n].pc = "ok"
             PROVE  /\ Fabric!EventExists(run[n].event)
                    /\ (\A m \in Runs \ {n} : run[m].event # run[n].event) =>
                           Fabric!VerifyEvent(run[n].event).payload = run[n].payload
  BY DEF SuccessIsLogged
<1>1. Fabric!EventExists(run[n].event) /\ run[n].event \in Events
  BY DEF IInv, PastQuery, Unstarted
<1>2. PICK m \in Runs : world[run[n].event] = Record(m) /\ run[m].event = run[n].event
  BY <1>1, LoggedByRun DEF Fabric!EventExists
<1>3. m # n \/ world[run[n].event].payload = run[n].payload
  BY <1>2 DEF Record
<1> QED
  BY <1>1, <1>2, <1>3 DEF Fabric!VerifyEvent

\* A run that reports success has its event on the ledger, and under its own evidence
\* unless another run carried the same id (run_pipeline's cross-check).
THEOREM SuccessIsOnLedger == Spec => []SuccessIsLogged
BY IInvSuccessIsLogged, Invariance, PTL

-----------------------------------------------------------------------------
(* The audits beside the pipeline.                                          *)

AuditStates == [pc : {"idle", "verify", "ended"}, answered : BOOLEAN,
                left : SUBSET Fabric!StoredRecords, passed : SUBSET Events,
                failed : SUBSET Events, unreachable : SUBSET Events]

\* The records an audit still has to fetch are the ledger's, and none has failed but
\* those the node did not answer for.
AuditSound ==
    /\ audit \in AuditStates
    /\ audit.left \subseteq Logged
    /\ audit.failed \subseteq audit.unreachable
    /\ audit.pc = "ended" => audit.left = {}

\* Whatever was reported before the ledger was read has been fetched or is still to be.
AuditComplete ==
    audit.answered =>
        reported \subseteq audit.passed \cup audit.unreachable \cup {r.event_id : r \in audit.left}

AuditInv == IInv /\ AuditSound /\ AuditComplete

\* The pipeline's invariant stands beside the audit: an audit takes at most a fault.
LEMMA PipelineBeside ==
    ASSUME IInv, [AuditNext]_audit_vars
    PROVE  /\ IInv'
           /\ \A e \in Events : world[e] # NoRecord => world'[e] = world[e]
<1>1. CASE Next
  BY <1>1, NextIInv
<1>2. CASE UNCHANGED <<key_vars, run, ipfs, fabric_vars>> /\ budget' \in 0 .. MaxFaults
  <2>1. IInv'
    BY <1>2, StutterIInv
  <2> QED
    BY <1>2, <2>1 DEF fabric_vars
<1>3. CASE UNCHANGED vars
  BY <1>2, <1>3 DEF vars, IInv, TypeOK
<1>4. ASSUME NEW asked, QueryLedger(asked) \/ QueryFails(asked)
      PROVE  UNCHANGED <<key_vars, run, ipfs, fabric_vars>> /\ budget' \in 0 .. MaxFaults
  BY <1>4, FaultBudget DEF QueryLedger, QueryFails, vars, IInv, TypeOK
<1>5. ASSUME NEW r, VerifyIntegrity(r) \/ VerifyIntegrityFails(r)
      PROVE  UNCHANGED <<key_vars, run, ipfs, fabric_vars>> /\ budget' \in 0 .. MaxFaults
  BY <1>5, FaultBudget DEF VerifyIntegrity, VerifyIntegrityFails, vars, IInv, TypeOK
<1> QED
  BY <1>1, <1>2, <1>3, <1>4, <1>5 DEF AuditNext, audit_vars

\* What is logged stays logged.
LEMMA LoggedGrows ==
    ASSUME \A e \in Events : world[e] # NoRecord => world'[e] = world[e]
    PROVE  Logged \subseteq Logged'
BY DEF Logged

\* What is logged is a record of an event.
LEMMA LoggedRecords ==
    ASSUME IInv, NEW r \in Logged
    PROVE  r \in Fabric!StoredRecords /\ r.event_id \in Events
BY DEF IInv, TypeOK, Fabric!TypeOK, Logged, Fabric!StoredRecords, Fabric!Records

\* Asking the ledger yields every record of the events asked for that were reported.
LEMMA AskSteps ==
    ASSUME AuditInv, NEW asked \in SUBSET Events, QueryLedger(asked) \/ QueryFails(asked)
    PROVE  AuditSound' /\ AuditComplete'
<1> DEFINE found == {r \in Logged : r.event_id \in asked}
<1>1. ASSUME NEW answered \in BOOLEAN, NEW hits \in SUBSET Logged,
             Ask(asked, answered, hits), UNCHANGED world,
             answered => hits = found
      PROVE  AuditSound' /\ AuditComplete'
  <2>1. audit' = [pc |-> IF hits = {} THEN "ended" ELSE "verify", answered |-> answered,
                  left |-> hits, passed |-> {}, failed |-> {}, unreachable |-> {}]
    BY <1>1 DEF Ask, NoAudit
  <2>2. hits \in SUBSET Fabric!StoredRecords
    BY LoggedRecords DEF AuditInv
  <2>3. audit' \in AuditStates
    BY <2>1, <2>2 DEF AuditStates
  <2>4. AuditSound'
    BY <1>1, <2>1, <2>3 DEF AuditSound, Logged
  <2>5. ASSUME answered, NEW e \in reported'
        PROVE  e \in {r.event_id : r \in hits}
    <3>1. PICK n \in Runs : run[n].pc = "ok" /\ run[n].event = e /\ e \in asked
      BY <1>1, <2>5 DEF Ask, Reported
    <3>2. e \in Events /\ world[e] # NoRecord
      BY <3>1 DEF AuditInv, IInv, PastQuery, Unstarted, Fabric!EventExists
    <3>3. world[e].event_id = e /\ world[e] \in Logged
      BY <3>2 DEF AuditInv, IInv, Ledger!IInv, Ledger!WrittenIffPresent, Logged
    <3> QED
      BY <1>1, <2>5, <3>1, <3>3
  <2>6. AuditComplete'
    BY <2>1, <2>5 DEF AuditComplete
  <2> QED
    BY <2>4, <2>6
<1>2. CASE QueryLedger(asked)
  BY <1>1, <1>2 DEF QueryLedger, vars, fabric_vars
<1>3. CASE QueryFails(asked)
  BY <1>1, <1>3 DEF QueryFails, fabric_vars
<1> QED
  BY <1>2, <1>3

\* A record that is fetched passes, since all of the ledger's do.
LEMMA VerifySteps ==
    ASSUME AuditInv, NEW r \in audit.left, VerifyIntegrity(r) \/ VerifyIntegrityFails(r)
    PROVE  AuditSound' /\ AuditComplete'
<1>1. r \in Logged /\ r.event_id \in Events /\ IpfsIntegrity(r.payload)
  BY LoggedRecords, IInvRecordsPassIntegrity DEF AuditInv, AuditSound, RecordsPassIntegrity
<1>2. UNCHANGED <<world, reported>>
  BY DEF VerifyIntegrity, VerifyIntegrityFails, vars, fabric_vars
<1>3. ASSUME NEW result \in BOOLEAN, NEW lost \in SUBSET {r.event_id},
             Verified(r, result, lost), result \/ lost = {r.event_id}
      PROVE  AuditSound' /\ AuditComplete'
  <2>1. audit \in AuditStates
    BY DEF AuditInv, AuditSound
  <2>2. /\ audit'.pc = IF audit.left = {r} THEN "ended" ELSE "verify"
        /\ audit'.answered = audit.answered
        /\ audit'.left = audit.left \ {r}
        /\ audit'.passed = IF result THEN audit.passed \cup {r.event_id} ELSE audit.passed
        /\ audit'.failed = IF result THEN audit.failed ELSE audit.failed \cup {r.event_id}
        /\ audit'.unreachable = audit.unreachable \cup lost
    BY <1>3, <2>1 DEF Verified, AuditStates
  <2>3. audit' \in AuditStates
    BY <1>1, <1>3, <2>1 DEF Verified, AuditStates
  <2>4. AuditSound'
    BY <1>2, <1>3, <2>2, <2>3 DEF AuditInv, AuditSound, Logged
  <2>5. AuditComplete'
    BY <1>2, <1>3, <2>2 DEF AuditInv, AuditComplete
  <2> QED
    BY <2>4, <2>5
<1>4. CASE VerifyIntegrity(r)
  BY <1>1, <1>3, <1>4 DEF VerifyIntegrity
<1>5. CASE VerifyIntegrityFails(r)
  BY <1>3, <1>5 DEF VerifyIntegrityFails
<1> QED
  BY <1>4, <1>5

\* Every step of the pipeline or of the audit keeps the audit's invariant.
LEMMA AuditStep ==
    ASSUME AuditInv, [AuditNext]_audit_vars
    PROVE  AuditInv'
<1>1. /\ IInv'
      /\ \A e \in Events : world[e] # NoRecord => world'[e] = world[e]
  BY PipelineBeside DEF AuditInv
<1>2. ASSUME UNCHANGED <<audit, reported>>
      PROVE  AuditSound' /\ AuditComplete'
  BY <1>1, <1>2, LoggedGrows DEF AuditInv, AuditSound, AuditComplete
<1>3. ASSUME NEW asked \in {Events} \cup {{e} : e \in Events},
             QueryLedger(asked) \/ QueryFails(asked)
      PROVE  AuditSound' /\ AuditComplete'
  BY <1>3, AskSteps
<1>4. AuditSound' /\ AuditComplete'
  BY <1>2, <1>3, VerifySteps DEF AuditNext, audit_vars
<1> QED
  BY <1>1, <1>4 DEF AuditInv

\* The audit's invariant holds at the start.
LEMMA AuditInitInv == AuditInit => AuditInv
<1> SUFFICES ASSUME AuditInit PROVE AuditInv
  OBVIOUS
<1>1. IInv
  BY InitIInv DEF AuditInit
<1>2. audit \in AuditStates
  BY DEF AuditInit, NoAudit, AuditStates
<1> QED
  BY <1>1, <1>2 DEF AuditInv, AuditInit, NoAudit, AuditSound, AuditComplete

\* The pipeline's invariant and the audit's hold in every state, whenever the audit asks
\* and whatever runs go on meanwhile (audit_query.py beside live_blockchain_logger.py).
THEOREM AuditInvariance == AuditSpec => []AuditInv
BY AuditInitInv, AuditStep, PTL DEF AuditSpec

\* The pipeline's guarantees do not depend on nobody auditing meanwhile.
THEOREM PipelineUnderAudit ==
    AuditSpec => [](TypeOK /\ RecordsPassIntegrity /\ EvidenceDecrypts /\ SuccessIsLogged)
<1>1. AuditInv => TypeOK /\ RecordsPassIntegrity /\ EvidenceDecrypts /\ SuccessIsLogged
  BY IInvRecordsPassIntegrity, IInvEvidenceDecrypts, IInvSuccessIsLogged DEF AuditInv, IInv
<1> QED
  BY <1>1, AuditInvariance, PTL

\* An audit that got its answer from the ledger has verified every event whose run had
\* reported success, and reports no record as corrupted unless the node did not answer
\* (audit_query.py's verdict against run_pipeline's).
THEOREM AuditAgrees == AuditSpec => []AuditAgreesWithRuns
<1>1. AuditInv => AuditAgreesWithRuns
  BY DEF AuditInv, AuditSound, AuditComplete, AuditAgreesWithRuns, KpiPass
<1> QED
  BY <1>1, AuditInvariance, PTL
=============================================================================

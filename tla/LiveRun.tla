------------------------------ MODULE LiveRun -------------------------------
(***************************************************************************)
(* run.py from its start to the end: the set-up of Deployment, the three   *)
(* services it starts, the demo that has to pass, and Ctrl+C.              *)
(*                                                                         *)
(* The services are processes of their own.  A demo that fails calls       *)
(* sys.exit without stopping them, so a run may find the ports taken and   *)
(* another logger in its consumer group.  Processes are told apart by      *)
(* whose they are: this run's own, left by an earlier one, or sent SIGTERM *)
(* and not yet gone.                                                       *)
(***************************************************************************)
EXTENDS Deployment

CONSTANT ContractFunctions  \* functions the committed chaincode offers

VARIABLES
    starting,  \* services this run launched that are neither up nor gone
    port,      \* whose process listens on the port of each API
    loggers,   \* the logger processes that are up
    pending,   \* sample events of the queried asset on the topic, taken as one
    newest,    \* who signed the newest record of that asset in Redis
    first      \* and the one this run read as records[0]

service_vars == <<starting, port, loggers>>
sample_vars == <<pending, newest, first>>
deployment_vars == <<file_vars, channel_vars, chaincode_vars>>
vars == <<pc, deployment_vars, fault_vars, service_vars, sample_vars>>

Apis == {"detector-adapter", "audit-api"}

Services == Apis \cup {"blockchain-logger"}

Whose == {"own", "left", "stopping"}

\* A logger caches the key pair it signs with for its life: the key's pair, 0 before
\* it is loaded, and whether the certificate was there to name the agent.
Signers == [pair : Pairs \cup {0}, known : BOOLEAN]

NoSigner == [pair |-> 0, known |-> FALSE]

Loggers == [signer : Signers, whose : Whose]

RunSteps == {"launch", "wait_detector", "wait_logger", "wait_api",
             "ingest", "trail", "verify", "bench", "running"}

TypeOK ==
    /\ SetUpTypeOK
    /\ pc \in SetUpSteps \cup RunSteps
    /\ starting \subseteq Services
    /\ port \in [Apis -> Whose \cup {"nobody"}]
    /\ loggers \subseteq Loggers
    /\ pending \in BOOLEAN
    /\ {newest, first} \subseteq Signers

Init ==
    /\ SetUpInit
    /\ starting = {} /\ port = [a \in Apis |-> "nobody"] /\ loggers = {}
    /\ pending = FALSE /\ newest = NoSigner /\ first = NoSigner

-----------------------------------------------------------------------------
(* main up to the services, and start_services.                            *)

\* A run without check_prereqs' refusal, which leaves everything as it is.
Start ==
    /\ Goto("stopped", "crypto-config")
    /\ force_rejoin' = FALSE
    /\ UNCHANGED <<file_vars, block, orderer, peer, synced, last, chaincode_vars, fault_vars,
                   service_vars, sample_vars>>

\* --skip-docker, whatever the set-up has left undone.
StartSkippingSetUp ==
    /\ Goto("stopped", "launch")
    /\ Fault("skip")
    /\ UNCHANGED <<deployment_vars, service_vars, sample_vars>>

SetUpStep ==
    /\ SetUp \/ SetUpFault
    /\ UNCHANGED <<service_vars, sample_vars>>

\* The set-up slept for 30 s, in which an API that got SIGTERM is gone.
Launch ==
    /\ Goto("launch", "wait_detector")
    /\ "skip" \in happened \/ \A a \in Apis : port[a] # "stopping"
    /\ starting' = Services
    /\ UNCHANGED <<deployment_vars, fault_vars, port, loggers, sample_vars>>

\* An API binds its port, or ends because another process has it.
Bind(a) ==
    /\ a \in starting
    /\ starting' = starting \ {a}
    /\ port' = [port EXCEPT ![a] = IF @ = "nobody" THEN "own" ELSE @]
    /\ UNCHANGED <<pc, deployment_vars, fault_vars, loggers, sample_vars>>

\* The logger subscribes to the topic if its critical paths exist, and else exits.
Subscribe ==
    /\ "blockchain-logger" \in starting
    /\ starting' = starting \ {"blockchain-logger"}
    /\ loggers' = IF files["crypto-config"] = "done"
                  THEN loggers \cup {[signer |-> NoSigner, whose |-> "own"]}
                  ELSE loggers
    /\ UNCHANGED <<pc, deployment_vars, fault_vars, port, sample_vars>>

Ready(s) ==
    IF s \in Apis THEN port[s] # "nobody"                  \* wait_for_port: anybody's
                  ELSE \E l \in loggers : l.whose = "own"  \* _wait_for_log_line: its own

\* The service a step waits for.
Waiting == [wait_detector |-> "detector-adapter", wait_logger |-> "blockchain-logger",
            wait_api |-> "audit-api"]

WaitForService ==
    /\ \/ Goto("wait_detector", "wait_logger")
       \/ Goto("wait_logger", "wait_api")
       \/ Goto("wait_api", "ingest")
    /\ Ready(Waiting[pc])
    /\ UNCHANGED <<deployment_vars, fault_vars, service_vars, sample_vars>>

\* The run's own processes go on without it, or are sent SIGTERM.  What is still
\* starting counts as gone.
OwnBecome(whose) ==
    /\ starting' = {}
    /\ port' = [a \in Apis |-> IF port[a] = "own" THEN whose ELSE port[a]]
    /\ loggers' = {[l EXCEPT !.whose = IF @ = "own" THEN whose ELSE @] : l \in loggers}

\* Not ready within 60 s: it ended, or is slow.  start_services stops the others.
LaunchFails ==
    /\ pc \in DOMAIN Waiting /\ ~Ready(Waiting[pc])
    /\ \/ Waiting[pc] \notin starting /\ UNCHANGED fault_vars
       \/ Waiting[pc] \in starting /\ Fault("service")
    /\ pc' = "stopped"
    /\ OwnBecome("stopping")
    /\ UNCHANGED <<deployment_vars, sample_vars>>

-----------------------------------------------------------------------------
(* run_live_demo_and_benchmark.  Whichever process has the port answers.   *)

Answers(a) == port[a] # "nobody"

Silent(a) == port[a] \in {"nobody", "stopping"}

Ingest ==
    /\ Goto("ingest", "trail") /\ Answers("detector-adapter")
    /\ pending' = TRUE
    /\ UNCHANGED <<deployment_vars, fault_vars, service_vars, newest, first>>

\* The 15 s are over, long enough or not: any record of the asset will do.
QueryTrail ==
    /\ Goto("trail", "verify") /\ Answers("audit-api") /\ newest # NoSigner
    /\ first' = newest
    /\ UNCHANGED <<deployment_vars, fault_vars, service_vars, pending, newest>>

\* verify_record finds an agent identity and the certificate's signature.
Valid(signer) == signer.known /\ signer.pair = agent_pem

Verify ==
    /\ Goto("verify", "bench") /\ Answers("audit-api") /\ Valid(first)
    /\ first' = NoSigner
    /\ UNCHANGED <<deployment_vars, fault_vars, service_vars, pending, newest>>

\* Fewer than 51 of 500 failed; the compliance report may fail.
Benchmark ==
    /\ Goto("bench", "running") /\ Answers("detector-adapter")
    /\ UNCHANGED <<deployment_vars, fault_vars, service_vars, sample_vars>>

\* sys.exit(1), which leaves the services behind.
DemoFails ==
    /\ \/ Goto("ingest", "stopped") /\ Silent("detector-adapter")
          /\ pending' \in {pending, TRUE}
       \/ Goto("trail", "stopped") /\ (Silent("audit-api") \/ newest = NoSigner)
          /\ UNCHANGED pending
       \/ Goto("verify", "stopped") /\ (Silent("audit-api") \/ ~Valid(first))
          /\ UNCHANGED pending
       \/ Goto("bench", "stopped") /\ Silent("detector-adapter")
          /\ UNCHANGED pending
    /\ first' = NoSigner
    /\ OwnBecome("left")
    /\ UNCHANGED <<deployment_vars, fault_vars, newest>>

\* Ctrl+C at the end stops this run's own processes and waits for none.
Interrupt ==
    /\ Goto("running", "stopped")
    /\ Fault("interrupt")
    /\ OwnBecome("stopping")
    /\ UNCHANGED <<deployment_vars, sample_vars>>

-----------------------------------------------------------------------------
(* The services.                                                           *)

\* The key is cached before the certificate is looked at: a missing certificate fails
\* the first attempt, an empty one the first event, and the next goes on without it.
Loaded ==
    IF agent_sk \in Pairs THEN [pair |-> agent_sk, known |-> agent_pem \in Pairs]
                          ELSE NoSigner

\* What logger l signs with.
Signing(l) == IF l.signer.pair # 0 THEN l.signer ELSE Loaded

\* A signed event gets on the ledger.
Invocable == Live /\ synced /\ "LogEvent" \in ContractFunctions

Log_UntilLogged(l) ==
    /\ pending /\ l \in loggers /\ Signing(l).pair # 0 /\ Invocable
    /\ pending' = FALSE
    /\ newest' = Signing(l)
    /\ loggers' = (loggers \ {l}) \cup {[l EXCEPT !.signer = Signing(l)]}
    /\ UNCHANGED <<pc, deployment_vars, fault_vars, starting, port, first>>

\* Logger l takes the sample: its record is cached once it is on the ledger, and
\* without a key or a ledger the sample is dead-lettered.  So it is if it is the event
\* whose turn it was to load an empty certificate, and not another asset's.
Log(l) ==
    /\ pending /\ l \in loggers
    /\ pending' = FALSE
    /\ \/ newest' = IF Signing(l).pair # 0 /\ Invocable THEN Signing(l) ELSE newest
       \/ newest' = newest /\ l.signer.pair = 0 /\ agent_pem = Empty
    /\ loggers' = (loggers \ {l}) \cup {[l EXCEPT !.signer = Signing(l)]}
    /\ UNCHANGED <<pc, deployment_vars, fault_vars, starting, port, first>>

\* A process that got SIGTERM is gone.
StoppingEnds ==
    /\ \/ \E a \in Apis : port[a] = "stopping" /\ port' = [port EXCEPT ![a] = "nobody"]
                          /\ UNCHANGED loggers
       \/ \E l \in loggers : l.whose = "stopping" /\ loggers' = loggers \ {l}
                             /\ UNCHANGED port
    /\ UNCHANGED <<pc, deployment_vars, fault_vars, starting, sample_vars>>

-----------------------------------------------------------------------------
(* What happens to it all.                                                 *)

ServiceDies ==
    /\ Fault("service")
    /\ \/ \E s \in starting : starting' = starting \ {s} /\ UNCHANGED <<port, loggers>>
       \/ \E a \in Apis : port[a] # "nobody" /\ port' = [port EXCEPT ![a] = "nobody"]
                          /\ UNCHANGED <<starting, loggers>>
       \/ \E l \in loggers : loggers' = loggers \ {l} /\ UNCHANGED <<starting, port>>
    /\ UNCHANGED <<pc, deployment_vars, sample_vars>>

\* run.py ends between two steps; a Ctrl+C reaches the services as well, other
\* signals do not.  Between creating agent.pem and writing it counts as torn.
Crash ==
    /\ pc \notin {"stopped", "running"} /\ pc' = "stopped"
    /\ Fault(IF pc = "cert_open" THEN "torn" ELSE "crash")
    /\ first' = NoSigner
    /\ \E whose \in {"left", "stopping"} : OwnBecome(whose)
    /\ UNCHANGED <<deployment_vars, pending, newest>>

\* The orderer's volume is lost.
LoseOrderer ==
    /\ pc = "stopped" /\ orderer # 0
    /\ Fault("loss")
    /\ orderer' = 0
    /\ UNCHANGED <<pc, file_vars, block, peer, synced, last, force_rejoin, chaincode_vars,
                   service_vars, sample_vars>>

\* run.py --teardown: all volumes go, files and service processes stay.
Teardown ==
    /\ pc = "stopped"
    /\ Fault("teardown")
    /\ orderer' = 0 /\ peer' = 0 /\ synced' = FALSE /\ installed' = FALSE
    /\ pending' = FALSE /\ newest' = NoSigner
    /\ UNCHANGED <<pc, file_vars, block, last, force_rejoin, approved, committed,
                   service_vars, first>>

-----------------------------------------------------------------------------
\* What run.py does when nothing goes wrong around it.
Run ==
    \/ Start \/ (SetUp /\ UNCHANGED <<service_vars, sample_vars>>)
    \/ Launch \/ WaitForService \/ LaunchFails
    \/ Ingest \/ QueryTrail \/ Verify \/ Benchmark \/ DemoFails

Serve ==
    \/ \E a \in Apis : Bind(a)
    \/ Subscribe
    \/ StoppingEnds

LogSample == \E l \in loggers : Log(l)

PeerSyncs == Sync /\ UNCHANGED <<service_vars, sample_vars>>

Environment == ServiceDies \/ Crash \/ LoseOrderer \/ Teardown

Next ==
    \/ Run \/ SetUpStep \/ StartSkippingSetUp \/ Interrupt
    \/ Serve \/ LogSample \/ PeerSyncs
    \/ Environment

Spec == Init /\ [][Next]_vars

\* The operator repeats a run that failed; processes go on; the peer fetches blocks.
\* Nothing is assumed about faults.
FairSpec ==
    /\ Spec
    /\ WF_vars(Run) /\ WF_vars(Serve) /\ WF_vars(LogSample) /\ WF_vars(PeerSyncs)

-----------------------------------------------------------------------------
(* Properties.                                                             *)

\* When main reports success, events reach a ledger: channel, peer and chaincode
\* belong together although each step trusts what it finds.  This is not so after an
\* answer NOT_FOUND, which skips the commit; after a query that failed or a volume
\* that stayed; nor for a run that skips the set-up.
ServedByLiveLedger ==
    pc = "running" /\ happened \cap {"not_found", "unreachable", "volume", "skip"} = {}
        => Live

\* The newest record an auditor is shown verifies: runs are cut off between writing
\* the key and writing its certificate, and loggers of earlier runs go on logging with
\* the key they once loaded.  Not so if a run that skips the set-up starts them on half
\* a pair, nor behind an agent.pem that was created and never written: its existence
\* counts as a pair from then on.
CachedRecordsVerify ==
    newest # NoSigner /\ "skip" \notin happened /\ agent_pem # Empty => Valid(newest)

\* Key and certificate are written, and of one pair.
PairIsWhole == agent_sk \in Pairs /\ agent_sk = agent_pem

\* A whole pair is never replaced: what was signed keeps verifying.
AgentPairIsKept == [][PairIsWhole => UNCHANGED <<agent_sk, agent_pem>>]_vars

\* A ledger that events can reach is not thrown away by another run, unless the
\* orderer could not be asked or somebody removes it.
LiveLedgerIsKept ==
    [][Live /\ ~Live' => "unreachable" \in happened' \/ LoseOrderer \/ Teardown]_vars

\* Repeating the run gets there in the end, with the processes earlier runs left on its
\* ports and in its consumer group, if the chaincode offers the function the logger
\* calls.  Not so if a command or the writing of agent.pem was killed half way, the
\* orderer could not be asked or a volume stayed: those leave states no run gets out of.
RerunConverges ==
    "LogEvent" \in ContractFunctions =>
        <>(pc = "running" \/ happened \cap {"torn", "unreachable", "volume", "skip"} # {})

\* A sample that was accepted is logged or dead-lettered at some point, by this run's
\* logger or by one left behind, however runs end.
SampleIsSettled ==
    pending ~> (~pending \/ happened \cap {"torn", "unreachable", "volume", "skip", "service"} # {})
=============================================================================

----------------------------- MODULE Deployment -----------------------------
(***************************************************************************)
(* run.py: the set-up of the stack, as an operator repeats it after any    *)
(* failure.  What survives a run is on disk (generated files, the agent's  *)
(* key pair, the channel's block file) and in Docker volumes (the orderer's*)
(* and the peer's); each step looks there first and skips what it finds    *)
(* done.  LiveRun goes on from here and starts the services.               *)
(*                                                                         *)
(* Channels are told apart by number, since one created again under the    *)
(* old name has another ledger.                                            *)
(***************************************************************************)
EXTENDS Naturals

CONSTANTS
    MaxChannels,  \* bound: channels created
    MaxPairs,     \* bound: agent key pairs generated
    MaxFaults,    \* bound: faults
    Faults        \* what may go wrong, a subset of FaultKinds

\* torn: run.py is killed in the middle of a command, or when it has created agent.pem
\* and written nothing to it.  volume: the peer's Docker volume cannot be removed.  unreachable: the orderer cannot be asked for the channel.
\* not_found: it answers NOT_FOUND while it starts.  The others are LiveRun's.
FaultKinds ==
    {"torn", "volume", "unreachable", "not_found",
     "crash", "loss", "teardown", "skip", "service", "interrupt"}

\* Those a property excepts.
Excepted == {"torn", "volume", "unreachable", "not_found", "skip", "service"}

ASSUME BoundsArePositive ==
    /\ MaxChannels \in Nat \ {0} /\ MaxPairs \in Nat \ {0} /\ MaxFaults \in Nat
    /\ Faults \subseteq FaultKinds

\* What a command generates unless it is there, in the order of the steps.
Artifacts == {"crypto-config", "genesis.block", "channel.tx", "package"}

Channels == 1 .. MaxChannels

Pairs == 1 .. MaxPairs

\* A file that was created and not yet written.
Empty == MaxPairs + 1

VARIABLES
    pc,           \* the next step of the running process
    files,        \* the state of each artifact
    pair,         \* key pairs generated so far; the last is in the process's hands
    agent_sk,     \* which key pair the agent's key file belongs to, 0 for no file
    agent_pem,    \* and its certificate
    block,        \* the channel of security-channel.block, 0 for no file
    orderer,      \* the orderer's channel, 0 for none
    peer,         \* the channel whose ledger the peer has, 0 for none
    synced,       \* that ledger has all the channel's blocks
    last,         \* channels created so far
    force_rejoin, \* this process has reset the peer
    installed,    \* the chaincode package is on the peer
    approved,     \* channels on which Org1 approved the chaincode
    committed,    \* channels on which it is committed
    happened,     \* history: the excepted kinds of fault that happened
    budget        \* faults left

pair_vars == <<pair, agent_sk, agent_pem>>
file_vars == <<files, pair_vars>>
channel_vars == <<block, orderer, peer, synced, last, force_rejoin>>
chaincode_vars == <<installed, approved, committed>>
fault_vars == <<happened, budget>>

SetUpSteps ==
    Artifacts \cup
    {"stopped", "key", "key_open", "cert", "cert_open", "check", "reset", "unlink", "create",
     "join", "committed", "install", "reach", "approve", "commit"}

SetUpTypeOK ==
    /\ files \in [Artifacts -> {"none", "partial", "done"}]
    /\ pair \in 0 .. MaxPairs
    /\ {agent_sk, agent_pem} \subseteq Pairs \cup {0, Empty}
    /\ {block, orderer, peer} \subseteq Channels \cup {0}
    /\ last \in 0 .. MaxChannels
    /\ {force_rejoin, installed, synced} \subseteq BOOLEAN
    /\ approved \subseteq Channels /\ committed \subseteq approved
    /\ happened \subseteq Faults
    /\ budget \in 0 .. MaxFaults

SetUpInit ==
    /\ pc = "stopped"
    /\ files = [f \in Artifacts |-> "none"] /\ pair = 0 /\ agent_sk = 0 /\ agent_pem = 0
    /\ block = 0 /\ orderer = 0 /\ peer = 0 /\ last = 0
    /\ synced = FALSE /\ force_rejoin = FALSE
    /\ installed = FALSE /\ approved = {} /\ committed = {}
    /\ happened = {} /\ budget = MaxFaults

-----------------------------------------------------------------------------
(* Helpers.  A definition named Operation_Variant is the operation with a  *)
(* plausible mistake; no specification uses it.                            *)

Fault(kind) ==
    /\ kind \in Faults /\ budget > 0
    /\ happened' = happened \cup ({kind} \cap Excepted)
    /\ budget' = budget - 1

\* From one step of a run to the next; "stopped" is sys.exit(1), or an exception
\* nothing catches.
Goto(from, to) == pc = from /\ pc' = to

-----------------------------------------------------------------------------
(* generate_crypto_and_genesis.                                            *)

\* An artifact is generated unless there is something of its name.
Generate(f) ==
    /\ Goto(f, CASE f = "crypto-config" -> "genesis.block"
                 [] f = "genesis.block" -> "channel.tx"
                 [] f = "channel.tx" -> "key"
                 [] f = "package" -> "install")
    /\ files' = IF files[f] = "none" THEN [files EXCEPT ![f] = "done"] ELSE files
    /\ UNCHANGED <<pair_vars, channel_vars, chaincode_vars, fault_vars>>

GenerateTorn(f) ==
    /\ Goto(f, "stopped") /\ files[f] = "none"
    /\ Fault("torn")
    /\ files' = [files EXCEPT ![f] = "partial"]
    /\ UNCHANGED <<pair_vars, channel_vars, chaincode_vars>>

AgentPairExists_KeyOnly == agent_sk # 0

AgentPairExists_Never == FALSE

\* Both files are there, whatever is in them.
AgentPairExists == agent_sk # 0 /\ agent_pem # 0

AgentPairThere ==
    /\ Goto("key", "check") /\ AgentPairExists
    /\ UNCHANGED <<file_vars, channel_vars, chaincode_vars, fault_vars>>

\* A new pair: the key file is created and written, then the certificate's.
OpenKey ==
    /\ Goto("key", "key_open") /\ ~AgentPairExists
    /\ pair < MaxPairs /\ pair' = pair + 1
    /\ agent_sk' = Empty
    /\ UNCHANGED <<files, agent_pem, channel_vars, chaincode_vars, fault_vars>>

WriteKey ==
    /\ Goto("key_open", "cert")
    /\ agent_sk' = pair
    /\ UNCHANGED <<files, pair, agent_pem, channel_vars, chaincode_vars, fault_vars>>

OpenCert ==
    /\ Goto("cert", "cert_open")
    /\ agent_pem' = Empty
    /\ UNCHANGED <<files, pair, agent_sk, channel_vars, chaincode_vars, fault_vars>>

WriteCert ==
    /\ Goto("cert_open", "check")
    /\ agent_pem' = pair
    /\ UNCHANGED <<files, pair, agent_sk, channel_vars, chaincode_vars, fault_vars>>

-----------------------------------------------------------------------------
(* start_docker_stack, and the channel in setup_channel_and_chaincode.     *)

StackReady == "partial" \notin {files["crypto-config"], files["genesis.block"]}

\* Orderer and peer do not come up on half a crypto-config or genesis block.
StackDown ==
    /\ Goto("check", "stopped") /\ ~StackReady
    /\ UNCHANGED <<file_vars, channel_vars, chaincode_vars, fault_vars>>

CheckOrderer_TrustsBlock ==
    /\ StackReady
    /\ Goto("check", IF block = 0 THEN "create" ELSE "join")
    /\ UNCHANGED <<file_vars, channel_vars, chaincode_vars, fault_vars>>

CheckOrderer_KeepsPeer ==
    /\ StackReady
    /\ Goto("check", IF block = 0 THEN "create" ELSE IF orderer = 0 THEN "unlink" ELSE "join")
    /\ UNCHANGED <<file_vars, channel_vars, chaincode_vars, fault_vars>>

CheckOrderer_AlwaysResets ==
    /\ StackReady
    /\ Goto("check", IF block = 0 THEN "create" ELSE "reset")
    /\ UNCHANGED <<file_vars, channel_vars, chaincode_vars, fault_vars>>

\* If there is a block file: has the orderer the channel?
CheckOrderer ==
    /\ StackReady
    /\ Goto("check", IF block = 0 THEN "create" ELSE IF orderer = 0 THEN "reset" ELSE "join")
    /\ UNCHANGED <<file_vars, channel_vars, chaincode_vars, fault_vars>>

\* Any failure of the query counts as a no.
CheckOrdererFails ==
    /\ StackReady /\ block # 0
    /\ Goto("check", "reset")
    /\ Fault("unreachable")
    /\ UNCHANGED <<file_vars, channel_vars, chaincode_vars>>

\* _reset_peer_ledger: the peer starts again on an empty volume.
ResetPeer ==
    /\ Goto("reset", "unlink")
    /\ peer' = 0 /\ synced' = FALSE /\ installed' = FALSE
    /\ UNCHANGED <<file_vars, block, orderer, last, force_rejoin, approved, committed,
                   fault_vars>>

\* It cannot be removed; docker's return code is not looked at.
ResetPeerFails ==
    /\ Goto("reset", "unlink")
    /\ Fault("volume")
    /\ UNCHANGED <<file_vars, channel_vars, chaincode_vars>>

UnlinkBlock ==
    /\ Goto("unlink", "create")
    /\ block' = 0 /\ force_rejoin' = TRUE
    /\ UNCHANGED <<file_vars, orderer, peer, synced, last, chaincode_vars, fault_vars>>

\* peer channel create writes the block file.
CreateChannel ==
    /\ Goto("create", "join") /\ orderer = 0 /\ files["channel.tx"] = "done"
    /\ last < MaxChannels /\ last' = last + 1
    /\ orderer' = last' /\ block' = last'
    /\ UNCHANGED <<file_vars, peer, synced, force_rejoin, chaincode_vars, fault_vars>>

\* The orderer has a channel of that name, or the transaction is cut off.
CreateRefused ==
    /\ Goto("create", "stopped") /\ (orderer # 0 \/ files["channel.tx"] = "partial")
    /\ UNCHANGED <<file_vars, channel_vars, chaincode_vars, fault_vars>>

\* The channel is created and its block file is not written.
CreateTorn ==
    /\ Goto("create", "stopped") /\ orderer = 0 /\ files["channel.tx"] = "done"
    /\ Fault("torn")
    /\ last < MaxChannels /\ last' = last + 1
    /\ orderer' = last'
    /\ UNCHANGED <<file_vars, block, peer, synced, force_rejoin, chaincode_vars>>

\* The peer lists a channel of that name, whichever one it is.
AlreadyJoined ==
    /\ Goto("join", "committed") /\ ~force_rejoin /\ peer # 0
    /\ UNCHANGED <<file_vars, channel_vars, chaincode_vars, fault_vars>>

\* peer channel join, and _peer_ledger_synced, which waits for the first block only.
Join ==
    /\ Goto("join", "committed") /\ peer = 0
    /\ peer' = block
    /\ synced' = (block \notin committed)
    /\ UNCHANGED <<file_vars, block, orderer, last, force_rejoin, chaincode_vars,
                   fault_vars>>

\* The peer fetches the rest.
Sync ==
    /\ peer # 0 /\ peer = orderer /\ ~synced
    /\ synced' = TRUE
    /\ UNCHANGED <<pc, file_vars, block, orderer, peer, last, force_rejoin, chaincode_vars,
                   fault_vars>>

JoinRefused ==
    /\ Goto("join", "stopped") /\ force_rejoin /\ peer # 0
    /\ UNCHANGED <<file_vars, channel_vars, chaincode_vars, fault_vars>>

-----------------------------------------------------------------------------
(* The chaincode's lifecycle.                                              *)

\* querycommitted asks the peer's own ledger.
CheckCommitted ==
    /\ Goto("committed", IF peer \in committed /\ synced THEN "launch" ELSE "package")
    /\ UNCHANGED <<file_vars, channel_vars, chaincode_vars, fault_vars>>

\* Unless the peer lists the package.
Install ==
    /\ Goto("install", "reach") /\ (installed \/ files["package"] = "done")
    /\ installed' = TRUE
    /\ UNCHANGED <<file_vars, channel_vars, approved, committed, fault_vars>>

InstallRefused ==
    /\ Goto("install", "stopped") /\ ~installed /\ files["package"] = "partial"
    /\ UNCHANGED <<file_vars, channel_vars, chaincode_vars, fault_vars>>

OrdererReachable_SkipsApproval ==
    /\ Goto("reach", "commit")
    /\ UNCHANGED <<file_vars, channel_vars, chaincode_vars, fault_vars>>

OrdererReachable ==
    /\ Goto("reach", "approve")
    /\ UNCHANGED <<file_vars, channel_vars, chaincode_vars, fault_vars>>

\* NOT_FOUND: approve and commit are skipped and the set-up returns.
OrdererNotFound ==
    /\ Goto("reach", "launch")
    /\ Fault("not_found")
    /\ UNCHANGED <<file_vars, channel_vars, chaincode_vars>>

\* approveformyorg, unless checkcommitreadiness shows Org1's approval: a
\* transaction on the channel the orderer and the peer share.
Approve ==
    /\ Goto("approve", "commit")
    /\ peer \notin committed
    /\ peer = orderer \/ peer \in approved
    /\ approved' = approved \cup {peer}
    /\ UNCHANGED <<file_vars, channel_vars, installed, committed, fault_vars>>

Commit ==
    /\ Goto("commit", "launch")
    /\ peer = orderer
    /\ committed' = committed \cup {peer}
    /\ UNCHANGED <<file_vars, channel_vars, installed, approved, fault_vars>>

\* The orderer orders nothing for a channel it does not have, and a definition with
\* sequence 1 is refused where there is one.
LifecycleRefused ==
    /\ \/ Goto("approve", "stopped") /\ peer \in committed
       \/ Goto("approve", "stopped") /\ peer \notin approved \cup {orderer}
       \/ Goto("commit", "stopped") /\ peer # orderer
    /\ UNCHANGED <<file_vars, channel_vars, chaincode_vars, fault_vars>>

-----------------------------------------------------------------------------
SetUp ==
    \/ \E f \in Artifacts : Generate(f)
    \/ AgentPairThere \/ OpenKey \/ WriteKey \/ OpenCert \/ WriteCert
    \/ StackDown \/ CheckOrderer \/ ResetPeer \/ UnlinkBlock
    \/ CreateChannel \/ CreateRefused \/ AlreadyJoined \/ Join \/ JoinRefused
    \/ CheckCommitted \/ Install \/ InstallRefused
    \/ OrdererReachable \/ Approve \/ Commit \/ LifecycleRefused

SetUpFault ==
    \/ \E f \in Artifacts : GenerateTorn(f)
    \/ CreateTorn \/ CheckOrdererFails \/ ResetPeerFails \/ OrdererNotFound

\* What is submitted to the peer reaches a ledger.
Live == orderer # 0 /\ peer = orderer /\ installed /\ peer \in committed
=============================================================================

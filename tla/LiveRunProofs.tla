---------------------------- MODULE LiveRunProofs ----------------------------
(***************************************************************************)
(* run.py's deployment, however often it is repeated, cut off and failed   *)
(* by what is around it.  Two arguments.  A logger is started only behind  *)
(* a whole key pair, or one whose certificate was left empty, and neither  *)
(* is ever replaced.  And the channel that the orderer has, once the       *)
(* chaincode is committed on it, is the one the peer has, with the         *)
(* chaincode installed: the set-up resets the peer only for an orderer     *)
(* without a channel, unless it could not ask.                             *)
(***************************************************************************)
EXTENDS LiveRun, TLAPS

USE BoundsArePositive

-----------------------------------------------------------------------------
(* The key pair and who signs with it.                                     *)

\* A certificate is the key's; a new pair is written over half a pair only.
PairState ==
    /\ agent_sk \in {0, Empty, pair}
    /\ agent_pem # 0 => pair # 0 /\ agent_sk = pair /\ agent_pem \in {Empty, pair}
    /\ pc \in {"key_open", "cert"} => pair # 0 /\ agent_pem = 0
    /\ pc = "cert" => agent_sk = pair
    /\ pc = "cert_open" => agent_pem = Empty

\* A run was killed between creating the certificate's file and writing it.
CertIsEmpty == agent_sk \in Pairs /\ agent_pem = Empty /\ pc # "cert_open"

\* The steps of a run at which the pair may yet be missing.
BeforePair ==
    {"stopped", "crypto-config", "genesis.block", "channel.tx",
     "key", "key_open", "cert", "cert_open"}

\* Unless a run skipped the set-up, loggers come after the pair, or after an empty
\* certificate; and all that they sign with verifies, unless the certificate is empty.
SignersState ==
    "skip" \notin happened =>
        /\ pc \notin BeforePair \/ starting # {} \/ loggers # {} \/ newest # NoSigner
             => PairIsWhole \/ CertIsEmpty
        /\ agent_pem # Empty =>
             /\ \A l \in loggers : l.signer.pair # 0 => Valid(l.signer)
             /\ newest # NoSigner => Valid(newest)

-----------------------------------------------------------------------------
(* The channel.                                                            *)

Created == 1 .. last

\* Where the run is, as far as the channel goes.
InSetUp == {"committed", "package", "install", "reach", "approve", "commit"}

ChannelState ==
    /\ {block, orderer, peer} \subseteq Created \cup {0} /\ approved \subseteq Created
    /\ block # 0 /\ orderer # 0 => block = orderer
    /\ pc = "create" => block = 0
    /\ pc \in InSetUp \cup {"join"} => block # 0 /\ orderer = block
    /\ pc \in InSetUp => peer # 0
    /\ pc \in {"reach", "approve", "commit"} => installed
    /\ pc = "commit" => peer \in approved

\* The peer has the channel of the block file, unless its volume stayed; it is reset
\* for an orderer without a channel, unless the orderer could not be asked; and so the
\* peer is never without a channel that was committed.
LedgerState ==
    /\ "volume" \notin happened => peer \in {0, block} /\ (pc = "unlink" => peer = 0)
    /\ "unreachable" \notin happened =>
         /\ pc \in {"reset", "unlink"} => orderer = 0
         /\ orderer \in committed => peer = orderer /\ installed
    /\ pc \in RunSteps /\ happened \cap {"not_found", "unreachable", "volume", "skip"} = {}
         => orderer \in committed

IInv == TypeOK /\ PairState /\ SignersState /\ ChannelState /\ LedgerState

-----------------------------------------------------------------------------
(* What a step may change.                                                 *)

\* A fault takes one from the budget and is remembered if a property excepts it.
LEMMA FaultEffect ==
    ASSUME SetUpTypeOK, NEW kind, Fault(kind)
    PROVE  /\ happened' \subseteq Faults /\ happened \subseteq happened'
           /\ budget' \in 0 .. MaxFaults
           /\ kind \in Excepted => kind \in happened'
<1>1. happened' = happened \cup ({kind} \cap Excepted) /\ kind \in Faults
  BY DEF Fault
<1>2. happened \subseteq Faults
  BY DEF SetUpTypeOK
<1>3. budget' \in 0 .. MaxFaults
  BY DEF Fault, SetUpTypeOK
<1> QED
  BY <1>1, <1>2, <1>3

\* The files, the channel and the chaincode stay as they are.
Kept == UNCHANGED <<file_vars, block, orderer, peer, synced, last, chaincode_vars>>

\* The run goes on with its services, ends, or starts.
Moved ==
    \/ pc' = pc \/ pc' = "stopped"
    \/ pc \in RunSteps /\ pc' \in RunSteps
    \/ pc = "stopped" /\ pc' = "crypto-config"
    \/ pc' = "launch" /\ "skip" \in happened'

FaultsKept ==
    happened \subseteq happened' /\ happened' \subseteq Faults /\ budget' \in 0 .. MaxFaults

\* What does not belong to the set-up and leaves its results alone.
Beside == Kept /\ Moved /\ FaultsKept /\ force_rejoin' \in BOOLEAN

\* A step without a fault keeps the account of faults.
LEMMA NoFault ==
    ASSUME SetUpTypeOK, UNCHANGED fault_vars
    PROVE  FaultsKept
BY DEF SetUpTypeOK, fault_vars, FaultsKept

\* So does a step with one.
LEMMA SomeFault ==
    ASSUME SetUpTypeOK, NEW kind, Fault(kind)
    PROVE  FaultsKept
BY FaultEffect DEF FaultsKept

\* All but the set-up's own steps, the peer's and a removal of volumes are beside it.
LEMMA BesideSteps ==
    ASSUME TypeOK, [Next]_vars, ~SetUp, ~SetUpFault, ~PeerSyncs, ~LoseOrderer, ~Teardown
    PROVE  Beside
<1> USE DEF Beside, Kept, Moved, deployment_vars, channel_vars, Goto
<1>0. SetUpTypeOK /\ force_rejoin \in BOOLEAN
  BY DEF TypeOK, SetUpTypeOK
<1>1. CASE Start
  BY <1>0, <1>1, NoFault DEF Start
<1>2. CASE StartSkippingSetUp
  <2>1. "skip" \in happened'
    BY <1>0, <1>2, FaultEffect DEF StartSkippingSetUp, Excepted
  <2> QED
    BY <1>0, <1>2, <2>1, SomeFault DEF StartSkippingSetUp
<1>3. CASE Launch
  BY <1>0, <1>3, NoFault DEF Launch, RunSteps
<1>4. CASE WaitForService
  BY <1>0, <1>4, NoFault DEF WaitForService, RunSteps
<1>5. CASE LaunchFails
  <2>1. UNCHANGED fault_vars \/ Fault("service")
    BY <1>5 DEF LaunchFails
  <2>2. FaultsKept
    BY <1>0, <2>1, NoFault, SomeFault
  <2> QED
    BY <1>0, <1>5, <2>2 DEF LaunchFails
<1>6. CASE Ingest \/ QueryTrail \/ Verify \/ Benchmark
  BY <1>0, <1>6, NoFault DEF Ingest, QueryTrail, Verify, Benchmark, RunSteps
<1>7. CASE DemoFails
  BY <1>0, <1>7, NoFault DEF DemoFails
<1>8. CASE Interrupt
  BY <1>0, <1>8, SomeFault DEF Interrupt
<1>9. CASE Serve
  BY <1>0, <1>9, NoFault DEF Serve, Bind, Subscribe, StoppingEnds
<1>10. CASE LogSample
  BY <1>0, <1>10, NoFault DEF LogSample, Log
<1>11. CASE ServiceDies
  BY <1>0, <1>11, SomeFault DEF ServiceDies
<1>12. CASE Crash
  BY <1>0, <1>12, SomeFault DEF Crash
<1>13. CASE UNCHANGED vars
  BY <1>0, <1>13, NoFault DEF vars
<1> QED
  BY <1>1, <1>2, <1>3, <1>4, <1>5, <1>6, <1>7, <1>8, <1>9, <1>10, <1>11, <1>12, <1>13
     DEF Next, Run, SetUpStep, Environment

-----------------------------------------------------------------------------
(* The steps beside the set-up keep what it has done.                      *)

SetUpInv ==
    /\ SetUpTypeOK /\ pc \in SetUpSteps \cup RunSteps
    /\ PairState /\ ChannelState /\ LedgerState

\* And these keep what the set-up has done.
LEMMA BesideKeeps ==
    ASSUME SetUpInv, Beside
    PROVE  SetUpInv'
<1> USE DEF SetUpInv, Beside, Kept, FaultsKept, file_vars, pair_vars, chaincode_vars
<1>1. SetUpTypeOK' /\ pc' \in SetUpSteps \cup RunSteps
  BY DEF SetUpTypeOK, Moved, SetUpSteps, RunSteps, Artifacts
<1>2. \/ pc' = pc
      \/ pc' \notin {"key_open", "cert", "cert_open", "create", "join", "reset", "unlink"}
                     \cup InSetUp
         /\ (pc' \in RunSteps => pc \in RunSteps \/ "skip" \in happened')
  BY DEF Moved, RunSteps, InSetUp
<1>3. PairState'
  BY <1>2 DEF PairState
<1>4. ChannelState'
  BY <1>2 DEF ChannelState, Created, InSetUp
<1>5. LedgerState'
  BY <1>2 DEF LedgerState, InSetUp
<1> QED
  BY <1>1, <1>3, <1>4, <1>5

\* A lost orderer and a teardown leave no channel behind that a peer could miss.
LEMMA LostKeeps ==
    ASSUME SetUpInv, LoseOrderer \/ Teardown
    PROVE  SetUpInv'
<1> USE DEF SetUpInv
<1>1. /\ pc = "stopped" /\ pc' = pc /\ orderer' = 0 /\ peer' \in {0, peer}
      /\ synced' \in {FALSE, synced} /\ installed' \in {FALSE, installed}
      /\ happened \subseteq happened' /\ happened' \subseteq Faults
      /\ budget' \in 0 .. MaxFaults
      /\ UNCHANGED <<file_vars, block, last, force_rejoin, approved, committed>>
  <2>1. FaultsKept
    BY SomeFault DEF LoseOrderer, Teardown
  <2> QED
    BY <2>1 DEF LoseOrderer, Teardown, FaultsKept, chaincode_vars
<1>2. SetUpTypeOK' /\ pc' \in SetUpSteps \cup RunSteps
  BY <1>1 DEF SetUpTypeOK, file_vars, pair_vars
<1>3. PairState'
  BY <1>1 DEF PairState, file_vars, pair_vars
<1>4. ChannelState'
  BY <1>1 DEF ChannelState, Created, InSetUp
<1>5. 0 \notin committed
  BY DEF SetUpTypeOK, Channels
<1>6. LedgerState'
  BY <1>1, <1>5 DEF LedgerState, RunSteps
<1> QED
  BY <1>2, <1>3, <1>4, <1>6

-----------------------------------------------------------------------------
(* The steps of the set-up.                                                *)

\* Nothing changes but where the run is.
LEMMA GotoKeeps ==
    ASSUME SetUpInv, Kept, FaultsKept, UNCHANGED force_rejoin,
           \/ pc' \in {"stopped", "genesis.block", "channel.tx", "key", "check"}
           \/ pc = "committed" /\ pc' = "package"
           \/ pc = "package" /\ pc' = "install"
           \/ pc = "reach" /\ pc' = "approve"
           \/ pc = "reach" /\ pc' = "launch" /\ "not_found" \in happened'
           \/ pc = "check" /\ pc' = "create" /\ block = 0
           \/ pc = "check" /\ pc' = "join" /\ block # 0 /\ orderer # 0
           \/ pc = "check" /\ pc' = "reset" /\ (orderer = 0 \/ "unreachable" \in happened')
           \/ pc = "reset" /\ pc' = "unlink" /\ "volume" \in happened'
           \/ pc = "join" /\ pc' = "committed" /\ peer # 0
           \/ pc = "committed" /\ pc' = "launch" /\ peer \in committed
    PROVE  SetUpInv'
<1> USE DEF SetUpInv, Kept, FaultsKept, file_vars, pair_vars, chaincode_vars
<1>1. SetUpTypeOK' /\ pc' \in SetUpSteps \cup RunSteps
  BY DEF SetUpTypeOK, SetUpSteps, RunSteps, Artifacts
<1>2. PairState'
  BY DEF PairState
<1>3. ChannelState'
  BY DEF ChannelState, Created, InSetUp
<1>4. LedgerState'
  BY DEF LedgerState, ChannelState, InSetUp, RunSteps
<1> QED
  BY <1>1, <1>2, <1>3, <1>4

\* Generating an artifact, wholly or in part, changes that file only.
LEMMA GenerateKeeps ==
    ASSUME SetUpInv, NEW f \in Artifacts, Generate(f) \/ GenerateTorn(f)
    PROVE  SetUpInv'
<1> USE DEF SetUpInv
<1>1. /\ pc = f /\ f \in {"crypto-config", "genesis.block", "channel.tx", "package"}
      /\ pc' \in {"stopped", "genesis.block", "channel.tx", "key", "install"}
      /\ pc' = "install" => pc = "package"
  BY DEF Generate, GenerateTorn, Goto, Artifacts
<1>2. /\ FaultsKept
      /\ files' \in [Artifacts -> {"none", "partial", "done"}]
      /\ UNCHANGED <<pair_vars, channel_vars, chaincode_vars>>
  <2>1. UNCHANGED fault_vars \/ Fault("torn")
    BY DEF Generate, GenerateTorn
  <2>2. FaultsKept
    BY <2>1, NoFault, SomeFault
  <2> QED
    BY <2>2 DEF Generate, GenerateTorn, SetUpTypeOK
<1>3. SetUpTypeOK' /\ pc' \in SetUpSteps \cup RunSteps
  BY <1>1, <1>2 DEF SetUpTypeOK, FaultsKept, SetUpSteps, Artifacts, pair_vars,
     channel_vars, chaincode_vars
<1>4. PairState'
  BY <1>1, <1>2 DEF PairState, pair_vars
<1>5. ChannelState'
  BY <1>1, <1>2 DEF ChannelState, Created, InSetUp, channel_vars, chaincode_vars
<1>6. LedgerState'
  BY <1>1, <1>2 DEF LedgerState, FaultsKept, RunSteps, channel_vars, chaincode_vars
<1> QED
  BY <1>3, <1>4, <1>5, <1>6

\* A key is written where there is no pair, and then its certificate.
LEMMA PairKeeps ==
    ASSUME SetUpInv, OpenKey \/ WriteKey \/ OpenCert \/ WriteCert
    PROVE  SetUpInv'
<1> USE DEF SetUpInv
<1>1. /\ FaultsKept
      /\ pc' \in {"key_open", "cert", "cert_open", "check"}
      /\ UNCHANGED <<files, channel_vars, chaincode_vars>>
  BY NoFault DEF OpenKey, WriteKey, OpenCert, WriteCert, Goto
<1>2. /\ pair \in 0 .. MaxPairs
      /\ {agent_sk, agent_pem} \subseteq Pairs \cup {0, Empty}
      /\ Empty \notin 0 .. MaxPairs
  BY DEF SetUpTypeOK, Empty
<1>3. /\ pair' \in 0 .. MaxPairs
      /\ {agent_sk', agent_pem'} \subseteq Pairs \cup {0, Empty}
      /\ PairState'
  <2>1. CASE OpenKey
    BY <1>2, <2>1 DEF OpenKey, Goto, PairState, AgentPairExists, Empty
  <2>2. CASE WriteKey
    BY <1>2, <2>2 DEF WriteKey, Goto, PairState, Pairs
  <2>3. CASE OpenCert
    BY <1>2, <2>3 DEF OpenCert, Goto, PairState
  <2>4. CASE WriteCert
    BY <1>2, <2>4 DEF WriteCert, Goto, PairState, Pairs, Empty
  <2> QED
    BY <2>1, <2>2, <2>3, <2>4
<1>4. SetUpTypeOK' /\ pc' \in SetUpSteps \cup RunSteps
  BY <1>1, <1>3 DEF SetUpTypeOK, FaultsKept, SetUpSteps, channel_vars, chaincode_vars
<1>5. ChannelState'
  BY <1>1 DEF ChannelState, Created, InSetUp, channel_vars, chaincode_vars
<1>6. LedgerState'
  BY <1>1 DEF LedgerState, FaultsKept, RunSteps, channel_vars, chaincode_vars
<1> QED
  BY <1>3, <1>4, <1>5, <1>6

\* The peer is reset, and the block file goes with its ledger.
LEMMA ResetKeeps ==
    ASSUME SetUpInv, ResetPeer \/ UnlinkBlock
    PROVE  SetUpInv'
<1> USE DEF SetUpInv
<1>1. CASE ResetPeer
  <2>1. /\ pc = "reset" /\ pc' = "unlink" /\ FaultsKept
        /\ peer' = 0 /\ synced' = FALSE /\ installed' = FALSE
        /\ UNCHANGED <<file_vars, block, orderer, last, force_rejoin, approved, committed>>
    BY <1>1, NoFault DEF ResetPeer, Goto
  <2>2. SetUpTypeOK' /\ pc' \in SetUpSteps \cup RunSteps
    BY <2>1 DEF SetUpTypeOK, FaultsKept, SetUpSteps, file_vars, pair_vars
  <2>3. PairState'
    BY <2>1 DEF PairState, file_vars, pair_vars
  <2>4. ChannelState'
    BY <2>1 DEF ChannelState, Created, InSetUp
  <2>5. 0 \notin committed
    BY DEF SetUpTypeOK, Channels
  <2>6. LedgerState'
    BY <2>1, <2>5 DEF LedgerState, FaultsKept, RunSteps
  <2> QED
    BY <2>2, <2>3, <2>4, <2>6
<1>2. CASE UnlinkBlock
  <2>1. /\ pc = "unlink" /\ pc' = "create" /\ FaultsKept
        /\ block' = 0 /\ force_rejoin' = TRUE
        /\ UNCHANGED <<file_vars, orderer, peer, synced, last, chaincode_vars>>
    BY <1>2, NoFault DEF UnlinkBlock, Goto
  <2>2. SetUpTypeOK' /\ pc' \in SetUpSteps \cup RunSteps
    BY <2>1 DEF SetUpTypeOK, FaultsKept, SetUpSteps, file_vars, pair_vars,
     chaincode_vars
  <2>3. PairState'
    BY <2>1 DEF PairState, file_vars, pair_vars
  <2>4. ChannelState'
    BY <2>1 DEF ChannelState, Created, InSetUp, chaincode_vars
  <2>5. LedgerState'
    BY <2>1 DEF LedgerState, FaultsKept, RunSteps, chaincode_vars
  <2> QED
    BY <2>2, <2>3, <2>4, <2>5
<1> QED
  BY <1>1, <1>2

\* A channel is created where the orderer has none, and nothing is committed on it yet.
LEMMA CreateKeeps ==
    ASSUME SetUpInv, CreateChannel \/ CreateTorn
    PROVE  SetUpInv'
<1> USE DEF SetUpInv
<1>1. /\ pc = "create" /\ orderer = 0 /\ block = 0
      /\ last' = last + 1 /\ last < MaxChannels /\ orderer' = last + 1
      /\ FaultsKept
      /\ \/ pc' = "join" /\ block' = last + 1
         \/ pc' = "stopped" /\ block' = 0
      /\ UNCHANGED <<file_vars, peer, synced, force_rejoin, chaincode_vars>>
  <2>1. pc = "create" /\ block = 0
    BY DEF CreateChannel, CreateTorn, Goto, ChannelState
  <2>2. UNCHANGED fault_vars \/ Fault("torn")
    BY DEF CreateChannel, CreateTorn
  <2>3. FaultsKept
    BY <2>2, NoFault, SomeFault
  <2> QED
    BY <2>1, <2>3 DEF CreateChannel, CreateTorn, Goto
<1>2. last \in Nat /\ last + 1 \in Channels /\ last + 1 \in 0 .. MaxChannels
  BY <1>1 DEF SetUpTypeOK, Channels
<1>3. SetUpTypeOK' /\ pc' \in SetUpSteps \cup RunSteps
  BY <1>1, <1>2 DEF SetUpTypeOK, FaultsKept, SetUpSteps, file_vars, pair_vars,
     chaincode_vars
<1>4. PairState'
  BY <1>1 DEF PairState, file_vars, pair_vars
<1>5. /\ 1 .. last \subseteq 1 .. last + 1 /\ last + 1 \in 1 .. last + 1
      /\ last + 1 \notin 1 .. last /\ last + 1 # 0
  BY <1>2
<1>6. ChannelState'
  BY <1>1, <1>5 DEF ChannelState, Created, InSetUp, chaincode_vars
<1>7. last + 1 \notin committed
  BY <1>5 DEF ChannelState, Created, SetUpTypeOK
<1>8. peer \in {0, block} => peer = 0
  BY <1>1
<1>9. LedgerState'
  BY <1>1, <1>7, <1>8 DEF LedgerState, FaultsKept, RunSteps, chaincode_vars
<1> QED
  BY <1>3, <1>4, <1>6, <1>9

\* The peer joins the channel of the block file, which is the orderer's.
LEMMA JoinKeeps ==
    ASSUME SetUpInv, Join \/ Sync
    PROVE  SetUpInv'
<1> USE DEF SetUpInv
<1>1. CASE Join
  <2>1. /\ pc = "join" /\ pc' = "committed" /\ peer = 0 /\ peer' = block
        /\ synced' \in BOOLEAN /\ FaultsKept
        /\ block # 0 /\ orderer = block
        /\ UNCHANGED <<file_vars, block, orderer, last, force_rejoin, chaincode_vars>>
    BY <1>1, NoFault DEF Join, Goto, ChannelState
  <2>2. SetUpTypeOK' /\ pc' \in SetUpSteps \cup RunSteps
    BY <2>1 DEF SetUpTypeOK, FaultsKept, SetUpSteps, file_vars, pair_vars,
     chaincode_vars
  <2>3. PairState'
    BY <2>1 DEF PairState, file_vars, pair_vars
  <2>4. ChannelState'
    BY <2>1 DEF ChannelState, Created, InSetUp, chaincode_vars
  <2>5. LedgerState'
    BY <2>1 DEF LedgerState, FaultsKept, RunSteps, chaincode_vars
  <2> QED
    BY <2>2, <2>3, <2>4, <2>5
<1>2. CASE Sync
  <2>1. /\ synced' = TRUE /\ FaultsKept
        /\ UNCHANGED <<pc, file_vars, block, orderer, peer, last, force_rejoin,
                       chaincode_vars>>
    BY <1>2, NoFault DEF Sync
  <2>2. SetUpTypeOK' /\ pc' \in SetUpSteps \cup RunSteps
    BY <2>1 DEF SetUpTypeOK, FaultsKept, file_vars, pair_vars, chaincode_vars
  <2>3. PairState'
    BY <2>1 DEF PairState, file_vars, pair_vars
  <2>4. ChannelState'
    BY <2>1 DEF ChannelState, Created, InSetUp, chaincode_vars
  <2>5. LedgerState'
    BY <2>1 DEF LedgerState, FaultsKept, RunSteps, chaincode_vars
  <2> QED
    BY <2>2, <2>3, <2>4, <2>5
<1> QED
  BY <1>1, <1>2

\* The chaincode is committed only where the peer has the orderer's channel, with the
\* package installed.
LEMMA LifecycleKeeps ==
    ASSUME SetUpInv, Install \/ Approve \/ Commit
    PROVE  SetUpInv'
<1> USE DEF SetUpInv
<1>1. /\ FaultsKept
      /\ UNCHANGED <<file_vars, channel_vars>>
      /\ pc \in {"install", "approve", "commit"}
      /\ pc' \in {"reach", "commit", "launch"}
      /\ pc \in InSetUp /\ peer # 0 /\ block # 0 /\ orderer = block
      /\ peer \in Created /\ peer \in Channels
  <2>1. pc \in {"install", "approve", "commit"} /\ pc' \in {"reach", "commit", "launch"}
    BY DEF Install, Approve, Commit, Goto
  <2>2. pc \in InSetUp
    BY <2>1 DEF InSetUp
  <2>3. FaultsKept /\ UNCHANGED <<file_vars, channel_vars>>
    BY NoFault DEF Install, Approve, Commit
  <2> QED
    BY <2>1, <2>2, <2>3 DEF ChannelState, SetUpTypeOK
<1>2. CASE Install
  <2>1. /\ pc' = "reach" /\ installed' = TRUE /\ UNCHANGED <<approved, committed>>
    BY <1>2 DEF Install, Goto
  <2>2. SetUpTypeOK' /\ pc' \in SetUpSteps \cup RunSteps
    BY <1>1, <2>1 DEF SetUpTypeOK, FaultsKept, SetUpSteps, file_vars, pair_vars, channel_vars
  <2>3. PairState'
    BY <1>1, <2>1 DEF PairState, file_vars, pair_vars
  <2>4. ChannelState'
    BY <1>1, <2>1 DEF ChannelState, Created, InSetUp, channel_vars
  <2>5. LedgerState'
    BY <1>1, <2>1 DEF LedgerState, FaultsKept, RunSteps, channel_vars
  <2> QED
    BY <2>2, <2>3, <2>4, <2>5
<1>3. CASE Approve
  <2>1. /\ pc = "approve" /\ pc' = "commit" /\ approved' = approved \cup {peer}
        /\ UNCHANGED <<installed, committed>>
    BY <1>3 DEF Approve, Goto
  <2>2. SetUpTypeOK' /\ pc' \in SetUpSteps \cup RunSteps
    BY <1>1, <2>1 DEF SetUpTypeOK, FaultsKept, SetUpSteps, file_vars, pair_vars, channel_vars
  <2>3. PairState'
    BY <1>1, <2>1 DEF PairState, file_vars, pair_vars
  <2>4. ChannelState'
    BY <1>1, <2>1 DEF ChannelState, Created, InSetUp, channel_vars
  <2>5. LedgerState'
    BY <1>1, <2>1 DEF LedgerState, FaultsKept, RunSteps, channel_vars
  <2> QED
    BY <2>2, <2>3, <2>4, <2>5
<1>4. CASE Commit
  <2>1. /\ pc = "commit" /\ pc' = "launch" /\ committed' = committed \cup {peer}
        /\ peer = orderer /\ peer \in approved /\ installed
        /\ UNCHANGED <<installed, approved>>
    BY <1>4 DEF Commit, Goto, ChannelState
  <2>2. SetUpTypeOK' /\ pc' \in SetUpSteps \cup RunSteps
    BY <1>1, <2>1 DEF SetUpTypeOK, FaultsKept, RunSteps, file_vars, pair_vars, channel_vars
  <2>3. PairState'
    BY <1>1, <2>1 DEF PairState, file_vars, pair_vars
  <2>4. ChannelState'
    BY <1>1, <2>1 DEF ChannelState, Created, InSetUp, channel_vars
  <2>5. LedgerState'
    BY <1>1, <2>1 DEF LedgerState, FaultsKept, channel_vars
  <2> QED
    BY <2>2, <2>3, <2>4, <2>5
<1> QED
  BY <1>2, <1>3, <1>4

\* Every step of the set-up keeps its invariant.
LEMMA SetUpKeeps ==
    ASSUME SetUpInv, SetUp \/ SetUpFault \/ Sync
    PROVE  SetUpInv'
<1> USE DEF Goto, Kept, channel_vars
<1>0. SetUpTypeOK
  BY DEF SetUpInv
<1>1. CASE AgentPairThere \/ StackDown \/ CreateRefused \/ JoinRefused \/ InstallRefused
           \/ OrdererReachable \/ LifecycleRefused
  BY <1>0, <1>1, NoFault, GotoKeeps DEF AgentPairThere, StackDown, CreateRefused,
     JoinRefused, InstallRefused, OrdererReachable, LifecycleRefused
<1>2. CASE CheckOrderer
  BY <1>0, <1>2, NoFault, GotoKeeps DEF CheckOrderer
<1>3. CASE AlreadyJoined \/ CheckCommitted
  BY <1>0, <1>3, NoFault, GotoKeeps DEF AlreadyJoined, CheckCommitted
<1>4. CASE CheckOrdererFails
  <2>1. FaultsKept /\ "unreachable" \in happened'
    BY <1>0, <1>4, SomeFault, FaultEffect DEF CheckOrdererFails, Excepted
  <2> QED
    BY <1>4, <2>1, GotoKeeps DEF CheckOrdererFails
<1>5. CASE ResetPeerFails
  <2>1. FaultsKept /\ "volume" \in happened'
    BY <1>0, <1>5, SomeFault, FaultEffect DEF ResetPeerFails, Excepted
  <2> QED
    BY <1>5, <2>1, GotoKeeps DEF ResetPeerFails
<1>6. CASE OrdererNotFound
  <2>1. FaultsKept /\ "not_found" \in happened'
    BY <1>0, <1>6, SomeFault, FaultEffect DEF OrdererNotFound, Excepted
  <2> QED
    BY <1>6, <2>1, GotoKeeps DEF OrdererNotFound
<1> QED
  BY <1>1, <1>2, <1>3, <1>4, <1>5, <1>6, GenerateKeeps, PairKeeps, ResetKeeps, CreateKeeps,
     JoinKeeps, LifecycleKeeps DEF SetUp, SetUpFault

\* Every step at all keeps it.
LEMMA SetUpInvStep ==
    ASSUME TypeOK, SetUpInv, [Next]_vars
    PROVE  SetUpInv'
BY BesideSteps, BesideKeeps, LostKeeps, SetUpKeeps DEF PeerSyncs

\* Every step keeps the history of faults.
LEMMA HappenedGrows ==
    ASSUME TypeOK, [Next]_vars
    PROVE  happened \subseteq happened'
<1>0. SetUpTypeOK
  BY DEF TypeOK
<1>1. CASE LoseOrderer \/ Teardown
  BY <1>0, <1>1, FaultEffect DEF LoseOrderer, Teardown
<1>2. CASE SetUp \/ Sync
  <2>1. UNCHANGED fault_vars
    BY <1>2 DEF SetUp, Sync, Generate, AgentPairThere, OpenKey, WriteKey, OpenCert,
       WriteCert, StackDown, CheckOrderer, ResetPeer, UnlinkBlock, CreateChannel,
       CreateRefused, AlreadyJoined, Join, JoinRefused, CheckCommitted, Install, InstallRefused, OrdererReachable,
       Approve, Commit, LifecycleRefused
  <2> QED
    BY <2>1 DEF fault_vars
<1>3. CASE SetUpFault
  BY <1>0, <1>3, FaultEffect DEF SetUpFault, GenerateTorn, CreateTorn, CheckOrdererFails,
     ResetPeerFails, OrdererNotFound
<1>4. CASE Beside
  BY <1>4 DEF Beside, FaultsKept
<1> QED
  BY <1>1, <1>2, <1>3, <1>4, BesideSteps DEF PeerSyncs

-----------------------------------------------------------------------------
(* Who signs.                                                              *)

\* What the set-up does to the pair: half a pair is replaced and then completed.
LEMMA PairChanges ==
    ASSUME TypeOK, PairState, [Next]_vars
    PROVE  /\ PairIsWhole => UNCHANGED <<agent_sk, agent_pem>>
           /\ CertIsEmpty => UNCHANGED <<agent_sk, agent_pem>> /\ pc' # "cert_open"
           /\ pc \in BeforePair /\ pc' \notin BeforePair =>
                PairIsWhole' \/ CertIsEmpty' \/ "skip" \in happened'
<1>0. pair \in 0 .. MaxPairs /\ Empty \notin 0 .. MaxPairs
  BY DEF TypeOK, SetUpTypeOK, Empty
<1> USE DEF PairIsWhole, CertIsEmpty, PairState, BeforePair, Pairs, Goto
<1>1. CASE OpenKey \/ WriteKey \/ OpenCert
  BY <1>0, <1>1 DEF OpenKey, WriteKey, OpenCert, AgentPairExists, Empty
<1>2. CASE WriteCert
  BY <1>0, <1>2 DEF WriteCert
<1>3. CASE AgentPairThere
  BY <1>0, <1>3 DEF AgentPairThere, AgentPairExists, file_vars, pair_vars
<1>4. ASSUME NEW f \in Artifacts, Generate(f) \/ GenerateTorn(f)
      PROVE  /\ UNCHANGED <<agent_sk, agent_pem>> /\ pc' # "cert_open"
             /\ pc \in BeforePair => pc' \in BeforePair
  BY <1>4 DEF Generate, GenerateTorn, Artifacts, pair_vars
<1>5. CASE \/ StackDown \/ CheckOrderer \/ ResetPeer \/ UnlinkBlock \/ CreateChannel
           \/ CreateRefused \/ AlreadyJoined \/ Join \/ JoinRefused \/ CheckCommitted
           \/ Install \/ InstallRefused \/ OrdererReachable \/ Approve \/ Commit
           \/ LifecycleRefused
  BY <1>5 DEF StackDown, CheckOrderer, ResetPeer, UnlinkBlock, CreateChannel, CreateRefused,
     AlreadyJoined, Join, JoinRefused, CheckCommitted, Install, InstallRefused,
     OrdererReachable, Approve, Commit, LifecycleRefused, file_vars, pair_vars
<1>6. CASE CreateTorn \/ CheckOrdererFails \/ ResetPeerFails \/ OrdererNotFound
  BY <1>6 DEF CreateTorn, CheckOrdererFails, ResetPeerFails, OrdererNotFound, file_vars,
     pair_vars
<1>7. CASE Sync \/ LoseOrderer \/ Teardown
  BY <1>7 DEF Sync, LoseOrderer, Teardown, file_vars, pair_vars
<1>8. CASE Beside
  BY <1>8 DEF Beside, Kept, Moved, RunSteps, file_vars, pair_vars
<1> QED
  BY <1>1, <1>2, <1>3, <1>4, <1>5, <1>6, <1>7, <1>8, BesideSteps
     DEF SetUp, SetUpFault, PeerSyncs

\* Loggers come from launched services, and signers from loggers.
SignersFrom ==
    /\ starting' # {} => starting # {} \/ pc = "launch"
    /\ loggers' # {} => loggers # {} \/ starting # {}
    /\ \A l \in loggers' : \/ l.signer = NoSigner
                           \/ \E m \in loggers : l.signer \in {m.signer, Signing(m)}
    /\ \/ newest' \in {newest, NoSigner}
       \/ \E m \in loggers : newest' = Signing(m) /\ Signing(m).pair # 0

\* Processes that are left or stopped keep what they sign with.
LEMMA OwnBecomeEffect ==
    ASSUME TypeOK, NEW whose \in Whose, OwnBecome(whose)
    PROVE  /\ starting' = {} /\ port' \in [Apis -> Whose \cup {"nobody"}]
           /\ loggers' \subseteq Loggers
           /\ loggers' # {} => loggers # {}
           /\ \A l \in loggers' : \E m \in loggers : l.signer = m.signer
<1>1. \A l \in loggers : l \in Loggers
  BY DEF TypeOK
<1>2. \A l \in loggers, w \in Whose :
        [l EXCEPT !.whose = w] \in Loggers /\ [l EXCEPT !.whose = w].signer = l.signer
  BY <1>1 DEF Loggers
<1>3. \A l \in loggers : l.whose \in Whose
  BY <1>1 DEF Loggers
<1>4. \A l \in loggers :
        LET m == [l EXCEPT !.whose = IF @ = "own" THEN whose ELSE @]
        IN  m \in Loggers /\ m.signer = l.signer
  BY <1>2, <1>3
<1>5. starting' = {} /\ port' \in [Apis -> Whose \cup {"nobody"}]
  BY DEF OwnBecome, TypeOK
<1> QED
  BY <1>4, <1>5 DEF OwnBecome

\* The types of what the services keep.
ServiceTypeOK ==
    /\ starting \subseteq Services
    /\ port \in [Apis -> Whose \cup {"nobody"}]
    /\ loggers \subseteq Loggers
    /\ pending \in BOOLEAN
    /\ {newest, first} \subseteq Signers

\* Nobody counts as a signer, of no pair.
LEMMA NoSignerIsSigner == NoSigner \in Signers /\ NoSigner.pair = 0
BY DEF NoSigner, Signers

\* A step that ends the run's own processes takes signers from loggers there are.
LEMMA EndingSigners ==
    ASSUME TypeOK, NEW whose \in Whose, OwnBecome(whose),
           pending' \in BOOLEAN, newest' \in {newest, NoSigner}, first' \in {first, NoSigner}
    PROVE  SignersFrom /\ ServiceTypeOK'
<1>1. /\ starting' = {} /\ port' \in [Apis -> Whose \cup {"nobody"}]
      /\ loggers' \subseteq Loggers
      /\ loggers' # {} => loggers # {}
      /\ \A l \in loggers' : \E m \in loggers : l.signer = m.signer
  BY OwnBecomeEffect
<1>2. {newest, first} \subseteq Signers
  BY DEF TypeOK
<1>3. SignersFrom
  BY <1>1 DEF SignersFrom
<1>4. starting' \subseteq Services
  BY <1>1
<1> QED
  BY <1>1, <1>2, <1>3, <1>4, NoSignerIsSigner DEF ServiceTypeOK

\* What a logger signs with.
LEMMA SigningIsSigner ==
    ASSUME TypeOK, NEW l \in loggers
    PROVE  /\ Signing(l) \in Signers
           /\ [l EXCEPT !.signer = Signing(l)] \in Loggers
           /\ [l EXCEPT !.signer = Signing(l)].signer = Signing(l)
<1>1. l \in Loggers
  BY DEF TypeOK
<1>2. Loaded \in Signers
  BY NoSignerIsSigner DEF Loaded, Signers
<1>3. Signing(l) \in Signers
  BY <1>1, <1>2 DEF Signing, Loggers
<1> QED
  BY <1>1, <1>3 DEF Loggers

\* A logger that takes the sample signs with the key it has, or loads the file's.
LEMMA LogSigners ==
    ASSUME TypeOK, NEW l \in loggers, Log(l)
    PROVE  SignersFrom /\ ServiceTypeOK'
<1> DEFINE s == Signing(l)
           m == [l EXCEPT !.signer = s]
<1>1. /\ pending' = FALSE /\ UNCHANGED <<starting, port, first>>
      /\ newest' = newest \/ (newest' = s /\ s.pair # 0)
      /\ loggers' = (loggers \ {l}) \cup {m}
  BY DEF Log
<1>2. s \in Signers /\ m \in Loggers /\ m.signer = s
  BY SigningIsSigner
<1>3. /\ starting \subseteq Services /\ port \in [Apis -> Whose \cup {"nobody"}]
      /\ loggers \subseteq Loggers /\ {newest, first} \subseteq Signers
  BY DEF TypeOK
<1> HIDE DEF m
<1>4. \A k \in loggers' : \E j \in loggers : k.signer \in {j.signer, Signing(j)}
  BY <1>1, <1>2
<1>5. newest' = newest \/ (newest' = Signing(l) /\ Signing(l).pair # 0)
  BY <1>1
<1>6. SignersFrom
  BY <1>1, <1>4, <1>5 DEF SignersFrom
<1> HIDE DEF s
<1>7. newest' \in Signers
  BY <1>1, <1>2, <1>3
<1>8. ServiceTypeOK'
  BY <1>1, <1>2, <1>3, <1>7 DEF ServiceTypeOK
<1> QED
  BY <1>6, <1>8

\* A step that changes no logger but for ending some.
LEMMA QuietSigners ==
    ASSUME TypeOK, ServiceTypeOK',
           starting' \subseteq starting \/ pc = "launch",
           loggers' \subseteq loggers, newest' \in {newest, NoSigner}
    PROVE  SignersFrom
BY DEF SignersFrom

\* A service that starts or ends has signed nothing.
LEMMA ServeSigners ==
    ASSUME TypeOK, Serve
    PROVE  SignersFrom /\ ServiceTypeOK'
<1>0. ServiceTypeOK
  BY DEF TypeOK, ServiceTypeOK
<1>1. ASSUME NEW a \in Apis, Bind(a) PROVE SignersFrom /\ ServiceTypeOK'
  <2>1. /\ starting' \subseteq starting /\ port' = [port EXCEPT ![a] = port'[a]]
        /\ port'[a] \in {port[a], "own"}
        /\ UNCHANGED <<loggers, sample_vars>>
    BY <1>0, <1>1 DEF Bind, ServiceTypeOK
  <2>2. port[a] \in Whose \cup {"nobody"} /\ "own" \in Whose
    BY <1>0 DEF ServiceTypeOK, Whose
  <2>3. ServiceTypeOK'
    BY <1>0, <2>1, <2>2 DEF ServiceTypeOK, sample_vars
  <2> QED
    BY <2>1, <2>3, QuietSigners DEF sample_vars
<1>2. CASE Subscribe
  <2> DEFINE new == [signer |-> NoSigner, whose |-> "own"]
  <2>1. /\ "blockchain-logger" \in starting /\ starting' \subseteq starting
        /\ loggers' \subseteq loggers \cup {new}
        /\ UNCHANGED <<port, sample_vars>>
    BY <1>2 DEF Subscribe
  <2>2. new \in Loggers /\ new.signer = NoSigner
    BY NoSignerIsSigner DEF Loggers, Whose
  <2> HIDE DEF new
  <2>3. ServiceTypeOK'
    BY <1>0, <2>1, <2>2 DEF ServiceTypeOK, sample_vars
  <2>4. SignersFrom
    BY <2>1, <2>2 DEF SignersFrom, sample_vars
  <2> QED
    BY <2>3, <2>4
<1>3. CASE StoppingEnds
  <2>1. /\ loggers' \subseteq loggers /\ UNCHANGED <<starting, sample_vars>>
        /\ port' = port \/ \E a \in Apis : port' = [port EXCEPT ![a] = "nobody"]
    BY <1>3 DEF StoppingEnds
  <2>2. ServiceTypeOK'
    BY <1>0, <2>1 DEF ServiceTypeOK, sample_vars
  <2> QED
    BY <2>1, <2>2, QuietSigners DEF sample_vars
<1> QED
  BY <1>1, <1>2, <1>3 DEF Serve

\* Where the signers of a step's loggers and of its newest record come from.
LEMMA SignersStep ==
    ASSUME TypeOK, [Next]_vars
    PROVE  SignersFrom /\ ServiceTypeOK'
<1>0. ServiceTypeOK
  BY DEF TypeOK, ServiceTypeOK
<1>1. CASE UNCHANGED <<service_vars, sample_vars>>
  <2>1. ServiceTypeOK'
    BY <1>0, <1>1 DEF ServiceTypeOK, service_vars, sample_vars
  <2> QED
    BY <1>1, <2>1, QuietSigners DEF service_vars, sample_vars
<1>2. CASE Launch
  <2>1. ServiceTypeOK'
    BY <1>0, <1>2 DEF Launch, ServiceTypeOK, sample_vars
  <2> QED
    BY <1>2, <2>1, QuietSigners DEF Launch, Goto, sample_vars
<1>3. CASE LaunchFails \/ DemoFails \/ Interrupt \/ Crash
  <2>1. /\ \E whose \in Whose : OwnBecome(whose)
        /\ newest' = newest /\ first' \in {first, NoSigner}
    BY <1>3 DEF LaunchFails, DemoFails, Interrupt, Crash, Whose, sample_vars
  <2>2. pending' \in {pending, TRUE}
    BY <1>3 DEF LaunchFails, DemoFails, Interrupt, Crash, sample_vars
  <2> QED
    BY <1>0, <2>1, <2>2, EndingSigners DEF ServiceTypeOK
<1>4. CASE Ingest \/ QueryTrail \/ Verify
  <2>1. /\ UNCHANGED service_vars /\ newest' = newest /\ pending' \in {pending, TRUE}
        /\ first' \in {first, newest, NoSigner}
    BY <1>4 DEF Ingest, QueryTrail, Verify
  <2>2. ServiceTypeOK'
    BY <1>0, <2>1, NoSignerIsSigner DEF ServiceTypeOK, service_vars
  <2> QED
    BY <2>1, <2>2, QuietSigners DEF service_vars
<1>5. CASE ServiceDies
  <2>1. /\ starting' \subseteq starting /\ loggers' \subseteq loggers
        /\ UNCHANGED sample_vars
        /\ port' = port \/ \E a \in Apis : port' = [port EXCEPT ![a] = "nobody"]
    BY <1>5 DEF ServiceDies
  <2>2. ServiceTypeOK'
    BY <1>0, <2>1 DEF ServiceTypeOK, sample_vars
  <2> QED
    BY <2>1, <2>2, QuietSigners DEF sample_vars
<1>6. CASE Teardown
  <2>1. /\ UNCHANGED service_vars /\ first' = first
        /\ pending' = FALSE /\ newest' = NoSigner
    BY <1>6 DEF Teardown
  <2>2. ServiceTypeOK'
    BY <1>0, <2>1, NoSignerIsSigner DEF ServiceTypeOK, service_vars
  <2> QED
    BY <2>1, <2>2, QuietSigners DEF service_vars
<1>7. CASE \/ Start \/ StartSkippingSetUp \/ SetUpStep \/ WaitForService \/ Benchmark
           \/ PeerSyncs \/ LoseOrderer \/ UNCHANGED vars
           \/ SetUp /\ UNCHANGED <<service_vars, sample_vars>>
  <2>1. UNCHANGED <<service_vars, sample_vars>>
    BY <1>7 DEF Start, StartSkippingSetUp, SetUpStep, WaitForService, Benchmark, PeerSyncs,
       LoseOrderer, vars
  <2> QED
    BY <1>1, <2>1
<1> QED
  BY <1>2, <1>3, <1>4, <1>5, <1>6, <1>7, ServeSigners, LogSigners
     DEF Next, Run, Environment, LogSample

\* The steps at which a service may be launched come after the pair.
LEMMA LaunchAfterPair == "launch" \notin BeforePair
BY DEF BeforePair

\* Behind a whole pair, loggers load that pair; before it there is no logger, and behind
\* an empty certificate there is no claim about them.
LEMMA SignersKept ==
    ASSUME TypeOK, PairState, SignersState, [Next]_vars
    PROVE  SignersState'
<1> SUFFICES ASSUME "skip" \notin happened'
             PROVE  /\ pc' \notin BeforePair \/ starting' # {} \/ loggers' # {}
                         \/ newest' # NoSigner => PairIsWhole' \/ CertIsEmpty'
                    /\ agent_pem' # Empty =>
                         /\ \A l \in loggers' : l.signer.pair # 0 => Valid(l.signer)'
                         /\ newest' # NoSigner => Valid(newest)'
  BY DEF SignersState
<1>1. "skip" \notin happened
  BY HappenedGrows
<1>2. /\ PairIsWhole => UNCHANGED <<agent_sk, agent_pem>>
      /\ CertIsEmpty => UNCHANGED <<agent_sk, agent_pem>> /\ pc' # "cert_open"
      /\ pc \in BeforePair /\ pc' \notin BeforePair => PairIsWhole' \/ CertIsEmpty'
  BY PairChanges
<1>3. SignersFrom
  BY SignersStep
<1>4. /\ pc \notin BeforePair \/ starting # {} \/ loggers # {} \/ newest # NoSigner
           => PairIsWhole \/ CertIsEmpty
      /\ agent_pem # Empty =>
           /\ \A l \in loggers : l.signer.pair # 0 => Valid(l.signer)
           /\ newest # NoSigner => Valid(newest)
  BY <1>1 DEF SignersState
<1>5. NoSigner.pair = 0
  BY NoSignerIsSigner
<1>6. CASE PairIsWhole
  <2>0. agent_pem # Empty
    BY <1>6 DEF PairIsWhole, Pairs, Empty
  <2>1. PairIsWhole' /\ agent_pem' = agent_pem
    BY <1>2, <1>6 DEF PairIsWhole
  <2>2. \A m \in loggers : Signing(m).pair # 0 => Valid(Signing(m))
    BY <1>4, <1>6, <2>0 DEF Signing, Loaded, Valid, PairIsWhole
  <2>3. ASSUME NEW l \in loggers', l.signer.pair # 0
        PROVE  l.signer.known /\ l.signer.pair = agent_pem'
    <3>1. PICK m \in loggers : l.signer \in {m.signer, Signing(m)}
      BY <1>3, <1>5, <2>3 DEF SignersFrom
    <3> QED
      BY <1>4, <2>0, <2>1, <2>2, <2>3, <3>1 DEF Valid
  <2>4. ASSUME newest' # NoSigner
        PROVE  newest'.known /\ newest'.pair = agent_pem'
    <3>1. newest' = newest \/ \E m \in loggers : newest' = Signing(m) /\ Signing(m).pair # 0
      BY <1>3, <2>4 DEF SignersFrom
    <3> QED
      BY <1>4, <2>0, <2>1, <2>2, <2>4, <3>1 DEF Valid
  <2> QED
    BY <2>1, <2>3, <2>4 DEF Valid
<1>7. CASE CertIsEmpty
  <2>1. CertIsEmpty' /\ agent_pem' = Empty
    BY <1>2, <1>7 DEF CertIsEmpty
  <2> QED
    BY <2>1
<1>8. CASE ~PairIsWhole /\ ~CertIsEmpty
  <2>1. pc \in BeforePair /\ starting = {} /\ loggers = {} /\ newest = NoSigner
    BY <1>4, <1>8
  <2>2. starting' = {} /\ loggers' = {} /\ newest' = NoSigner
    BY <1>3, <2>1, LaunchAfterPair DEF SignersFrom
  <2> QED
    BY <1>2, <2>1, <2>2
<1> QED
  BY <1>6, <1>7, <1>8

-----------------------------------------------------------------------------
(* The theorems.                                                           *)

\* The invariant holds at the start.
LEMMA InitHolds == Init => IInv
<1> SUFFICES ASSUME Init PROVE IInv
  OBVIOUS
<1> USE DEF Init, SetUpInit
<1>1. SetUpTypeOK
  <2>1. files \in [Artifacts -> {"none", "partial", "done"}]
    OBVIOUS
  <2>2. /\ last \in 0 .. MaxChannels /\ budget \in 0 .. MaxFaults /\ pair \in 0 .. MaxPairs
        /\ {agent_sk, agent_pem} \subseteq Pairs \cup {0, Empty}
    OBVIOUS
  <2> QED
    BY <2>1, <2>2 DEF SetUpTypeOK
<1>2. pc \in SetUpSteps \cup RunSteps
  BY DEF SetUpSteps
<1>3. TypeOK
  BY <1>1, <1>2, NoSignerIsSigner DEF TypeOK, Whose
<1>4. PairState
  BY DEF PairState
<1>5. SignersState
  BY DEF SignersState, BeforePair
<1>6. ChannelState
  BY DEF ChannelState, InSetUp
<1>7. LedgerState
  BY DEF LedgerState, RunSteps
<1> QED
  BY <1>3, <1>4, <1>5, <1>6, <1>7 DEF IInv

\* Every step keeps the invariant.
LEMMA StepKeeps ==
    ASSUME IInv, [Next]_vars
    PROVE  IInv'
<1>1. TypeOK /\ SetUpInv
  BY DEF IInv, TypeOK, SetUpInv
<1>2. SetUpInv'
  BY <1>1, SetUpInvStep
<1>3. ServiceTypeOK'
  BY <1>1, SignersStep
<1>4. TypeOK'
  BY <1>2, <1>3 DEF SetUpInv, ServiceTypeOK, TypeOK
<1>5. SignersState'
  BY <1>1, SignersKept DEF IInv
<1> QED
  BY <1>2, <1>4, <1>5 DEF SetUpInv, IInv

\* The strengthened invariant holds in every state, however often run.py is repeated,
\* whatever fails around it, and whichever processes earlier runs have left.  Of the
\* signers it says that they come after a whole key pair, or after a certificate whose
\* file was created and never written, of which nothing more is claimed.
THEOREM Invariance == Spec => []IInv
BY InitHolds, StepKeeps, PTL DEF Spec

\* Every variable of the deployment and of its processes keeps its type.
THEOREM TypeCorrect == Spec => []TypeOK
<1>1. IInv => TypeOK
  BY DEF IInv
<1> QED
  BY <1>1, Invariance, PTL

\* The newest record an auditor is shown verifies (_verify_signature in
\* query_service.py), whichever run's logger signed it and however often runs were cut
\* off before, within or after the writing of agent_sk, or before that of agent.pem;
\* unless a run skipped the set-up, or one was killed after it created agent.pem and
\* before it wrote it.
THEOREM RecordsVerify == Spec => []CachedRecordsVerify
<1>1. IInv => CachedRecordsVerify
  BY DEF IInv, SignersState, CachedRecordsVerify
<1> QED
  BY <1>1, Invariance, PTL

\* A run that reports success serves a ledger that events reach, although each step of
\* the set-up trusts what it finds; unless it was told NOT_FOUND, could not ask the
\* orderer, could not remove a volume or skipped the set-up.
THEOREM RunningIsLive == Spec => []ServedByLiveLedger
<1>1. IInv => ServedByLiveLedger
  <2> SUFFICES ASSUME IInv, pc = "running",
                      happened \cap {"not_found", "unreachable", "volume", "skip"} = {}
               PROVE  Live
    BY DEF ServedByLiveLedger
  <2>1. orderer \in committed
    BY DEF IInv, LedgerState, RunSteps
  <2>2. peer = orderer /\ installed
    BY <2>1 DEF IInv, LedgerState
  <2>3. orderer # 0
    BY <2>1 DEF IInv, TypeOK, SetUpTypeOK, Channels
  <2> QED
    BY <2>1, <2>2, <2>3 DEF Live
<1> QED
  BY <1>1, Invariance, PTL

\* A whole key pair is never replaced by a later run: what was signed keeps verifying.
THEOREM PairKept == Spec => AgentPairIsKept
<1>1. IInv /\ [Next]_vars =>
        [PairIsWhole => UNCHANGED <<agent_sk, agent_pem>>]_vars
  BY PairChanges DEF IInv
<1> QED
  BY <1>1, Invariance, PTL DEF Spec, AgentPairIsKept

\* What a set-up step does to a ledger that events reach: nothing, or it is reset for
\* an orderer that could not be asked.
LEMMA LiveKept ==
    ASSUME IInv, [Next]_vars, Live, ~Live', ~LoseOrderer, ~Teardown
    PROVE  "unreachable" \in happened'
<1>0. TypeOK
  BY DEF IInv
<1>1. CASE ResetPeer
  BY <1>0, <1>1, HappenedGrows DEF IInv, LedgerState, ResetPeer, Goto, Live
<1>2. CASE CreateChannel \/ CreateTorn
  BY <1>2 DEF CreateChannel, CreateTorn, Live
<1>3. CASE Join
  BY <1>3 DEF Join, Live
<1>4. CASE Install
  BY <1>4 DEF Install, Live, channel_vars
<1>5. CASE Approve \/ Commit
  BY <1>5 DEF Approve, Commit, Live, channel_vars
<1>6. CASE UNCHANGED <<orderer, peer, chaincode_vars>>
  BY <1>6 DEF Live, chaincode_vars
<1>7. CASE \/ AgentPairThere \/ OpenKey \/ WriteKey \/ OpenCert \/ WriteCert
           \/ StackDown \/ CheckOrderer \/ UnlinkBlock \/ CreateRefused \/ AlreadyJoined
           \/ JoinRefused \/ CheckCommitted \/ InstallRefused \/ OrdererReachable
           \/ LifecycleRefused \/ CheckOrdererFails \/ ResetPeerFails \/ OrdererNotFound \/ Sync
           \/ \E f \in Artifacts : Generate(f) \/ GenerateTorn(f)
  BY <1>6, <1>7 DEF AgentPairThere, OpenKey, WriteKey, OpenCert, WriteCert, StackDown,
     CheckOrderer, UnlinkBlock, CreateRefused, AlreadyJoined, JoinRefused, CheckCommitted,
     InstallRefused, OrdererReachable, LifecycleRefused, CheckOrdererFails, ResetPeerFails,
     OrdererNotFound, Sync, Generate, GenerateTorn, channel_vars
<1>8. CASE Beside
  BY <1>6, <1>8 DEF Beside, Kept
<1> QED
  BY <1>0, <1>1, <1>2, <1>3, <1>4, <1>5, <1>7, <1>8, BesideSteps
     DEF SetUp, SetUpFault, PeerSyncs

\* A ledger that events can reach is not thrown away by another run: the peer is reset
\* only for an orderer that has no channel or that could not be asked.
THEOREM LedgerKept == Spec => LiveLedgerIsKept
<1>1. IInv /\ [Next]_vars =>
        [Live /\ ~Live' => "unreachable" \in happened' \/ LoseOrderer \/ Teardown]_vars
  BY LiveKept
<1> QED
  BY <1>1, Invariance, PTL DEF Spec, LiveLedgerIsKept

\* All of it for the specification the runs check, whose fairness only adds to Spec.
THEOREM FairRuns ==
    FairSpec => /\ [](TypeOK /\ CachedRecordsVerify /\ ServedByLiveLedger)
                /\ AgentPairIsKept /\ LiveLedgerIsKept
<1>1. FairSpec => Spec
  BY PTL DEF FairSpec
<1> QED
  BY <1>1, TypeCorrect, RecordsVerify, RunningIsLive, PairKept, LedgerKept, PTL
=============================================================================

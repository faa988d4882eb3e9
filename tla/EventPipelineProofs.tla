------------------------- MODULE EventPipelineProofs -------------------------
(***************************************************************************)
(* The detector-adapter and the blockchain-logger joined by their topic    *)
(* keep what each guarantees alone, for any values of the constants, and   *)
(* the ledger holds accepted events only.  The argument: a step of the     *)
(* pipeline is a step of the logger and a step of the adapter, or leaves   *)
(* the one or the other as it is; so each component's invariant holds, and *)
(* a ledger record can be followed to a message of the topic, and from     *)
(* there to the outcome the adapter gave it.                               *)
(***************************************************************************)
EXTENDS EventPipeline, BlockchainLoggerProofs, FiniteSetTheorems

USE CarriesEvents, DetectorBounds

OnTopic == [m \in Requested |-> Cardinality(Offsets(m))]

Adapter == INSTANCE DetectorAdapterProofs
    WITH MaxFaults <- MaxDetectorFaults, Faults <- DetectorFaults,
         budget <- detector_budget, topic <- OnTopic

\* What DetectorAdapter assumes of its constants holds of the values it is given.
LEMMA AdapterAssumptions ==
    /\ MaxRequests \in Nat /\ MaxBatch \in Nat \ {0} /\ QueueLimit \in Nat \ {0}
    /\ MaxDetectorFaults \in Nat /\ DetectorFaults \subseteq Adapter!FaultKinds
BY DEF Detector!FaultKinds, Adapter!FaultKinds

-----------------------------------------------------------------------------
(* The inductive invariant, beyond those of the two components.            *)

\* Only the adapter's messages are on the topic.
CarriedByRequests ==
    \A o \in 1 .. Len(topic) : \E m \in Requested : topic[o] = Carries[m]

\* A transaction is about an event of the topic.
LoggedFromTopic ==
    \A t \in Stamps : Proposed(t) =>
        \E o \in 1 .. Len(topic) : topic[o].event_id = txs[t].rec.event_id

PipelineInv == CarriedByRequests /\ LoggedFromTopic

-----------------------------------------------------------------------------
(* The pipeline's steps are its components' steps.                         *)

\* The logger and the stores take nothing from the topic and put nothing on it.
LEMMA TopicIsProduced ==
    ASSUME (\E w \in Workers : LoggerStep(w)) \/ GroupStep \/ StoreStep
    PROVE  UNCHANGED <<topic, detector_vars>>
BY DEF LoggerStep, GroupStep, StoreStep, Step, ProcessMessage, Assign, Steal, Crash, Start,
   Poll, Parse, ParseRefused, Add, AddFails, AddGarbled, Pin, PinFails, Cat, CatFails, Sign,
   LoadKeyFails, LoadKeyRefused, Submit, SubmitFails, Confirmed, WaitFails, Cache,
   CacheFails, DeadLetter, DeadLetterLost, CommitOffset, CommitFenced, FabricCommit,
   GarbageCollect, Expire, kafka_vars

\* Both instances count alike.
LEMMA SameCardinality ==
    ASSUME NEW S
    PROVE  Detector!Cardinality(S) = Adapter!Cardinality(S)
BY DEF Detector!Cardinality, Adapter!Cardinality

\* The adapter's own definitions are those its theorems are about.
LEMMA SameAdapter ==
    /\ Detector!Init <=> Adapter!Init
    /\ Detector!Handler <=> Adapter!Handler
    /\ Detector!Exit <=> Adapter!Exit
    /\ Detector!Boot <=> Adapter!Boot
    /\ Detector!Stop <=> Adapter!Stop
    /\ Detector!Kill <=> Adapter!Kill
    /\ \A batch \in BOOLEAN, size \in 1 .. MaxBatch :
           Detector!Receive(batch, size) <=> Adapter!Receive(batch, size)
    /\ \A q \in queue : /\ Detector!Deliver(q) <=> Adapter!Deliver(q)
                        /\ Detector!DeliverUnacked(q) <=> Adapter!DeliverUnacked(q)
                        /\ Detector!TimeOut(q) <=> Adapter!TimeOut(q)
<1> USE SameCardinality
    DEF OnTopic, Detector!Items, Adapter!Items,
    Detector!Fault, Adapter!Fault, Detector!Handling, Adapter!Handling,
    Detector!Current, Adapter!Current, Detector!Message, Adapter!Message,
    Detector!InProduce, Adapter!InProduce, Detector!Update, Adapter!Update,
    Detector!Enqueue, Adapter!Enqueue, Detector!HasRoom, Adapter!HasRoom,
    Detector!producer_vars, Adapter!producer_vars, Detector!fault_vars, Adapter!fault_vars
<1>1. Detector!Init <=> Adapter!Init
  BY DEF Detector!Init, Adapter!Init
<1>2. Detector!Handler <=> Adapter!Handler
  <2>1. /\ Detector!Produce <=> Adapter!Produce
        /\ Detector!ProduceFails <=> Adapter!ProduceFails
    BY DEF Detector!Produce, Adapter!Produce, Detector!ProduceFails, Adapter!ProduceFails
  <2>2. Detector!Respond <=> Adapter!Respond
    BY DEF Detector!Respond, Adapter!Respond
  <2>3. /\ Detector!Accept <=> Adapter!Accept
        /\ Detector!Refuse <=> Adapter!Refuse
        /\ Detector!AnswerBatch <=> Adapter!AnswerBatch
    BY <2>2 DEF Detector!Accept, Adapter!Accept, Detector!Refuse, Adapter!Refuse,
       Detector!AnswerBatch, Adapter!AnswerBatch
  <2> QED
    BY <2>1, <2>3 DEF Detector!Handler, Adapter!Handler
<1>3. /\ Detector!Exit <=> Adapter!Exit
      /\ Detector!Kill <=> Adapter!Kill
      /\ Detector!Boot <=> Adapter!Boot
      /\ Detector!Stop <=> Adapter!Stop
  BY DEF Detector!Exit, Adapter!Exit, Detector!Kill, Adapter!Kill, Detector!Boot,
     Adapter!Boot, Detector!Stop, Adapter!Stop
<1>4. \A batch \in BOOLEAN, size \in 1 .. MaxBatch :
          Detector!Receive(batch, size) <=> Adapter!Receive(batch, size)
  BY DEF Detector!Receive, Adapter!Receive
<1>5. \A q \in queue : /\ Detector!Deliver(q) <=> Adapter!Deliver(q)
                       /\ Detector!DeliverUnacked(q) <=> Adapter!DeliverUnacked(q)
                       /\ Detector!TimeOut(q) <=> Adapter!TimeOut(q)
  BY DEF Detector!Deliver, Adapter!Deliver, Detector!DeliverUnacked, Adapter!DeliverUnacked,
     Detector!TimeOut, Adapter!TimeOut, Detector!Arrive, Adapter!Arrive
<1> QED
  BY <1>1, <1>2, <1>3, <1>4, <1>5

\* Every step of the pipeline is one of the adapter or leaves the adapter alone.
LEMMA StepOfAdapter ==
    ASSUME [PipelineNext]_pipeline_vars
    PROVE  [Adapter!Next]_Adapter!vars
<1>1. UNCHANGED <<topic, detector_vars>> => UNCHANGED Adapter!vars
  <2> SUFFICES ASSUME UNCHANGED <<topic, detector_vars>>
               PROVE  UNCHANGED Adapter!vars
    OBVIOUS
  <2>1. OnTopic' = OnTopic
    BY DEF OnTopic, Offsets
  <2> QED
    BY <2>1 DEF detector_vars, Adapter!vars, Adapter!producer_vars, Adapter!fault_vars
<1>2. CASE Handler \/ Exit
  BY <1>2, SameAdapter DEF Handler, Exit, Adapter!Next
<1>3. CASE Accepting
  BY <1>3, SameAdapter DEF Accepting, Adapter!Next
<1>4. CASE Send \/ SendUnacked
  BY <1>4, SameAdapter DEF Send, SendUnacked, Adapter!Next
<1>5. CASE (\E w \in Workers : LoggerStep(w)) \/ GroupStep \/ StoreStep
  BY <1>1, <1>5, TopicIsProduced
<1>6. CASE UNCHANGED pipeline_vars
  BY <1>1, <1>6 DEF pipeline_vars, vars, kafka_vars
<1> QED
  BY <1>2, <1>3, <1>4, <1>5, <1>6 DEF PipelineNext

\* Every step of the pipeline is one of the logger or leaves the logger alone.
LEMMA StepOfLogger ==
    ASSUME Adapter!IInv, [PipelineNext]_pipeline_vars
    PROVE  [Next]_vars
<1>1. ASSUME NEW q \in queue, Transfer(q)
      PROVE  [Next]_vars
  <2>1. q[2] \in Requested
    BY DEF Adapter!IInv, Adapter!TypeOK, Adapter!Items, Requested
  <2>2. Carries[q[2]] \in Messages
    BY <2>1
  <2> QED
    BY <1>1, <2>2 DEF Transfer, Next
<1>2. CASE Handler \/ Exit \/ Accepting
  BY <1>2 DEF Handler, Exit, Accepting
<1>3. CASE Send \/ SendUnacked
  BY <1>1, <1>3 DEF Send, SendUnacked
<1>4. CASE (\E w \in Workers : LoggerStep(w)) \/ GroupStep \/ StoreStep
  BY <1>4 DEF LoggerStep, GroupStep, StoreStep, Next
<1>5. CASE UNCHANGED pipeline_vars
  BY <1>5 DEF pipeline_vars
<1> QED
  BY <1>2, <1>3, <1>4, <1>5 DEF PipelineNext

\* The adapter is the adapter of DetectorAdapter, whoever reads its topic.
THEOREM RefinesAdapter == PipelineSpec => Adapter!Spec
<1>1. PipelineInit => Adapter!Init
  BY SameAdapter DEF PipelineInit
<1> QED
  BY <1>1, StepOfAdapter, PTL DEF PipelineSpec, Adapter!Spec

\* And so its guarantees hold in the pipeline.
THEOREM AdapterInvariance == PipelineSpec => []Adapter!IInv
<1>1. Adapter!Spec => []Adapter!IInv
  BY Adapter!Invariance, AdapterAssumptions
<1> QED
  BY <1>1, RefinesAdapter, PTL

\* The logger is the logger of BlockchainLogger, whoever fills its topic.
THEOREM RefinesLogger == PipelineSpec => Spec
<1>1. PipelineInit => Init
  BY DEF PipelineInit
<1>2. Adapter!IInv /\ [PipelineNext]_pipeline_vars => [Next]_vars
  BY StepOfLogger
<1> QED
  BY <1>1, <1>2, AdapterInvariance, PTL DEF PipelineSpec, Spec

-----------------------------------------------------------------------------
(* From the ledger back to the topic.                                      *)

\* The topic grows by the adapter's messages only, and a transaction takes its event
\* from the message its worker has in hand.
LEMMA PipelineInvStep ==
    ASSUME IInv, Adapter!IInv, PipelineInv, PipelineNext
    PROVE  PipelineInv'
<1>0. topic \in Seq(Messages)
  BY DEF IInv, TypeInv, TypeOK
<1>1. CASE Send \/ SendUnacked
  <2>1. PICK q \in queue : Transfer(q)
    BY <1>1 DEF Send, SendUnacked
  <2>2. q[2] \in Requested
    BY DEF Adapter!IInv, Adapter!TypeOK, Adapter!Items, Requested
  <2>3. UNCHANGED txs /\ (UNCHANGED topic \/ topic' = Append(topic, Carries[q[2]]))
    BY <2>1 DEF Transfer, Produce, vars, kafka_vars, fabric_vars
  <2>4. Carries[q[2]] \in Messages
    BY <2>2
  <2>5. /\ Len(topic) <= Len(topic') /\ Len(topic) \in Nat /\ Len(topic') \in Nat
        /\ \A o \in 1 .. Len(topic) : topic'[o] = topic[o]
        /\ \A o \in 1 .. Len(topic') : o > Len(topic) => topic'[o] = Carries[q[2]]
    BY <1>0, <2>3, <2>4
  <2>6. CarriedByRequests'
    BY <2>2, <2>5 DEF PipelineInv, CarriedByRequests
  <2>7. LoggedFromTopic'
    BY <2>3, <2>5 DEF PipelineInv, LoggedFromTopic, Proposed
  <2> QED
    BY <2>6, <2>7 DEF PipelineInv
<1>2. CASE (\E w \in Workers : LoggerStep(w)) \/ GroupStep \/ StoreStep
  <2>1. UNCHANGED topic
    BY <1>2, TopicIsProduced
  <2>2. Next
    BY <1>2 DEF LoggerStep, GroupStep, StoreStep, Next
  <2>3. ASSUME NEW t \in Stamps, Proposed(t)'
        PROVE  \E o \in 1 .. Len(topic) : topic[o].event_id = txs'[t].rec.event_id
    <3>1. CASE Proposed(t)
      BY <2>2, <3>1, LedgerGrows DEF IInv, PipelineInv, LoggedFromTopic
    <3>2. CASE ~Proposed(t)
      <4>1. PICK w \in Workers : Submit(w) /\ stamp[w] = t
        BY <2>2, <2>3, <3>2, ProposedChanges DEF IInv
      <4>2. pc[w] \in Parsed /\ pos[w] \in 1 .. Len(topic)
        <5>1. pc[w] = "submit" /\ pos[w] \in 0 .. Len(topic)
          BY <4>1 DEF IInv, TypeInv, TypeOK, Submit
        <5>2. pos[w] >= 1
          BY <5>1 DEF IInv, TypeInv, InHand, Busy, Steps
        <5> QED
          BY <1>0, <5>1, <5>2 DEF Parsed
      <4>3. Record(w).event_id = topic[pos[w]].event_id
        BY <4>2, RecordIsRecord DEF IInv, Message
      <4>4. /\ Fabric!LogSecurityEvent(t, Org, Record(w), Record(w).timestamp)
            /\ txs \in [Stamps -> Ledger!Tx]
        BY <4>1 DEF Submit, LogEvent, IInv, Ledger!IInv, Ledger!TypeOK
      <4>5. txs'[t].rec = Fabric!Timestamped(Record(w), Record(w).timestamp)
        BY <4>4 DEF Fabric!LogSecurityEvent
      <4>6. Record(w) \in Fabric!Records
        BY <4>2, RecordIsRecord DEF IInv
      <4>7. txs'[t].rec.event_id = Record(w).event_id
        BY <4>5, <4>6 DEF Fabric!Timestamped, Fabric!Records
      <4> QED
        BY <4>2, <4>3, <4>7
    <3> QED
      BY <3>1, <3>2
  <2> QED
    BY <2>1, <2>3 DEF PipelineInv, CarriedByRequests, LoggedFromTopic
<1>3. CASE Handler \/ Exit \/ Accepting
  <2>1. UNCHANGED <<topic, txs>>
    BY <1>3 DEF Handler, Exit, Accepting, vars, kafka_vars, fabric_vars
  <2> QED
    BY <2>1 DEF PipelineInv, CarriedByRequests, LoggedFromTopic, Proposed
<1> QED
  BY <1>1, <1>2, <1>3 DEF PipelineNext

\* Both components' invariants, and the way back from the ledger to the topic.
THEOREM PipelineInvariance == PipelineSpec => [](IInv /\ Adapter!IInv /\ PipelineInv)
<1>1. PipelineInit => PipelineInv
  BY DEF PipelineInit, Init, PipelineInv, CarriedByRequests, LoggedFromTopic, Proposed,
     Fabric!Init, Fabric!NoTx
<1>2. IInv /\ Adapter!IInv /\ PipelineInv /\ [PipelineNext]_pipeline_vars => PipelineInv'
  <2>1. PipelineInv /\ UNCHANGED pipeline_vars => PipelineInv'
    BY DEF PipelineInv, CarriedByRequests, LoggedFromTopic, Proposed, pipeline_vars, vars,
       kafka_vars, fabric_vars
  <2> QED
    BY <2>1, PipelineInvStep
<1>3. PipelineSpec => []IInv
  BY RefinesLogger, Invariance, PTL
<1> QED
  BY <1>1, <1>2, <1>3, AdapterInvariance, PTL DEF PipelineSpec

\* A record of the ledger is about an event of the topic.
LEMMA RecordIsFromTopic ==
    ASSUME IInv, PipelineInv, NEW e \in EventIds, world[e] # NoRecord
    PROVE  \E o \in 1 .. Len(topic) : topic[o].event_id = e
<1>1. PICK t \in Stamps : txs[t].status = "valid" /\ txs[t].rec = world[e]
  BY DEF IInv, Ledger!IInv, Ledger!StoredByOne
<1>2. world[e].event_id = e
  BY DEF IInv, Ledger!IInv, Ledger!WrittenIffPresent
<1> QED
  BY <1>1, <1>2 DEF PipelineInv, LoggedFromTopic, Proposed

\* A message of the topic is one the adapter delivered, so it was accepted.
LEMMA OnTopicWasAccepted ==
    ASSUME IInv, Adapter!IInv, NEW m \in Requested, NEW o \in 1 .. Len(topic),
           topic[o] = Carries[m]
    PROVE  Accepted(m)
<1>1. o \in Offsets(m)
  BY DEF Offsets
<1>2. IsFiniteSet(Offsets(m))
  <2>1. Len(topic) \in Nat
    BY DEF IInv, TypeInv, TypeOK
  <2>2. Offsets(m) \in SUBSET (1 .. Len(topic)) /\ IsFiniteSet(1 .. Len(topic))
    BY <2>1, FS_Interval DEF Offsets
  <2> QED
    BY <2>2, FS_Subset
<1>3. Cardinality(Offsets(m)) \in Nat /\ Cardinality(Offsets(m)) # 0
  BY <1>1, <1>2, FS_CardinalityType, FS_EmptySet
<1>4. OnTopic[m] > 0
  BY <1>3 DEF OnTopic
<1>5. Adapter!Outcome(m) = "accepted"
  BY <1>4 DEF Adapter!IInv, Adapter!SentByOutcome, Adapter!Items, Requested
<1> QED
  BY <1>5 DEF Accepted, Detector!Outcome, Adapter!Outcome

\* What is on the ledger was accepted by the adapter, through every retry, redelivery
\* and restart on the way.
THEOREM LedgerHoldsAccepted == PipelineSpec => []LoggedWasAccepted
<1>1. IInv /\ Adapter!IInv /\ PipelineInv => LoggedWasAccepted
  <2> SUFFICES ASSUME IInv, Adapter!IInv, PipelineInv,
                      NEW e \in EventIds, world[e] # NoRecord
               PROVE  \E m \in Requested : Carries[m].event_id = e /\ Accepted(m)
    BY DEF LoggedWasAccepted
  <2>1. PICK o \in 1 .. Len(topic) : topic[o].event_id = e
    BY RecordIsFromTopic
  <2>2. PICK m \in Requested : topic[o] = Carries[m]
    BY DEF PipelineInv, CarriedByRequests
  <2> QED
    BY <2>1, <2>2, OnTopicWasAccepted
<1> QED
  BY <1>1, PipelineInvariance, PTL

-----------------------------------------------------------------------------
(* No event is lost between the two components.                            *)

\* An accepted event is somewhere: with the producer, on the topic where the group has
\* yet to get to, or behind its offset and then logged or dead-lettered.  The losses
\* that either component excepts for itself are excepted.
AcceptedIsAccountedFor ==
    ~Detector!Excused /\ ~Faulty("dlq") =>
        \A m \in Requested : Accepted(m) =>
            \/ <<"security-events", m>> \in queue
            \/ \E o \in Offsets(m) : o > committed \/ o \in dlq \/ Logged(o)

\* The two components' guarantees join at the topic: AcceptedIsKept hands the event to
\* it, and NoSilentLoss (main's commit after _send_to_dlq or process_message) takes it
\* from there.
THEOREM AcceptedAccounted == PipelineSpec => []AcceptedIsAccountedFor
<1>1. IInv /\ Adapter!AcceptedIsKept /\ NoSilentLoss => AcceptedIsAccountedFor
  <2> SUFFICES ASSUME IInv, Adapter!AcceptedIsKept, NoSilentLoss,
                      ~Detector!Excused, ~Faulty("dlq"),
                      NEW m \in Requested, Accepted(m),
                      <<"security-events", m>> \notin queue
               PROVE  \E o \in Offsets(m) : o > committed \/ o \in dlq \/ Logged(o)
    BY DEF AcceptedIsAccountedFor
  <2>1. OnTopic[m] > 0
    BY DEF Adapter!AcceptedIsKept, Adapter!Excused, Detector!Excused, Accepted,
       Detector!Outcome, Adapter!Outcome, Adapter!Items, Requested
  <2>2. Cardinality(Offsets(m)) # 0
    BY <2>1 DEF OnTopic
  <2>3. PICK o \in Offsets(m) : TRUE
    BY <2>2, FS_EmptySet
  <2>4. o \in 1 .. Len(topic) /\ Len(topic) \in Nat /\ committed \in Nat
    BY <2>3 DEF Offsets, IInv, TypeInv, TypeOK
  <2>5. o > committed \/ o \in 1 .. committed
    BY <2>4
  <2> QED
    BY <2>3, <2>5 DEF NoSilentLoss
<1>2. PipelineSpec => []Adapter!AcceptedIsKept
  <2>1. Adapter!Spec => []Adapter!AcceptedIsKept
    BY Adapter!AcceptedStays, AdapterAssumptions
  <2> QED
    BY <2>1, RefinesAdapter, PTL
<1>3. PipelineSpec => []IInv /\ []NoSilentLoss
  BY RefinesLogger, Invariance, NoLoss, PTL
<1> QED
  BY <1>1, <1>2, <1>3, PTL
=============================================================================

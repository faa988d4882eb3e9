------------------------ MODULE DetectorAdapterProofs ------------------------
(***************************************************************************)
(* The detector-adapter's safety guarantees, for any number of requests,   *)
(* any batch size, any queue limit, any number of faults and any fault     *)
(* kinds.  The argument: an event has at most one outcome, which its       *)
(* handler decides in the step in which it queues the message or does not, *)
(* and messages only move from the queue to the topic, so what is queued   *)
(* or forwarded tells the outcome.                                         *)
(***************************************************************************)
EXTENDS DetectorAdapter, FiniteSetTheorems, TLAPS

USE LimitsArePositive

Forward(m) == <<"security-events", m>>

DeadLetter(m) == <<"security-events-dlq", m>>

-----------------------------------------------------------------------------
(* The inductive invariant.                                                *)

\* No process, no handler and no queue; no client, no queue either, and a fault.
ProcessState ==
    /\ process = "down" => ~Handling /\ queue = {}
    /\ ~kafka => queue = {}
    /\ process # "down" /\ ~kafka => "no_client" \in happened

\* A single event is a request of one, and a request is answered at its end.
RequestState ==
    \A r \in 1 .. Len(requests) :
        /\ ~requests[r].batch => requests[r].size = 1
        /\ requests[r].status = "answered" => Len(requests[r].results) = requests[r].size

\* What was queued for the topic had been accepted, and for the dead letters, rejected.
SentByOutcome ==
    \A m \in Items :
        /\ Forward(m) \in queue \/ topic[m] > 0 => Outcome(m) = "accepted"
        /\ DeadLetter(m) \in queue \/ m \in dead => Outcome(m) = "rejected"

\* A message is in one place, unless it was sent without the producer knowing.
InOnePlace ==
    "ack" \notin happened =>
        \A m \in Items : topic[m] <= 1 /\ (Forward(m) \in queue => topic[m] = 0)

IInv ==
    /\ TypeOK
    /\ ProcessState
    /\ RequestState
    /\ SentByOutcome
    /\ InOnePlace
    /\ AcceptedIsKept
    /\ AnsweredBatchIsSettled

-----------------------------------------------------------------------------
(* The request in progress.                                                *)

\* The request in progress is a request; its results leave room for one more unless it
\* is complete.
LEMMA CurrentIsRequest ==
    ASSUME TypeOK, Handling
    PROVE  /\ Len(requests) \in 1 .. Len(requests) /\ Len(requests) \in Nat \ {0}
           /\ Current \in Requests /\ Current = requests[Len(requests)]
           /\ Len(Current.results) <= Current.size /\ Len(Current.results) \in Nat
           /\ Current.status = "open"
<1>1. requests \in Seq(Requests) /\ requests # <<>>
  BY DEF TypeOK, Handling
<1>2. Len(requests) \in Nat \ {0} /\ Len(requests) \in 1 .. Len(requests)
  BY <1>1
<1>3. Current \in Requests /\ Current = requests[Len(requests)]
  BY <1>1, <1>2 DEF Current
<1>4. Len(Current.results) <= Current.size /\ Len(Current.results) \in Nat
  BY <1>2, <1>3 DEF TypeOK, Requests
<1> QED
  BY <1>2, <1>3, <1>4 DEF Handling

\* An update replaces the request in hand, which is the last one.
LEMMA UpdateEffect ==
    ASSUME TypeOK, Handling, NEW request \in Requests, Update(request)
    PROVE  /\ requests' \in Seq(Requests) /\ Len(requests') = Len(requests)
           /\ \A r \in 1 .. Len(requests) :
                  requests'[r] = IF r = Len(requests) THEN request ELSE requests[r]
BY CurrentIsRequest DEF TypeOK, Update

\* An event the handler is at has no outcome yet, and is one of the items.
LEMMA MessageIsNew ==
    ASSUME TypeOK, InProduce
    PROVE  Message \in Items /\ Outcome(Message) = "none"
<1>1. /\ Len(requests) \in 1 .. MaxRequests
      /\ Len(Current.results) + 1 \in 1 .. MaxBatch
  BY CurrentIsRequest DEF InProduce, TypeOK, Requests
<1>2. Message \in Items
  BY <1>1 DEF Message, Items
<1>3. Message[1] = Len(requests) /\ Message[2] = Len(Current.results) + 1
  BY DEF Message
<1>4. ~(Message[2] <= Len(requests[Message[1]].results))
  BY <1>1, <1>3, CurrentIsRequest DEF InProduce
<1> QED
  BY <1>2, <1>4 DEF Outcome

\* Appending a result decides the event the handler is at and no other.
LEMMA AppendEffect ==
    ASSUME TypeOK, InProduce, NEW o \in Outcomes,
           Update([Current EXCEPT !.results = Append(@, o)])
    PROVE  /\ [Current EXCEPT !.results = Append(@, o)] \in Requests
           /\ Len(Current.results) + 1 <= Current.size
           /\ \A m \in Items : Outcome(m)' = IF m = Message THEN o ELSE Outcome(m)
<1> DEFINE request == [Current EXCEPT !.results = Append(@, o)]
<1>1. /\ Current \in Requests /\ Current = requests[Len(requests)]
      /\ Len(Current.results) \in Nat /\ Current.results \in Seq(Outcomes)
      /\ Len(requests) \in Nat \ {0} /\ Current.size \in Nat
      /\ Len(Current.results) + 1 <= Current.size
  BY CurrentIsRequest DEF InProduce, Requests
<1>2. /\ request.results = Append(Current.results, o)
      /\ request \in Requests
  <2> DEFINE results == Append(Current.results, o)
  <2>1. results \in Seq(Outcomes)
    BY <1>1
  <2> HIDE DEF results
  <2>2. [Current EXCEPT !.results = results] \in Requests
    BY <1>1, <2>1 DEF Requests
  <2>3. [Current EXCEPT !.results = results].results = results
    BY <1>1 DEF Requests
  <2> QED
    BY <2>2, <2>3 DEF results
<1> HIDE DEF request
<1>3. /\ Len(requests') = Len(requests) /\ requests'[Len(requests)] = request
      /\ \A r \in 1 .. Len(requests) :
           requests'[r] = IF r = Len(requests) THEN request ELSE requests[r]
  <2>1. /\ Len(requests') = Len(requests)
        /\ \A r \in 1 .. Len(requests) :
             requests'[r] = IF r = Len(requests) THEN request ELSE requests[r]
    BY <1>2, UpdateEffect DEF request, InProduce
  <2>2. Len(requests) \in 1 .. Len(requests)
    BY <1>1
  <2> QED
    BY <2>1, <2>2
<1>4. /\ Len(request.results) = Len(Current.results) + 1
      /\ \A i \in 1 .. Len(Current.results) : request.results[i] = Current.results[i]
      /\ request.results[Len(Current.results) + 1] = o
  BY <1>1, <1>2
<1>5. ASSUME NEW m \in Items
      PROVE  Outcome(m)' = IF m = Message THEN o ELSE Outcome(m)
  <2>1. /\ m = <<m[1], m[2]>> /\ m[1] \in Nat \ {0} /\ m[2] \in Nat \ {0}
    BY DEF Items
  <2>2. CASE m = Message
    <3>1. m[1] = Len(requests) /\ m[2] = Len(Current.results) + 1
      BY <2>2 DEF Message
    <3> QED
      BY <1>1, <1>3, <1>4, <2>2, <3>1 DEF Outcome
  <2>3. CASE m # Message /\ m[1] = Len(requests)
    <3>1. m[2] # Len(Current.results) + 1
      BY <2>1, <2>3 DEF Message
    <3>2. m[2] <= Len(request.results) <=> m[2] <= Len(Current.results)
      BY <1>1, <1>4, <2>1, <3>1
    <3>3. m[2] <= Len(Current.results) => request.results[m[2]] = Current.results[m[2]]
      BY <1>1, <1>4, <2>1
    <3>4. requests'[m[1]] = request /\ requests[m[1]] = Current /\ m[1] <= Len(requests)
      BY <1>1, <1>3, <2>3
    <3> QED
      BY <1>3, <2>3, <3>2, <3>3, <3>4 DEF Outcome
  <2>4. CASE m[1] # Len(requests)
    <3>1. m # Message
      BY <2>4 DEF Message
    <3> QED
      BY <1>1, <1>3, <2>1, <2>4, <3>1 DEF Outcome
  <2> QED
    BY <2>2, <2>3, <2>4
<1> QED
  BY <1>1, <1>2, <1>5 DEF request

\* Ending a request changes no outcome.
LEMMA EndEffect ==
    ASSUME TypeOK, Handling, NEW status \in {"answered", "lost"},
           Update([Current EXCEPT !.status = status])
    PROVE  /\ [Current EXCEPT !.status = status] \in Requests
           /\ \A m \in Items : Outcome(m)' = Outcome(m)
<1> DEFINE request == [Current EXCEPT !.status = status]
<1>1. /\ Current \in Requests /\ Current = requests[Len(requests)]
      /\ Len(requests) \in Nat \ {0}
  BY CurrentIsRequest
<1>2. request \in Requests /\ request.results = Current.results
  BY <1>1 DEF Requests
<1> HIDE DEF request
<1>3. /\ Len(requests') = Len(requests)
      /\ \A r \in 1 .. Len(requests) :
           requests'[r] = IF r = Len(requests) THEN request ELSE requests[r]
  BY <1>2, UpdateEffect DEF request
<1>4. \A r \in 1 .. Len(requests) : requests'[r].results = requests[r].results
  BY <1>1, <1>2, <1>3
<1> QED
  BY <1>2, <1>3, <1>4 DEF request, Outcome, Items

-----------------------------------------------------------------------------
(* The producer's queue.                                                   *)

Topics == {"security-events", "security-events-dlq"}

\* The producer's queue is finite.
LEMMA QueueIsFinite ==
    ASSUME TypeOK
    PROVE  IsFiniteSet(queue) /\ Cardinality(queue) \in Nat
<1>1. IsFiniteSet(1 .. MaxRequests) /\ IsFiniteSet(1 .. MaxBatch)
  BY FS_Interval
<1>2. IsFiniteSet(Items)
  BY <1>1, FS_Product DEF Items
<1>3. IsFiniteSet(Topics)
  <2>1. IsFiniteSet({"security-events"})
    BY FS_Singleton
  <2>2. Topics = {"security-events"} \cup {"security-events-dlq"}
    BY DEF Topics
  <2> QED
    BY <2>1, <2>2, FS_AddElement
<1>4. IsFiniteSet(Topics \X Items)
  BY <1>2, <1>3, FS_Product
<1>5. queue \in SUBSET (Topics \X Items)
  BY DEF TypeOK, Topics
<1> QED
  BY <1>4, <1>5, FS_Subset, FS_CardinalityType

\* A queue with room takes one message more; the no-op producer keeps none.
LEMMA EnqueueEffect ==
    ASSUME TypeOK, HasRoom, NEW name \in Topics, NEW m \in Items, Enqueue(name, m)
    PROVE  /\ queue' \subseteq Topics \X Items
           /\ Cardinality(queue') <= QueueLimit
           /\ queue \subseteq queue' /\ queue' \subseteq queue \cup {<<name, m>>}
           /\ kafka => <<name, m>> \in queue'
           /\ ~kafka => queue' = queue
<1>1. queue' = IF kafka THEN queue \cup {<<name, m>>} ELSE queue
  BY DEF Enqueue
<1>2. Cardinality(queue) + 1 <= QueueLimit
  BY QueueIsFinite DEF HasRoom
<1>3. Cardinality(queue \cup {<<name, m>>}) <= QueueLimit
  BY <1>2, QueueIsFinite, FS_AddElement DEF TypeOK
<1>4. queue \subseteq Topics \X Items /\ Cardinality(queue) <= QueueLimit
  BY DEF TypeOK, Topics
<1> QED
  BY <1>1, <1>3, <1>4

\* A queue that loses messages stays within its limit.
LEMMA DequeueEffect ==
    ASSUME TypeOK, NEW q \in queue
    PROVE  Cardinality(queue \ {q}) <= QueueLimit /\ Cardinality({}) <= QueueLimit
<1>1. Cardinality(queue \ {q}) = Cardinality(queue) - 1
  BY QueueIsFinite, FS_RemoveElement
<1>2. Cardinality({}) = 0
  BY FS_EmptySet
<1> QED
  BY <1>1, <1>2, QueueIsFinite DEF TypeOK

-----------------------------------------------------------------------------
(* Type correctness.                                                       *)

\* The conjuncts of TypeOK by what they are about.
QueueTypes ==
    /\ queue \subseteq Topics \X Items
    /\ Cardinality(queue) <= QueueLimit
    /\ topic \in [Items -> Nat] /\ dead \subseteq Items

RequestTypes ==
    /\ requests \in Seq(Requests) /\ Len(requests) <= MaxRequests
    /\ \A r \in 1 .. Len(requests) :
         /\ requests[r].status = "open" => r = Len(requests)
         /\ Len(requests[r].results) <= requests[r].size

ProcessTypes == process \in {"down", "up", "stopping"} /\ kafka \in BOOLEAN

FaultTypes == happened \subseteq Faults /\ budget \in 0 .. MaxFaults

\* The type invariant, in the parts that steps change separately.
LEMMA TypeParts == TypeOK <=> QueueTypes /\ RequestTypes /\ ProcessTypes /\ FaultTypes
BY DEF TypeOK, QueueTypes, RequestTypes, ProcessTypes, FaultTypes, Topics

\* The parts after a step give the whole after it.
LEMMA TypePartsKept ==
    ASSUME QueueTypes', RequestTypes', ProcessTypes', FaultTypes'
    PROVE  TypeOK'
BY DEF TypeOK, QueueTypes, RequestTypes, ProcessTypes, FaultTypes, Topics

\* A fault takes one from the budget, and what happened is not forgotten.
LEMMA FaultStep ==
    ASSUME FaultTypes, UNCHANGED fault_vars \/ \E kind : Fault(kind)
    PROVE  FaultTypes' /\ happened \subseteq happened'
BY DEF FaultTypes, fault_vars, Fault

\* An updated request keeps its type.
LEMMA UpdateTypes ==
    ASSUME TypeOK, Handling, NEW request \in Requests, Update(request),
           Len(request.results) <= request.size
    PROVE  RequestTypes'
<1>1. RequestTypes
  BY TypeParts
<1> QED
  BY <1>1, UpdateEffect DEF RequestTypes

\* What arrives is counted on its topic.
LEMMA ArriveTypes ==
    ASSUME TypeOK, NEW q \in queue, Arrive(q)
    PROVE  topic' \in [Items -> Nat] /\ dead' \subseteq Items
<1>1. q[2] \in Items
  BY DEF TypeOK
<1> QED
  BY <1>1 DEF TypeOK, Arrive

\* A new request is open and has no result yet; the earlier ones stay.
LEMMA ReceiveTypes ==
    ASSUME TypeOK, NEW batch \in BOOLEAN, NEW size \in 1 .. MaxBatch, Receive(batch, size)
    PROVE  /\ RequestTypes'
           /\ Len(requests') = Len(requests) + 1 /\ Len(requests) \in Nat
           /\ \A r \in 1 .. Len(requests) : requests'[r] = requests[r]
           /\ requests'[Len(requests) + 1].batch = batch
           /\ requests'[Len(requests) + 1].size = size
           /\ Len(requests'[Len(requests) + 1].results) = 0
           /\ requests'[Len(requests) + 1].status = "open"
<1> DEFINE request == [batch |-> batch, size |-> size, results |-> <<>>, status |-> "open"]
<1>1. request \in Requests
  BY DEF Requests
<1>2. /\ requests' = Append(requests, request)
      /\ ~Handling /\ Len(requests) < MaxRequests
  BY DEF Receive
<1>3. requests \in Seq(Requests) /\ RequestTypes
  BY TypeParts DEF RequestTypes
<1>4. /\ Len(request.results) = 0 /\ request.size = size /\ size \in Nat
      /\ request.batch = batch /\ request.status = "open"
  OBVIOUS
<1> HIDE DEF request
<1>5. /\ Len(requests) \in Nat /\ Len(requests') = Len(requests) + 1
      /\ requests' \in Seq(Requests)
      /\ \A r \in 1 .. Len(requests) : requests'[r] = requests[r]
      /\ requests'[Len(requests) + 1] = request
  BY <1>1, <1>2, <1>3
<1>6. \A r \in 1 .. Len(requests) : requests[r].status # "open"
  BY <1>2, <1>3, <1>5 DEF Handling, RequestTypes
<1>7. RequestTypes'
  BY <1>2, <1>3, <1>4, <1>5, <1>6 DEF RequestTypes
<1> QED
  BY <1>4, <1>5, <1>7

\* Every step keeps the types.
LEMMA TypeStep ==
    ASSUME TypeOK, Next
    PROVE  TypeOK'
<1>0. QueueTypes /\ RequestTypes /\ ProcessTypes /\ FaultTypes
  BY TypeParts
<1>1. CASE Boot \/ Stop
  <2>1. QueueTypes' /\ RequestTypes'
    BY <1>0, <1>1 DEF Boot, Stop, QueueTypes, RequestTypes, producer_vars
  <2>2. ProcessTypes'
    BY <1>0, <1>1, Zenon DEF Boot, Stop, ProcessTypes
  <2>3. FaultTypes'
    BY <1>0, <1>1, FaultStep DEF Boot, Stop
  <2> QED
    BY <2>1, <2>2, <2>3, TypePartsKept
<1>2. CASE Exit
  <2>1. queue' = {} /\ Cardinality({}) = 0 /\ UNCHANGED <<kafka, requests, topic, dead>>
    BY <1>2, FS_EmptySet DEF Exit
  <2>2. QueueTypes' /\ RequestTypes'
    BY <1>0, <2>1 DEF QueueTypes, RequestTypes
  <2>3. ProcessTypes'
    BY <1>0, <1>2 DEF Exit, ProcessTypes
  <2>4. FaultTypes'
    BY <1>0, <1>2, FaultStep DEF Exit
  <2> QED
    BY <2>2, <2>3, <2>4, TypePartsKept
<1>3. CASE Kill
  <2>1. queue' = {} /\ Cardinality({}) = 0 /\ UNCHANGED <<kafka, topic, dead>>
    BY <1>3, FS_EmptySet DEF Kill
  <2>2. RequestTypes'
    <3>1. CASE Handling
      <4>1. Update([Current EXCEPT !.status = "lost"])
        BY <1>3, <3>1 DEF Kill
      <4>2. [Current EXCEPT !.status = "lost"] \in Requests
        BY <3>1, <4>1, EndEffect
      <4>3. [Current EXCEPT !.status = "lost"].results = Current.results
            /\ [Current EXCEPT !.status = "lost"].size = Current.size
        BY <3>1, CurrentIsRequest DEF Requests
      <4> QED
        BY <3>1, <4>1, <4>2, <4>3, CurrentIsRequest, UpdateTypes
    <3>2. CASE ~Handling
      BY <1>0, <1>3, <3>2 DEF Kill, RequestTypes
    <3> QED
      BY <3>1, <3>2
  <2>3. ProcessTypes' /\ QueueTypes'
    BY <1>0, <1>3, <2>1 DEF Kill, ProcessTypes, QueueTypes
  <2>4. FaultTypes'
    BY <1>0, <1>3, FaultStep DEF Kill
  <2> QED
    BY <2>2, <2>3, <2>4, TypePartsKept
<1>4. ASSUME NEW batch \in BOOLEAN, NEW size \in 1 .. MaxBatch, Receive(batch, size)
      PROVE  TypeOK'
  <2>1. UNCHANGED <<process, kafka, producer_vars, fault_vars>>
    BY <1>4 DEF Receive
  <2>2. QueueTypes' /\ ProcessTypes' /\ FaultTypes'
    BY <1>0, <2>1 DEF QueueTypes, ProcessTypes, FaultTypes, producer_vars, fault_vars
  <2> QED
    BY <1>4, <2>2, ReceiveTypes, TypePartsKept
<1>5. CASE Produce
  <2>1. /\ InProduce /\ HasRoom /\ Enqueue("security-events", Message)
        /\ Update([Current EXCEPT !.results = Append(@, "accepted")])
        /\ UNCHANGED <<process, kafka, topic, dead, fault_vars>>
    BY <1>5 DEF Produce
  <2>2. RequestTypes'
    <3> DEFINE request == [Current EXCEPT !.results = Append(@, "accepted")]
    <3>1. request \in Requests /\ Len(Current.results) + 1 <= Current.size
      BY <2>1, AppendEffect DEF Outcomes
    <3>2. request.results = Append(Current.results, "accepted") /\ request.size = Current.size
      BY <2>1, CurrentIsRequest DEF InProduce, Requests
    <3>3. Len(request.results) <= request.size
      BY <2>1, <3>1, <3>2, CurrentIsRequest DEF InProduce, Requests
    <3> HIDE DEF request
    <3> QED
      BY <2>1, <3>1, <3>3, UpdateTypes DEF InProduce, request
  <2>3. QueueTypes'
    BY <1>0, <2>1, MessageIsNew, EnqueueEffect DEF QueueTypes, Topics
  <2>4. ProcessTypes' /\ FaultTypes'
    BY <1>0, <2>1 DEF ProcessTypes, FaultTypes, fault_vars
  <2> QED
    BY <2>2, <2>3, <2>4, TypePartsKept
<1>6. CASE ProduceFails
  <2>1. /\ InProduce
        /\ Update([Current EXCEPT !.results = Append(@, "rejected")])
        /\ UNCHANGED <<process, kafka, producer_vars>>
    BY <1>6 DEF ProduceFails
  <2>2. RequestTypes'
    <3> DEFINE request == [Current EXCEPT !.results = Append(@, "rejected")]
    <3>1. request \in Requests /\ Len(Current.results) + 1 <= Current.size
      BY <2>1, AppendEffect DEF Outcomes
    <3>2. request.results = Append(Current.results, "rejected") /\ request.size = Current.size
      BY <2>1, CurrentIsRequest DEF InProduce, Requests
    <3>3. Len(request.results) <= request.size
      BY <2>1, <3>1, <3>2, CurrentIsRequest DEF InProduce, Requests
    <3> HIDE DEF request
    <3> QED
      BY <2>1, <3>1, <3>3, UpdateTypes DEF InProduce, request
  <2>3. QueueTypes' /\ ProcessTypes'
    BY <1>0, <2>1 DEF QueueTypes, ProcessTypes, producer_vars
  <2>4. FaultTypes'
    BY <1>0, <1>6, FaultStep DEF ProduceFails
  <2> QED
    BY <2>2, <2>3, <2>4, TypePartsKept
<1>7. CASE Accept \/ Refuse \/ AnswerBatch
  <2>1. /\ Handling /\ Update([Current EXCEPT !.status = "answered"])
        /\ UNCHANGED <<process, kafka, topic, dead>>
    BY <1>7 DEF Accept, Refuse, AnswerBatch, Respond, producer_vars
  <2>2. RequestTypes'
    <3>1. [Current EXCEPT !.status = "answered"] \in Requests
      BY <2>1, EndEffect
    <3>2. [Current EXCEPT !.status = "answered"].results = Current.results
          /\ [Current EXCEPT !.status = "answered"].size = Current.size
      BY <2>1, CurrentIsRequest DEF Requests
    <3> QED
      BY <2>1, <3>1, <3>2, CurrentIsRequest, UpdateTypes
  <2>3. QueueTypes'
    <3>1. CASE UNCHANGED queue
      BY <1>0, <2>1, <3>1 DEF QueueTypes
    <3>2. CASE HasRoom /\ Enqueue("security-events-dlq", <<Len(requests), 1>>)
      <4>1. <<Len(requests), 1>> \in Items
        BY <2>1, CurrentIsRequest DEF TypeOK, Items
      <4> QED
        BY <1>0, <2>1, <3>2, <4>1, EnqueueEffect DEF QueueTypes, Topics
    <3> QED
      BY <1>7, <3>1, <3>2 DEF Accept, Refuse, AnswerBatch, producer_vars
  <2>4. ProcessTypes'
    BY <1>0, <2>1 DEF ProcessTypes
  <2>5. FaultTypes'
    BY <1>0, <1>7, FaultStep DEF Accept, Refuse, AnswerBatch
  <2> QED
    BY <2>2, <2>3, <2>4, <2>5, TypePartsKept
<1>8. ASSUME NEW q \in queue, Deliver(q) \/ DeliverUnacked(q) \/ TimeOut(q)
      PROVE  TypeOK'
  <2>1. /\ Arrive(q) \/ UNCHANGED <<topic, dead>>
        /\ queue' \in {queue, queue \ {q}}
        /\ UNCHANGED <<process, kafka, requests>>
    BY <1>8 DEF Deliver, DeliverUnacked, TimeOut
  <2>2. QueueTypes'
    BY <1>0, <2>1, ArriveTypes, DequeueEffect DEF QueueTypes
  <2>3. RequestTypes' /\ ProcessTypes'
    BY <1>0, <2>1 DEF RequestTypes, ProcessTypes
  <2>4. FaultTypes'
    BY <1>0, <1>8, FaultStep DEF Deliver, DeliverUnacked, TimeOut
  <2> QED
    BY <2>2, <2>3, <2>4, TypePartsKept
<1> QED
  BY <1>1, <1>2, <1>3, <1>4, <1>5, <1>6, <1>7, <1>8 DEF Next, Handler

-----------------------------------------------------------------------------
(* The process and its requests.                                           *)

\* A new request has no results, so no outcome changes.
LEMMA ReceiveOutcome ==
    ASSUME TypeOK, NEW batch \in BOOLEAN, NEW size \in 1 .. MaxBatch, Receive(batch, size)
    PROVE  \A m \in Items : Outcome(m)' = Outcome(m)
<1>1. /\ Len(requests') = Len(requests) + 1 /\ Len(requests) \in Nat
      /\ \A r \in 1 .. Len(requests) : requests'[r] = requests[r]
      /\ Len(requests'[Len(requests) + 1].results) = 0
  BY ReceiveTypes
<1> SUFFICES ASSUME NEW m \in Items
             PROVE  Outcome(m)' = Outcome(m)
  OBVIOUS
<1>2. m[1] \in Nat \ {0} /\ m[2] \in Nat \ {0}
  BY DEF Items
<1>3. CASE m[1] <= Len(requests)
  <2>1. requests'[m[1]] = requests[m[1]] /\ m[1] <= Len(requests')
    BY <1>1, <1>2, <1>3
  <2> QED
    BY <1>3, <2>1 DEF Outcome
<1>4. CASE m[1] = Len(requests) + 1
  <2>1. ~(m[1] <= Len(requests)) /\ ~(m[2] <= Len(requests'[m[1]].results))
    BY <1>1, <1>2, <1>4
  <2> QED
    BY <2>1 DEF Outcome
<1>5. CASE m[1] > Len(requests) + 1
  <2>1. ~(m[1] <= Len(requests)) /\ ~(m[1] <= Len(requests'))
    BY <1>1, <1>2, <1>5
  <2> QED
    BY <2>1 DEF Outcome
<1> QED
  BY <1>1, <1>2, <1>3, <1>4, <1>5

\* What each handler step does to the request in progress.
LEMMA AppendRequest ==
    ASSUME TypeOK, InProduce, NEW o \in Outcomes,
           Update([Current EXCEPT !.results = Append(@, o)])
    PROVE  /\ Len(requests') = Len(requests)
           /\ \A r \in 1 .. Len(requests) :
                  /\ requests'[r].batch = requests[r].batch
                  /\ requests'[r].size = requests[r].size
                  /\ requests'[r].status = requests[r].status
                  /\ requests'[r].status # "open" => requests'[r] = requests[r]
<1> DEFINE request == [Current EXCEPT !.results = Append(@, o)]
<1>1. Handling
  BY DEF InProduce
<1>2. /\ Current \in Requests /\ Current = requests[Len(requests)] /\ Current.status = "open"
  BY <1>1, CurrentIsRequest
<1>3. /\ request.batch = Current.batch /\ request.size = Current.size
      /\ request.status = Current.status
  BY <1>2 DEF Requests
<1>4. request \in Requests
  BY AppendEffect
<1> HIDE DEF request
<1>5. /\ Len(requests') = Len(requests)
      /\ \A r \in 1 .. Len(requests) :
           requests'[r] = IF r = Len(requests) THEN request ELSE requests[r]
  BY <1>1, <1>4, UpdateEffect DEF request
<1> QED
  BY <1>2, <1>3, <1>5

\* A request that is answered or lost keeps its results, and none is in hand then.
LEMMA EndRequest ==
    ASSUME TypeOK, Handling, NEW status \in {"answered", "lost"},
           Update([Current EXCEPT !.status = status])
    PROVE  /\ Len(requests') = Len(requests) /\ ~Handling'
           /\ \A r \in 1 .. Len(requests) :
                  /\ requests'[r].batch = requests[r].batch
                  /\ requests'[r].size = requests[r].size
                  /\ requests'[r].results = requests[r].results
                  /\ requests'[r].status = IF r = Len(requests) THEN status
                                           ELSE requests[r].status
<1> DEFINE request == [Current EXCEPT !.status = status]
<1>1. /\ Current \in Requests /\ Current = requests[Len(requests)]
      /\ Len(requests) \in 1 .. Len(requests)
  BY CurrentIsRequest
<1>2. /\ request.batch = Current.batch /\ request.size = Current.size
      /\ request.status = status /\ request.results = Current.results
  BY <1>1 DEF Requests
<1>3. request \in Requests
  BY EndEffect
<1> HIDE DEF request
<1>4. /\ Len(requests') = Len(requests)
      /\ \A r \in 1 .. Len(requests) :
           requests'[r] = IF r = Len(requests) THEN request ELSE requests[r]
  BY <1>3, UpdateEffect DEF request
<1>5. ~Handling'
  BY <1>1, <1>2, <1>4 DEF Handling
<1> QED
  BY <1>1, <1>2, <1>4, <1>5

\* A producer that is no Kafka client queues nothing, and a process that is down has no
\* request in hand.
LEMMA ProcessStep ==
    ASSUME TypeOK, ProcessState, Next
    PROVE  ProcessState'
<1>1. CASE Boot
  <2>1. UNCHANGED <<requests, queue>> /\ process = "down" /\ process' = "up"
    BY <1>1 DEF Boot, producer_vars
  <2>2. queue' = {}
    BY <2>1 DEF ProcessState
  <2>3. kafka' \/ "no_client" \in happened'
    BY <1>1, Zenon DEF Boot, Fault
  <2> QED
    BY <2>1, <2>2, <2>3 DEF ProcessState
<1>2. CASE Stop
  BY <1>2 DEF Stop, ProcessState, producer_vars, fault_vars
<1>3. CASE Exit
  <2>1. queue' = {} /\ ~Handling' /\ process' = "down"
    BY <1>3 DEF Exit, Handling
  <2> QED
    BY <2>1 DEF ProcessState
<1>4. CASE Kill
  <2>1. ~Handling'
    <3>1. CASE Handling
      BY <1>4, <3>1, EndRequest DEF Kill
    <3>2. CASE ~Handling
      BY <1>4, <3>2 DEF Kill, Handling
    <3> QED
      BY <3>1, <3>2
  <2> QED
    BY <1>4, <2>1 DEF Kill, ProcessState
<1>5. ASSUME NEW batch \in BOOLEAN, NEW size \in 1 .. MaxBatch, Receive(batch, size)
      PROVE  ProcessState'
  BY <1>5 DEF Receive, ProcessState, producer_vars, fault_vars
<1>6. CASE Handler
  <2>1. UNCHANGED <<process, kafka>> /\ Handling
    BY <1>6 DEF Handler, Produce, ProduceFails, Accept, Refuse, AnswerBatch, InProduce
  <2>2. ~kafka => queue' = queue
    BY <1>6 DEF Handler, Produce, ProduceFails, Accept, Refuse, AnswerBatch, Enqueue,
       producer_vars
  <2>3. happened \subseteq happened'
    BY <1>6 DEF Handler, Produce, ProduceFails, Accept, Refuse, AnswerBatch, Fault, fault_vars
  <2> QED
    BY <2>1, <2>2, <2>3 DEF ProcessState
<1>7. ASSUME NEW q \in queue, Deliver(q) \/ DeliverUnacked(q) \/ TimeOut(q)
      PROVE  ProcessState'
  <2>1. UNCHANGED <<process, kafka, requests>> /\ queue' \subseteq queue
    BY <1>7 DEF Deliver, DeliverUnacked, TimeOut
  <2>2. happened \subseteq happened'
    BY <1>7 DEF Deliver, DeliverUnacked, TimeOut, Fault, fault_vars
  <2> QED
    BY <2>1, <2>2 DEF ProcessState, Handling
<1> QED
  BY <1>1, <1>2, <1>3, <1>4, <1>5, <1>6, <1>7 DEF Next

\* A request has as many results as its handler has got to.
LEMMA RequestStep ==
    ASSUME TypeOK, RequestState, Next
    PROVE  RequestState'
<1>1. ASSUME Handling, NEW status \in {"answered", "lost"},
             Update([Current EXCEPT !.status = status]),
             status = "answered" => Len(Current.results) = Current.size
      PROVE  RequestState'
  <2>1. Current = requests[Len(requests)]
    BY DEF Current
  <2> QED
    BY <1>1, <2>1, EndRequest DEF RequestState
<1>2. CASE Kill
  BY <1>1, <1>2 DEF Kill, RequestState
<1>3. ASSUME NEW batch \in BOOLEAN, NEW size \in 1 .. MaxBatch, Receive(batch, size)
      PROVE  RequestState'
  <2>1. batch \/ size = 1
    BY <1>3 DEF Receive
  <2>2. /\ Len(requests') = Len(requests) + 1 /\ Len(requests) \in Nat
        /\ \A r \in 1 .. Len(requests) : requests'[r] = requests[r]
        /\ requests'[Len(requests) + 1].batch = batch
        /\ requests'[Len(requests) + 1].size = size
        /\ requests'[Len(requests) + 1].status = "open"
    BY <1>3, ReceiveTypes
  <2> QED
    BY <2>1, <2>2 DEF RequestState
<1>4. CASE Produce \/ ProduceFails
  <2>1. PICK o \in Outcomes : Update([Current EXCEPT !.results = Append(@, o)])
    BY <1>4 DEF Produce, ProduceFails, Outcomes
  <2>2. InProduce
    BY <1>4 DEF Produce, ProduceFails
  <2> QED
    BY <2>1, <2>2, AppendRequest DEF RequestState
<1>5. CASE Accept \/ Refuse
  <2>1. /\ Handling /\ Update([Current EXCEPT !.status = "answered"])
        /\ ~Current.batch /\ Len(Current.results) = 1
    BY <1>5 DEF Accept, Refuse, Respond
  <2>2. Current.size = 1
    BY <2>1, CurrentIsRequest DEF RequestState
  <2> QED
    BY <1>1, <2>1, <2>2
<1>6. CASE AnswerBatch
  BY <1>1, <1>6 DEF AnswerBatch, Respond
<1>7. CASE UNCHANGED requests
  BY <1>7 DEF RequestState
<1>8. ASSUME NEW q \in queue, Deliver(q) \/ DeliverUnacked(q) \/ TimeOut(q)
      PROVE  UNCHANGED requests
  BY <1>8 DEF Deliver, DeliverUnacked, TimeOut
<1>9. Boot \/ Stop \/ Exit => UNCHANGED requests
  BY DEF Boot, Stop, Exit
<1> QED
  BY <1>2, <1>3, <1>4, <1>5, <1>6, <1>7, <1>8, <1>9 DEF Next, Handler

-----------------------------------------------------------------------------
(* Messages and outcomes.                                                  *)

\* Steps that decide no outcome and queue nothing leave what is said of messages alone.
LEMMA NothingQueued ==
    ASSUME TypeOK, SentByOutcome, InOnePlace, \A m \in Items : Outcome(m)' = Outcome(m),
           queue' \subseteq queue, UNCHANGED <<topic, dead>>, happened \subseteq happened'
    PROVE  SentByOutcome' /\ InOnePlace'
BY DEF SentByOutcome, InOnePlace

\* What the handler decides about an event and what it does with it go together.
LEMMA DecideStep ==
    ASSUME TypeOK, SentByOutcome, InOnePlace, Produce \/ ProduceFails
    PROVE  SentByOutcome' /\ InOnePlace'
<1>1. /\ Message \in Items /\ Outcome(Message) = "none"
      /\ topic \in [Items -> Nat] /\ UNCHANGED <<topic, dead>>
  BY MessageIsNew DEF Produce, ProduceFails, TypeOK, producer_vars
<1>2. /\ Forward(Message) \notin queue /\ topic[Message] = 0
      /\ DeadLetter(Message) \notin queue /\ Message \notin dead
  BY <1>1 DEF SentByOutcome
<1>3. happened \subseteq happened'
  BY DEF Produce, ProduceFails, Fault, fault_vars
<1>4. CASE Produce
  <2>1. \A m \in Items : Outcome(m)' = IF m = Message THEN "accepted" ELSE Outcome(m)
    BY <1>4, AppendEffect DEF Produce, Outcomes
  <2>2. queue' \subseteq queue \cup {Forward(Message)}
    BY <1>4 DEF Produce, Enqueue, Forward
  <2>3. \A m \in Items : /\ Forward(m) \in queue' => Forward(m) \in queue \/ m = Message
                         /\ DeadLetter(m) \in queue' => DeadLetter(m) \in queue
    BY <2>2 DEF Forward, DeadLetter
  <2> QED
    BY <1>1, <1>2, <1>3, <2>1, <2>3 DEF SentByOutcome, InOnePlace
<1>5. CASE ProduceFails
  <2>1. \A m \in Items : Outcome(m)' = IF m = Message THEN "rejected" ELSE Outcome(m)
    BY <1>5, AppendEffect DEF ProduceFails, Outcomes
  <2>2. queue' = queue
    BY <1>5 DEF ProduceFails, producer_vars
  <2> QED
    BY <1>1, <1>2, <1>3, <2>1, <2>2 DEF SentByOutcome, InOnePlace
<1> QED
  BY <1>4, <1>5

\* A refused event goes to the dead letters under its outcome.
LEMMA RefuseStep ==
    ASSUME TypeOK, SentByOutcome, InOnePlace, Refuse
    PROVE  SentByOutcome' /\ InOnePlace'
<1> DEFINE m == <<Len(requests), 1>>
<1>1. /\ Handling /\ Current.results = <<"rejected">>
      /\ Update([Current EXCEPT !.status = "answered"])
      /\ UNCHANGED <<topic, dead, happened>>
  BY DEF Refuse, Respond, fault_vars
<1>2. \A i \in Items : Outcome(i)' = Outcome(i)
  BY <1>1, EndEffect
<1>3. m \in Items /\ Outcome(m) = "rejected"
  <2>1. Len(requests) \in 1 .. MaxRequests /\ 1 \in 1 .. MaxBatch
    BY <1>1, CurrentIsRequest DEF TypeOK
  <2>2. m[1] = Len(requests) /\ m[2] = 1 /\ requests[m[1]] = Current
    BY DEF Current
  <2>3. Len(Current.results) = 1 /\ Current.results[1] = "rejected"
    BY <1>1
  <2> QED
    BY <2>1, <2>2, <2>3 DEF Items, Outcome
<1>4. queue' \subseteq queue \cup {DeadLetter(m)}
  BY DEF Refuse, Enqueue, DeadLetter
<1> HIDE DEF m
<1>5. \A i \in Items : /\ Forward(i) \in queue' => Forward(i) \in queue
                       /\ DeadLetter(i) \in queue' => DeadLetter(i) \in queue \/ i = m
  BY <1>4 DEF Forward, DeadLetter
<1> QED
  BY <1>1, <1>2, <1>3, <1>5 DEF SentByOutcome, InOnePlace

\* Delivery moves a message and decides nothing.
LEMMA DeliverStep ==
    ASSUME TypeOK, SentByOutcome, InOnePlace, NEW q \in queue,
           Deliver(q) \/ DeliverUnacked(q)
    PROVE  SentByOutcome' /\ InOnePlace'
<1>1. q[2] \in Items /\ q = <<q[1], q[2]>> /\ q[1] \in Topics
  BY DEF TypeOK, Topics
<1>2. /\ Arrive(q) /\ UNCHANGED requests /\ happened \subseteq happened'
      /\ queue' = queue \ {q} \/ (queue' = queue /\ "ack" \in happened')
  BY DEF Deliver, DeliverUnacked, Fault, fault_vars
<1>3. \A m \in Items : Outcome(m)' = Outcome(m)
  BY <1>2 DEF Outcome
<1>4. topic \in [Items -> Nat]
  BY DEF TypeOK
<1>5. CASE q[1] = "security-events"
  <2>1. q = Forward(q[2])
    BY <1>1, <1>5 DEF Forward
  <2>2. /\ dead' = dead
        /\ \A m \in Items : topic'[m] = IF m = q[2] THEN topic[m] + 1 ELSE topic[m]
    BY <1>2, <1>4, <1>5 DEF Arrive
  <2>3. SentByOutcome'
    BY <1>1, <1>2, <1>3, <2>1, <2>2 DEF SentByOutcome
  <2>4. InOnePlace'
    <3> SUFFICES ASSUME "ack" \notin happened', NEW m \in Items
                 PROVE  topic'[m] <= 1 /\ (Forward(m) \in queue' => topic'[m] = 0)
      BY DEF InOnePlace
    <3>1. /\ "ack" \notin happened /\ queue' = queue \ {q}
          /\ topic[m] <= 1 /\ topic[m] \in Nat
          /\ Forward(m) \in queue => topic[m] = 0
      BY <1>2, <1>4 DEF InOnePlace
    <3>2. CASE m = q[2]
      BY <2>1, <2>2, <3>1, <3>2
    <3>3. CASE m # q[2]
      BY <2>2, <3>1, <3>3
    <3> QED
      BY <3>2, <3>3
  <2> QED
    BY <2>3, <2>4
<1>6. CASE q[1] = "security-events-dlq"
  <2>1. q = DeadLetter(q[2])
    BY <1>1, <1>6 DEF DeadLetter
  <2>2. topic' = topic /\ dead' = dead \cup {q[2]}
    BY <1>2, <1>6 DEF Arrive
  <2>3. SentByOutcome'
    BY <1>1, <1>2, <1>3, <2>1, <2>2 DEF SentByOutcome
  <2>4. InOnePlace'
    BY <1>2, <2>2 DEF InOnePlace
  <2> QED
    BY <2>3, <2>4
<1> QED
  BY <1>1, <1>5, <1>6 DEF Topics

\* A message is queued or sent where its outcome says, and in one place.
LEMMA OutcomeStep ==
    ASSUME TypeOK, SentByOutcome, InOnePlace, Next
    PROVE  SentByOutcome' /\ InOnePlace'
<1>1. UNCHANGED requests => \A m \in Items : Outcome(m)' = Outcome(m)
  BY DEF Outcome
<1>2. CASE Boot \/ Stop \/ Exit
  <2>1. /\ UNCHANGED <<requests, topic, dead>> /\ queue' \subseteq queue
        /\ happened \subseteq happened'
    BY <1>2 DEF Boot, Stop, Exit, Fault, producer_vars, fault_vars
  <2> QED
    BY <1>1, <2>1, NothingQueued
<1>3. CASE Kill
  <2>1. \A m \in Items : Outcome(m)' = Outcome(m)
    <3>1. CASE Handling
      BY <1>3, <3>1, EndEffect DEF Kill
    <3>2. CASE ~Handling
      BY <1>1, <1>3, <3>2 DEF Kill
    <3> QED
      BY <3>1, <3>2
  <2>2. /\ UNCHANGED <<topic, dead>> /\ queue' \subseteq queue
        /\ happened \subseteq happened'
    BY <1>3 DEF Kill, Fault
  <2> QED
    BY <2>1, <2>2, NothingQueued
<1>4. ASSUME NEW batch \in BOOLEAN, NEW size \in 1 .. MaxBatch, Receive(batch, size)
      PROVE  SentByOutcome' /\ InOnePlace'
  BY <1>4, ReceiveOutcome, NothingQueued DEF Receive, producer_vars, fault_vars
<1>5. CASE Accept \/ AnswerBatch
  <2>1. /\ Handling /\ Update([Current EXCEPT !.status = "answered"])
        /\ UNCHANGED <<queue, topic, dead>> /\ happened \subseteq happened'
    BY <1>5 DEF Accept, AnswerBatch, Respond, producer_vars, fault_vars, Fault
  <2> QED
    BY <2>1, EndEffect, NothingQueued
<1>6. ASSUME NEW q \in queue, TimeOut(q)
      PROVE  SentByOutcome' /\ InOnePlace'
  <2>1. /\ UNCHANGED <<requests, topic, dead>> /\ queue' \subseteq queue
        /\ happened \subseteq happened'
    BY <1>6 DEF TimeOut, Fault
  <2> QED
    BY <1>1, <2>1, NothingQueued
<1> QED
  BY <1>2, <1>3, <1>4, <1>5, <1>6, DecideStep, RefuseStep, DeliverStep DEF Next, Handler

-----------------------------------------------------------------------------
(* What was accepted is kept.                                              *)

\* An outcome once given is not taken back, and a fault is not forgotten.
LEMMA FaultsStay ==
    ASSUME FaultTypes, Next
    PROVE  happened \subseteq happened'
<1>1. UNCHANGED fault_vars \/ \E kind : Fault(kind)
  BY DEF Next, Handler, Boot, Stop, Exit, Kill, Receive, Produce, ProduceFails, Accept,
     Refuse, AnswerBatch, Deliver, DeliverUnacked, TimeOut
<1> QED
  BY <1>1, FaultStep

\* A step that decides no outcome and takes nothing from the queue keeps what is accepted.
LEMMA NothingTaken ==
    ASSUME TypeOK, AcceptedIsKept, \A m \in Items : Outcome(m)' = Outcome(m),
           queue \subseteq queue', UNCHANGED topic, happened \subseteq happened'
    PROVE  AcceptedIsKept'
BY DEF AcceptedIsKept, Excused

\* An accepted message leaves the queue by arriving, unless for an excepted fault.
LEMMA AcceptedStep ==
    ASSUME TypeOK, ProcessState, AcceptedIsKept, Next
    PROVE  AcceptedIsKept'
<1>0. happened \subseteq happened'
  BY FaultsStay, TypeParts
<1>1. UNCHANGED requests => \A m \in Items : Outcome(m)' = Outcome(m)
  BY DEF Outcome
<1>2. CASE Boot \/ Stop
  BY <1>0, <1>1, <1>2, NothingTaken DEF Boot, Stop, producer_vars
<1>3. CASE Exit
  <2>1. CASE queue = {}
    BY <1>0, <1>1, <1>3, <2>1, NothingTaken DEF Exit
  <2>2. CASE Fault("broker")
    BY <2>2 DEF Fault, AcceptedIsKept, Excused
  <2> QED
    BY <1>3, <2>1, <2>2 DEF Exit
<1>4. CASE Kill
  BY <1>4 DEF Kill, Fault, AcceptedIsKept, Excused
<1>5. ASSUME NEW batch \in BOOLEAN, NEW size \in 1 .. MaxBatch, Receive(batch, size)
      PROVE  AcceptedIsKept'
  BY <1>0, <1>5, ReceiveOutcome, NothingTaken DEF Receive, producer_vars
<1>6. CASE Produce
  <2>1. /\ Message \in Items
        /\ \A m \in Items : Outcome(m)' = IF m = Message THEN "accepted" ELSE Outcome(m)
    BY <1>6, AppendEffect, MessageIsNew DEF Produce, Outcomes
  <2>2. kafka \/ "no_client" \in happened'
    BY <1>0, <1>6 DEF Produce, InProduce, ProcessState
  <2>3. queue \subseteq queue' /\ (kafka => Forward(Message) \in queue') /\ topic' = topic
    BY <1>6, <2>1, EnqueueEffect DEF Produce, Topics, Forward
  <2> QED
    BY <1>0, <2>1, <2>2, <2>3 DEF AcceptedIsKept, Excused, Forward
<1>7. CASE ProduceFails
  <2>1. \A m \in Items : Outcome(m)' = IF m = Message THEN "rejected" ELSE Outcome(m)
    BY <1>7, AppendEffect DEF ProduceFails, Outcomes
  <2>2. UNCHANGED <<queue, topic>>
    BY <1>7 DEF ProduceFails, producer_vars
  <2> QED
    BY <1>0, <2>1, <2>2 DEF AcceptedIsKept, Excused
<1>8. CASE Accept \/ Refuse \/ AnswerBatch
  <2>1. /\ Handling /\ Update([Current EXCEPT !.status = "answered"])
        /\ queue \subseteq queue' /\ topic' = topic
    BY <1>8 DEF Accept, Refuse, AnswerBatch, Respond, Enqueue, producer_vars
  <2> QED
    BY <1>0, <2>1, EndEffect, NothingTaken
<1>9. ASSUME NEW q \in queue, Deliver(q) \/ DeliverUnacked(q)
      PROVE  AcceptedIsKept'
  <2>1. q[2] \in Items /\ q = <<q[1], q[2]>> /\ topic \in [Items -> Nat]
    BY DEF TypeOK
  <2>2. queue \ {q} \subseteq queue' /\ UNCHANGED requests /\ Arrive(q)
    BY <1>9 DEF Deliver, DeliverUnacked
  <2>3. \A m \in Items : /\ topic[m] > 0 => topic'[m] > 0
                         /\ q = Forward(m) => topic'[m] > 0
    BY <2>1, <2>2 DEF Arrive, Forward
  <2> QED
    BY <1>0, <1>1, <2>2, <2>3 DEF AcceptedIsKept, Excused, Forward
<1>10. ASSUME NEW q \in queue, TimeOut(q)
       PROVE  AcceptedIsKept'
  BY <1>10 DEF TimeOut, Fault, AcceptedIsKept, Excused
<1> QED
  BY <1>2, <1>3, <1>4, <1>5, <1>6, <1>7, <1>8, <1>9, <1>10 DEF Next, Handler

-----------------------------------------------------------------------------
(* An answered batch waits for nothing.                                    *)

\* What is queued for the topic besides is from the request in progress, which is open.
LEMMA BatchStep ==
    ASSUME TypeOK, AnsweredBatchIsSettled, Next
    PROVE  AnsweredBatchIsSettled'
<1>0. happened \subseteq happened'
  BY FaultsStay, TypeParts
<1>1. ASSUME UNCHANGED requests, queue' \subseteq queue
      PROVE  AnsweredBatchIsSettled'
  BY <1>0, <1>1 DEF AnsweredBatchIsSettled
<1>2. CASE Boot \/ Stop \/ Exit
  BY <1>1, <1>2 DEF Boot, Stop, Exit, producer_vars
<1>3. ASSUME NEW q \in queue, Deliver(q) \/ DeliverUnacked(q) \/ TimeOut(q)
      PROVE  AnsweredBatchIsSettled'
  BY <1>1, <1>3 DEF Deliver, DeliverUnacked, TimeOut
<1>4. CASE Kill
  BY <1>4 DEF Kill, AnsweredBatchIsSettled
<1>5. ASSUME NEW batch \in BOOLEAN, NEW size \in 1 .. MaxBatch, Receive(batch, size)
      PROVE  AnsweredBatchIsSettled'
  <2>1. queue' = queue
    BY <1>5 DEF Receive, producer_vars
  <2>2. /\ Len(requests') = Len(requests) + 1 /\ Len(requests) \in Nat
        /\ \A r \in 1 .. Len(requests) : requests'[r] = requests[r]
        /\ requests'[Len(requests) + 1].status = "open"
    BY <1>5, ReceiveTypes
  <2> QED
    BY <1>0, <2>1, <2>2 DEF AnsweredBatchIsSettled
<1>6. CASE Produce \/ ProduceFails
  <2>1. /\ InProduce /\ Handling
        /\ \E o \in Outcomes : Update([Current EXCEPT !.results = Append(@, o)])
    BY <1>6 DEF Produce, ProduceFails, Outcomes, InProduce
  <2>2. /\ Len(requests') = Len(requests)
        /\ \A r \in 1 .. Len(requests) :
             /\ requests'[r].status = requests[r].status
             /\ requests'[r].status # "open" => requests'[r] = requests[r]
    BY <2>1, AppendRequest
  <2>3. requests[Len(requests)].status = "open"
    BY <2>1 DEF Handling
  <2>4. queue' \subseteq queue \cup {Forward(Message)}
    BY <1>6 DEF Produce, ProduceFails, Enqueue, Forward, producer_vars
  <2>5. \A r, i : r # Len(requests) =>
          (Forward(<<r, i>>) \in queue' => Forward(<<r, i>>) \in queue)
    BY <2>4 DEF Forward, Message
  <2> QED
    BY <1>0, <2>2, <2>3, <2>5 DEF AnsweredBatchIsSettled, Forward
<1>7. CASE Accept \/ Refuse
  <2>1. /\ Handling /\ Update([Current EXCEPT !.status = "answered"])
        /\ ~Current.batch
    BY <1>7 DEF Accept, Refuse, Respond
  <2>2. \A m : Forward(m) \in queue' => Forward(m) \in queue
    BY <1>7 DEF Accept, Refuse, Enqueue, Forward, producer_vars
  <2>3. /\ Len(requests') = Len(requests)
        /\ \A r \in 1 .. Len(requests) :
             /\ requests'[r].batch = requests[r].batch
             /\ requests'[r].size = requests[r].size
             /\ r # Len(requests) => requests'[r].status = requests[r].status
    BY <2>1, EndRequest
  <2>4. ~requests[Len(requests)].batch
    BY <2>1 DEF Current
  <2> QED
    BY <1>0, <2>2, <2>3, <2>4 DEF AnsweredBatchIsSettled, Forward
<1>8. CASE AnswerBatch
  <2>1. CASE queue = {}
    BY <1>8, <2>1 DEF AnswerBatch, AnsweredBatchIsSettled, producer_vars
  <2>2. CASE Fault("broker")
    BY <2>2 DEF Fault, AnsweredBatchIsSettled
  <2> QED
    BY <1>8, <2>1, <2>2 DEF AnswerBatch
<1> QED
  BY <1>2, <1>3, <1>4, <1>5, <1>6, <1>7, <1>8 DEF Next, Handler

-----------------------------------------------------------------------------
(* The specification.                                                      *)

\* The invariant holds at the start.
LEMMA InitIInv == Init => IInv
<1> SUFFICES ASSUME Init
             PROVE  IInv
  OBVIOUS
<1>1. /\ process = "down" /\ kafka = FALSE /\ requests = <<>> /\ queue = {}
      /\ topic = [m \in Items |-> 0] /\ dead = {} /\ happened = {} /\ budget = MaxFaults
  BY DEF Init
<1>2. ~Handling /\ Len(requests) = 0
  BY <1>1 DEF Handling
<1>3. \A m \in Items : Outcome(m) = "none"
  <2>1. \A m \in Items : m[1] \in Nat \ {0}
    BY DEF Items
  <2> QED
    BY <1>2, <2>1 DEF Outcome
<1>4. TypeOK
  <2>1. Cardinality({}) = 0
    BY FS_EmptySet
  <2>2. QueueTypes /\ RequestTypes
    BY <1>1, <2>1 DEF QueueTypes, RequestTypes
  <2>3. ProcessTypes
    BY <1>1, Zenon DEF ProcessTypes
  <2>4. FaultTypes
    BY <1>1 DEF FaultTypes
  <2> QED
    BY <2>2, <2>3, <2>4, TypeParts
<1>5. ProcessState /\ RequestState
  BY <1>1, <1>2 DEF ProcessState, RequestState
<1>6. SentByOutcome /\ InOnePlace /\ AcceptedIsKept /\ AnsweredBatchIsSettled
  BY <1>1, <1>2, <1>3 DEF SentByOutcome, InOnePlace, AcceptedIsKept, AnsweredBatchIsSettled
<1> QED
  BY <1>4, <1>5, <1>6 DEF IInv

\* Every step keeps the invariant: one fact for each of its parts.
LEMMA NextIInv == IInv /\ Next => IInv'
BY TypeStep, ProcessStep, RequestStep, OutcomeStep, AcceptedStep, BatchStep DEF IInv

\* A step that changes nothing keeps the invariant.
LEMMA StutterIInv == IInv /\ UNCHANGED vars => IInv'
<1> SUFFICES ASSUME IInv, UNCHANGED vars
             PROVE  IInv'
  OBVIOUS
<1>1. UNCHANGED <<process, kafka, requests, queue, topic, dead, happened, budget>>
  BY DEF vars, producer_vars, fault_vars
<1>2. TypeOK'
  BY <1>1 DEF IInv, TypeOK
<1>3. ProcessState' /\ RequestState'
  BY <1>1 DEF IInv, ProcessState, RequestState, Handling
<1>4. SentByOutcome' /\ InOnePlace' /\ AcceptedIsKept' /\ AnsweredBatchIsSettled'
  BY <1>1 DEF IInv, SentByOutcome, InOnePlace, AcceptedIsKept, AnsweredBatchIsSettled,
     Outcome, Excused
<1> QED
  BY <1>2, <1>3, <1>4 DEF IInv

\* The invariant holds throughout.
THEOREM Invariance == Spec => []IInv
<1>1. IInv /\ [Next]_vars => IInv'
  BY NextIInv, StutterIInv
<1> QED
  BY InitIInv, <1>1, PTL DEF Spec

\* The adapter's state has its types; the queue never exceeds the producer's limit, and
\* no request but the last is in progress.
THEOREM TypeCorrect == Spec => []TypeOK
<1>1. IInv => TypeOK
  BY DEF IInv
<1> QED
  BY Invariance, <1>1, PTL

\* An event that was accepted is queued or on the topic, unless the broker was slow, the
\* process killed or the client missing.
THEOREM AcceptedStays == Spec => []AcceptedIsKept
<1>1. IInv => AcceptedIsKept
  BY DEF IInv
<1> QED
  BY Invariance, <1>1, PTL

\* An event whose sending failed is not on the topic and not on its way there, whatever
\* the faults.
THEOREM RejectedStaysOut == Spec => []RejectedIsNotForwarded
<1>1. IInv => RejectedIsNotForwarded
  <2> SUFFICES ASSUME IInv, NEW m \in Items, Outcome(m) = "rejected"
               PROVE  topic[m] = 0 /\ <<"security-events", m>> \notin queue
    BY DEF RejectedIsNotForwarded
  <2>1. Forward(m) \notin queue /\ ~(topic[m] > 0)
    BY DEF IInv, SentByOutcome
  <2>2. topic[m] \in Nat
    BY DEF IInv, TypeOK
  <2> QED
    BY <2>1, <2>2 DEF Forward
<1> QED
  BY Invariance, <1>1, PTL

\* An event is on the topic once unless an acknowledgement was lost, and never both there
\* and among the dead letters.
THEOREM ForwardsOnce == Spec => []ForwardedOnce
<1>1. IInv => ForwardedOnce
  <2> SUFFICES ASSUME IInv, NEW m \in Items
               PROVE  /\ "ack" \notin happened => topic[m] <= 1
                      /\ m \in dead => topic[m] = 0
    BY DEF ForwardedOnce
  <2>1. topic[m] \in Nat
    BY DEF IInv, TypeOK
  <2>2. "ack" \notin happened => topic[m] <= 1
    BY DEF IInv, InOnePlace
  <2>3. m \in dead => ~(topic[m] > 0)
    BY DEF IInv, SentByOutcome
  <2> QED
    BY <2>1, <2>2, <2>3
<1> QED
  BY Invariance, <1>1, PTL

\* Once a batch is answered, nothing of it is in the queue, unless the flush ran out of
\* time.
THEOREM AnsweredSettled == Spec => []AnsweredBatchIsSettled
<1>1. IInv => AnsweredBatchIsSettled
  BY DEF IInv
<1> QED
  BY Invariance, <1>1, PTL
=============================================================================

--------------------------- MODULE DetectorAdapter ---------------------------
(***************************************************************************)
(* services/detector-adapter: events come in by REST, are scored, and are  *)
(* handed to a Kafka producer, which keeps them in a queue of its own and  *)
(* delivers them in the background.  A handler awaits nothing, so requests *)
(* are handled one at a time; the producer's thread, the end of the process*)
(* and the broker's failures fall between any two of a handler's steps.    *)
(***************************************************************************)
EXTENDS Naturals, Sequences, FiniteSets

CONSTANTS
    MaxRequests,  \* bound: requests
    MaxBatch,     \* bound: events of a batch request
    QueueLimit,   \* the producer's queue.buffering.max.messages
    MaxFaults,    \* bound: faults
    Faults        \* what may go wrong, a subset of FaultKinds

\* refused: scoring raises, or the message is too large.  broker: a message is not
\* delivered within message.timeout.ms, or not all are within flush's timeout.
\* ack: the broker's acknowledgement is lost.  kill: the process dies.
\* no_client: the producer cannot be built.
FaultKinds == {"refused", "broker", "ack", "kill", "no_client"}

ASSUME LimitsArePositive ==
    /\ MaxRequests \in Nat /\ MaxBatch \in Nat \ {0} /\ QueueLimit \in Nat \ {0}
    /\ MaxFaults \in Nat /\ Faults \subseteq FaultKinds

\* Event i of request r; whatever id it carries, another request is another message.
Items == (1 .. MaxRequests) \X (1 .. MaxBatch)

VARIABLES
    process,   \* "down", "up", or "stopping" after SIGTERM
    kafka,     \* the producer is a _KafkaProducer, not a _NoOpProducer
    requests,  \* history: the requests, of which at most the last is being handled
    queue,     \* the producer's queue: pairs of a topic and a message
    topic,     \* how often each message is on security-events
    dead,      \* messages on the dead-letter topic
    happened,  \* history: kinds of fault that happened
    budget     \* faults left

producer_vars == <<queue, topic, dead>>
fault_vars == <<happened, budget>>
vars == <<process, kafka, requests, producer_vars, fault_vars>>

Outcomes == {"accepted", "rejected"}

Requests == [batch : BOOLEAN, size : 1 .. MaxBatch, results : Seq(Outcomes),
             status : {"open", "answered", "lost"}]

TypeOK ==
    /\ process \in {"down", "up", "stopping"} /\ kafka \in BOOLEAN
    /\ requests \in Seq(Requests) /\ Len(requests) <= MaxRequests
    /\ \A r \in 1 .. Len(requests) :
         /\ requests[r].status = "open" => r = Len(requests)
         /\ Len(requests[r].results) <= requests[r].size
    /\ queue \subseteq {"security-events", "security-events-dlq"} \X Items
    /\ Cardinality(queue) <= QueueLimit
    /\ topic \in [Items -> Nat] /\ dead \subseteq Items
    /\ happened \subseteq Faults /\ budget \in 0 .. MaxFaults

Init ==
    /\ process = "down" /\ kafka = FALSE
    /\ requests = <<>>
    /\ queue = {} /\ topic = [m \in Items |-> 0] /\ dead = {}
    /\ happened = {} /\ budget = MaxFaults

-----------------------------------------------------------------------------
(* Helpers.  A definition named Operation_Variant is the operation with a  *)
(* plausible mistake; no specification uses it.                            *)

Fault(kind) ==
    /\ kind \in Faults /\ budget > 0
    /\ happened' = happened \cup {kind}
    /\ budget' = budget - 1

Handling == requests # <<>> /\ requests[Len(requests)].status = "open"

Current == requests[Len(requests)]

\* The event the handler is at.
Message == <<Len(requests), Len(Current.results) + 1>>

InProduce == Handling /\ Len(Current.results) < Current.size

Update(request) == requests' = [requests EXCEPT ![Len(requests)] = request]

Enqueue(name, m) == queue' = IF kafka THEN queue \cup {<<name, m>>} ELSE queue

HasRoom == Cardinality(queue) < QueueLimit

-----------------------------------------------------------------------------
(* The process.                                                            *)

\* _build_producer, once at import.
Boot ==
    /\ process = "down" /\ process' = "up"
    /\ \/ kafka' = TRUE /\ UNCHANGED fault_vars
       \/ kafka' = FALSE /\ Fault("no_client")
    /\ UNCHANGED <<requests, producer_vars>>

\* SIGTERM: no further requests; the one in progress is finished.
Stop ==
    /\ process = "up" /\ process' = "stopping"
    /\ UNCHANGED <<kafka, requests, producer_vars, fault_vars>>

Exit_WithoutFlush ==
    /\ process = "stopping" /\ ~Handling /\ process' = "down"
    /\ queue' = {}
    /\ UNCHANGED <<kafka, requests, topic, dead, fault_vars>>

\* lifespan's flush and close; what is queued after that goes with the process.
Exit ==
    /\ process = "stopping" /\ ~Handling /\ process' = "down"
    /\ \/ queue = {} /\ UNCHANGED fault_vars
       \/ queue # {} /\ Fault("broker")
    /\ queue' = {}
    /\ UNCHANGED <<kafka, requests, topic, dead>>

Kill ==
    /\ process # "down" /\ process' = "down"
    /\ Fault("kill")
    /\ queue' = {}
    /\ IF Handling THEN Update([Current EXCEPT !.status = "lost"]) ELSE UNCHANGED requests
    /\ UNCHANGED <<kafka, topic, dead>>

-----------------------------------------------------------------------------
(* ingest_event and ingest_batch.                                          *)

Receive_InThreads(batch, size) ==
    /\ process = "up"
    /\ Len(requests) < MaxRequests /\ (batch \/ size = 1)
    /\ requests' = Append(requests, [batch |-> batch, size |-> size, results |-> <<>>,
                                     status |-> "open"])
    /\ UNCHANGED <<process, kafka, producer_vars, fault_vars>>

Receive(batch, size) ==
    /\ process = "up" /\ ~Handling
    /\ Len(requests) < MaxRequests /\ (batch \/ size = 1)
    /\ requests' = Append(requests, [batch |-> batch, size |-> size, results |-> <<>>,
                                     status |-> "open"])
    /\ UNCHANGED <<process, kafka, producer_vars, fault_vars>>

\* The event is scored and queued; the no-op producer only says so.
Produce ==
    /\ InProduce /\ HasRoom
    /\ Enqueue("security-events", Message)
    /\ Update([Current EXCEPT !.results = Append(@, "accepted")])
    /\ UNCHANGED <<process, kafka, topic, dead, fault_vars>>

ProduceFails_Late ==
    /\ InProduce /\ HasRoom
    /\ Fault("refused")
    /\ Enqueue("security-events", Message)
    /\ Update([Current EXCEPT !.results = Append(@, "rejected")])
    /\ UNCHANGED <<process, kafka, topic, dead>>

\* Scoring or produce raises; produce does when the queue is full.
ProduceFails ==
    /\ InProduce
    /\ \/ ~HasRoom /\ UNCHANGED fault_vars
       \/ Fault("refused")
    /\ Update([Current EXCEPT !.results = Append(@, "rejected")])
    /\ UNCHANGED <<process, kafka, producer_vars>>

Respond == Update([Current EXCEPT !.status = "answered"])

\* ingest_event answers 202.
Accept ==
    /\ Handling /\ ~Current.batch /\ Current.results = <<"accepted">>
    /\ Respond
    /\ UNCHANGED <<process, kafka, producer_vars, fault_vars>>

\* Or it dead-letters the event, if the queue has room by now and the message is not
\* too large for that topic as well, and answers 500.  A batch dead-letters nothing.
Refuse ==
    /\ Handling /\ ~Current.batch /\ Current.results = <<"rejected">>
    /\ \/ HasRoom /\ Enqueue("security-events-dlq", <<Len(requests), 1>>)
       \/ (~HasRoom \/ "refused" \in happened) /\ UNCHANGED queue
    /\ Respond
    /\ UNCHANGED <<process, kafka, topic, dead, fault_vars>>

AnswerBatch_WithoutFlush ==
    /\ Handling /\ Current.batch /\ Len(Current.results) = Current.size
    /\ Respond
    /\ UNCHANGED <<process, kafka, producer_vars, fault_vars>>

\* ingest_batch answers once flush returns, whatever was delivered by then.
AnswerBatch ==
    /\ Handling /\ Current.batch /\ Len(Current.results) = Current.size
    /\ \/ queue = {} /\ UNCHANGED fault_vars
       \/ queue # {} /\ Fault("broker")
    /\ Respond
    /\ UNCHANGED <<process, kafka, producer_vars>>

-----------------------------------------------------------------------------
(* The producer's thread.                                                  *)

Arrive(q) ==
    IF q[1] = "security-events"
    THEN topic' = [topic EXCEPT ![q[2]] = @ + 1] /\ UNCHANGED dead
    ELSE dead' = dead \cup {q[2]} /\ UNCHANGED topic

Deliver(q) ==
    /\ q \in queue /\ queue' = queue \ {q}
    /\ Arrive(q)
    /\ UNCHANGED <<process, kafka, requests, fault_vars>>

\* The broker has it and the producer does not know: it will send it again, as
\* enable.idempotence is not set.
DeliverUnacked(q) ==
    /\ q \in queue /\ Arrive(q)
    /\ Fault("ack")
    /\ UNCHANGED <<process, kafka, requests, queue>>

\* It gives the message up; no delivery callback is set.
TimeOut(q) ==
    /\ q \in queue /\ queue' = queue \ {q}
    /\ Fault("broker")
    /\ UNCHANGED <<process, kafka, requests, topic, dead>>

Handler == Produce \/ ProduceFails \/ Accept \/ Refuse \/ AnswerBatch

Next ==
    \/ Boot \/ Stop \/ Exit \/ Kill
    \/ \E batch \in BOOLEAN, size \in 1 .. MaxBatch : Receive(batch, size)
    \/ Handler
    \/ \E q \in queue : Deliver(q) \/ DeliverUnacked(q) \/ TimeOut(q)

Spec == Init /\ [][Next]_vars

\* The event loop runs the handler, the producer's thread sends what is queued, and
\* a process that was told to stop does; nothing is assumed about its restart.
FairSpec ==
    /\ Spec
    /\ WF_vars(Handler) /\ WF_vars(Exit)
    /\ WF_vars(\E q \in queue : Deliver(q))

-----------------------------------------------------------------------------
(* Properties.                                                             *)

Outcome(m) ==
    IF m[1] <= Len(requests) /\ m[2] <= Len(requests[m[1]].results)
    THEN requests[m[1]].results[m[2]] ELSE "none"

\* What the code cannot help: a broker that takes too long, a killed process, a
\* missing Kafka client.
Excused == happened \cap {"broker", "kill", "no_client"} # {}

\* Otherwise an accepted event is never lost, not by a full queue in the middle of
\* a batch nor by a stop with events still queued (lifespan's flush).
AcceptedIsKept ==
    ~Excused => \A m \in Items :
        Outcome(m) = "accepted" => <<"security-events", m>> \in queue \/ topic[m] > 0

\* A caller who was told that an event failed may send it again: the failed attempt
\* put nothing on the topic and never will, whatever happens to the process.
RejectedIsNotForwarded ==
    \A m \in Items : Outcome(m) = "rejected" =>
        topic[m] = 0 /\ <<"security-events", m>> \notin queue

\* And one attempt puts an event on the topic once, unless an acknowledgement was
\* lost; what was dead-lettered is not there as well.
ForwardedOnce ==
    \A m \in Items : /\ "ack" \notin happened => topic[m] <= 1
                     /\ m \in dead => topic[m] = 0

\* When a batch is answered, nothing it accepted is still waiting to be sent
\* (ingest_batch's flush), and a process that is killed then loses none of it.
AnsweredBatchIsSettled ==
    "broker" \notin happened => \A r \in 1 .. Len(requests) :
        requests[r].batch /\ requests[r].status = "answered" =>
            \A i \in 1 .. requests[r].size : <<"security-events", <<r, i>>>> \notin queue

\* What was accepted reaches the topic, whether the process goes on or stops.
EventuallyForwarded ==
    \A m \in Items : Outcome(m) = "accepted" ~> (topic[m] > 0 \/ Excused)
=============================================================================

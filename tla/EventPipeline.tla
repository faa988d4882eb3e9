---------------------------- MODULE EventPipeline ----------------------------
(***************************************************************************)
(* The way of an event from a detector's request to the ledger: the        *)
(* detector-adapter and the blockchain-logger joined by the topic          *)
(* security-events.  What the one's producer delivers is what the other    *)
(* polls; nothing else is shared.                                          *)
(*                                                                         *)
(* The logger's events carry the request they came with, so that how often *)
(* the adapter's message is on the topic can be read off it.               *)
(***************************************************************************)
EXTENDS BlockchainLogger, FiniteSets

CONSTANTS
    MaxRequests, MaxBatch, QueueLimit, MaxDetectorFaults, DetectorFaults,
    Carries  \* the event each message of the adapter carries

VARIABLES process, kafka, requests, queue, dead, happened, detector_budget

detector_vars == <<process, kafka, requests, queue, dead, happened, detector_budget>>
pipeline_vars == <<vars, detector_vars>>

Requested == (1 .. MaxRequests) \X (1 .. MaxBatch)

Offsets(m) == {o \in 1 .. Len(topic) : topic[o].from = m}

Detector == INSTANCE DetectorAdapter
    WITH MaxFaults <- MaxDetectorFaults, Faults <- DetectorFaults,
         budget <- detector_budget,
         topic <- [m \in Requested |-> Cardinality(Offsets(m))]

\* An event comes with one message, whoever else sends an event under its id.
ASSUME CarriesEvents ==
    /\ Carries \in [Requested -> Messages]
    /\ \A m \in Requested : Carries[m].from = m

\* As DetectorAdapter assumes.
ASSUME DetectorBounds ==
    /\ MaxRequests \in Nat /\ MaxBatch \in Nat \ {0} /\ QueueLimit \in Nat \ {0}
    /\ MaxDetectorFaults \in Nat /\ DetectorFaults \subseteq Detector!FaultKinds

PipelineInit == Init /\ Detector!Init

-----------------------------------------------------------------------------
\* What the adapter does by itself.
Handler == UNCHANGED vars /\ Detector!Handler

Exit == UNCHANGED vars /\ Detector!Exit

Accepting ==
    /\ UNCHANGED vars
    /\ \/ Detector!Boot \/ Detector!Stop \/ Detector!Kill
       \/ \E batch \in BOOLEAN, size \in 1 .. MaxBatch : Detector!Receive(batch, size)
       \/ \E q \in queue : Detector!TimeOut(q)

\* The producer's thread sends what is queued, to the logger or to the dead letters.
Transfer(q) ==
    IF q[1] = "security-events" THEN Produce(Carries[q[2]]) ELSE UNCHANGED vars

Send == \E q \in queue : Transfer(q) /\ Detector!Deliver(q)

SendUnacked == \E q \in queue : Transfer(q) /\ Detector!DeliverUnacked(q)

LoggerStep(w) == Step(w) /\ UNCHANGED detector_vars

GroupStep ==
    /\ \E w \in Workers : Assign(w) \/ Steal(w) \/ Crash(w)
    /\ UNCHANGED detector_vars

StoreStep ==
    /\ \/ \E t \in Stamps : FabricCommit(t) \/ GarbageCollect(t)
       \/ \E e \in EventIds : Expire(e)
    /\ UNCHANGED detector_vars

PipelineNext ==
    \/ Handler \/ Exit \/ Accepting \/ Send \/ SendUnacked
    \/ \E w \in Workers : LoggerStep(w)
    \/ GroupStep \/ StoreStep

PipelineSpec == PipelineInit /\ [][PipelineNext]_pipeline_vars

\* As in the two modules.
FairPipelineSpec ==
    /\ PipelineSpec
    /\ WF_pipeline_vars(Handler) /\ WF_pipeline_vars(Exit) /\ WF_pipeline_vars(Send)
    /\ \A w \in Workers : WF_pipeline_vars(LoggerStep(w))
    /\ WF_pipeline_vars((\E w \in Workers : Assign(w)) /\ UNCHANGED detector_vars)
    /\ \A w \in Workers :
         WF_pipeline_vars(pc[w] = "wait" /\ FabricCommit(stamp[w]) /\ UNCHANGED detector_vars)

-----------------------------------------------------------------------------
(* Properties.                                                             *)

Accepted(m) == Detector!Outcome(m) = "accepted"

\* What is on the ledger was accepted by the adapter: a caller who was told that an
\* event failed, and does not send it again, never finds it in the audit trail.
LoggedWasAccepted ==
    \A e \in EventIds : world[e] # NoRecord =>
        \E m \in Requested : Carries[m].event_id = e /\ Accepted(m)

\* While the logger's services work, an accepted event that its schema does not refuse
\* is on the ledger and queryable in the end, whatever becomes of the adapter's process,
\* whether its message arrives once or twice, and although the partition moves between
\* workers that are busy with it.  The adapter's own losses are excepted, as in
\* DetectorAdapter.
AcceptedIsQueryable ==
    \A m \in Requested :
        Accepted(m) /\ SchemaValid(Carries[m])
            ~> (Detector!Excused \/ \E o \in Offsets(m) : Queryable(o))
=============================================================================

----------------------- MODULE BlockchainLoggerProofs -----------------------
(***************************************************************************)
(* The logger's safety guarantees, for any number of workers, messages,    *)
(* retries, faults and fault kinds.  The ledger part rests on the theorems *)
(* of SecurityLoggerProofs, instantiated for the logger's ledger.          *)
(***************************************************************************)
EXTENDS BlockchainLogger, TLAPS

Ledger == INSTANCE SecurityLoggerProofs
              WITH Times <- Stamps, NoTime <- 0, TxIds <- Stamps,
                   Msps <- {Org}, AuthorizedMsp <- Org

USE NoWorkerIsNoWorker, Bounds, NoRecordIsNoRecord

\* The bound on parses is a number, as the bounds it is made of are.
LEMMA MaxParsesIsNat == MaxParses \in Nat
BY DEF MaxParses

\* What SecurityLogger assumes of its constants holds of the values it is given.
LEMMA LedgerAssumptions ==
    /\ NoRecord \notin Ledger!Records
    /\ Stamps \subseteq Nat /\ 0 \notin Stamps
    /\ Org \in {Org}
BY MaxParsesIsNat DEF Stamps, Fabric!Records, Ledger!Records

-----------------------------------------------------------------------------
(* The definitions BlockchainLogger takes from SecurityLogger are those the *)
(* ledger's theorems are about.                                            *)

\* The ledger's records are the same under both instances.
LEMMA SameRecords ==
    /\ Fabric!Records = Ledger!Records
    /\ Fabric!StoredRecords = Ledger!StoredRecords
BY DEF Fabric!Records, Ledger!Records, Fabric!StoredRecords, Ledger!StoredRecords

\* So is its type invariant,
LEMMA SameType == Fabric!TypeOK <=> Ledger!TypeOK
BY SameRecords DEF Fabric!TypeOK, Ledger!TypeOK, Fabric!Tx, Ledger!Tx,
   Fabric!Statuses, Ledger!Statuses

\* its initial state,
LEMMA SameInit == Fabric!Init <=> Ledger!Init
BY DEF Fabric!Init, Ledger!Init, Fabric!NoTx, Ledger!NoTx

\* the endorsement of a proposal,
LEMMA SameLogSecurityEvent ==
    ASSUME NEW t, NEW msp, NEW r, NEW time
    PROVE  Fabric!LogSecurityEvent(t, msp, r, time) <=> Ledger!LogSecurityEvent(t, msp, r, time)
BY DEF Fabric!LogSecurityEvent, Ledger!LogSecurityEvent, Fabric!EventExists, Ledger!EventExists,
       Fabric!Timestamped, Ledger!Timestamped

\* the validation of a transaction,
LEMMA SameCommit ==
    ASSUME NEW t
    PROVE  Fabric!Commit(t) <=> Ledger!CommitValid(t) \/ Ledger!CommitInvalid(t)
BY DEF Fabric!Commit, Fabric!CommitValid, Ledger!CommitValid, Fabric!CommitInvalid,
       Ledger!CommitInvalid, Fabric!ReadSetCurrent, Ledger!ReadSetCurrent

\* and the append-only trail it implements.
LEMMA SameTrail ==
    /\ Fabric!Trail!Init <=> Ledger!Trail!Init
    /\ [Fabric!Trail!Next]_world <=> [Ledger!Trail!Next]_world
BY SameRecords DEF Fabric!Trail!Init, Ledger!Trail!Init, Fabric!Trail!Next, Ledger!Trail!Next,
       Fabric!Trail!Append, Ledger!Trail!Append

-----------------------------------------------------------------------------
(* The inductive invariant.                                                *)

\* Steps between parsing and caching: the worker holds a parsed event.
Parsed == {"add", "pin", "cat", "sign", "submit", "wait", "redis"}

\* A busy worker holds a message of the topic; a parsed one is an event of the
\* schema and has a stamp.
InHand ==
    \A w \in Workers :
        /\ pc[w] \in Busy => pos[w] >= 1
        /\ pc[w] \in Parsed => SchemaValid(Message(w)) /\ stamp[w] \in Stamps

TypeInv == TypeOK /\ InHand

\* What the part of the invariant beyond the types says of one worker and of the
\* services it used.

Proposed(t) == txs[t].status # "none"

\* A worker that waits for a transaction submitted the record it holds as that
\* transaction, and one that goes on to Redis knows it to be valid.
OwnTransaction ==
    \A w \in Workers :
        /\ pc[w] \in {"wait", "redis"} => Proposed(stamp[w]) /\ txs[stamp[w]].rec = Record(w)
        /\ pc[w] = "redis" => txs[stamp[w]].status = "valid"

\* The partition's owner works on the message after the committed offset.
OwnersPosition ==
    \A w \in Workers : owner = w =>
        /\ pc[w] # "down"
        /\ pc[w] \in Busy => pos[w] = committed + 1
        /\ pc[w] = "poll" /\ MaxRetries > 0 => pos[w] = committed

\* A message is on the ledger or dead-lettered before its offset is committed.
Accounted(o) == o \in dlq \/ Logged(o)

AllAccounted ==
    ~Faulty("dlq") =>
        /\ \A o \in 1 .. committed : Accounted(o)
        /\ \A w \in Workers : pc[w] = "commit" => Accounted(pos[w])

\* No two workers, and no worker and an earlier transaction, share a stamp.
StampsAreFresh ==
    /\ \A w \in Workers : stamp[w] <= now
    /\ \A t \in Stamps : Proposed(t) => t <= now
    /\ \A v, w \in Workers : v # w /\ stamp[v] = stamp[w] => stamp[w] = 0
    /\ \A w \in Workers :
          pc[w] \in {"add", "pin", "cat", "sign", "submit"} => ~Proposed(stamp[w])

\* With IPFS_PIN, a payload is pinned from the pin step on.
PinnedBeforeSubmit ==
    /\ \A t \in Stamps : Proposed(t) => txs[t].rec.payload.ipfs_cid = t
    /\ PinEnabled =>
          /\ \A t \in Stamps : Proposed(t) => ipfs[t] = "pinned"
          /\ \A w \in Workers : pc[w] \in {"cat", "sign", "submit"} => ipfs[stamp[w]] = "pinned"

IInv ==
    /\ TypeInv
    /\ Ledger!IInv
    /\ OwnTransaction
    /\ OwnersPosition
    /\ AllAccounted
    /\ StampsAreFresh
    /\ PinnedBeforeSubmit
    /\ RedisMirrorsLedger
    /\ IndexMatchesLedger

-----------------------------------------------------------------------------
\* The record of a parsed message is one of the chaincode's.
LEMMA RecordIsRecord ==
    ASSUME TypeInv, NEW w \in Workers, pc[w] \in Parsed
    PROVE  /\ Message(w) \in Messages
           /\ Record(w) \in Fabric!StoredRecords
           /\ Record(w) \in Fabric!Records
           /\ Record(w).event_id = Message(w).event_id
           /\ Record(w).timestamp = stamp[w]
<1>1. Message(w) \in Messages
  <2>1. topic \in Seq(Messages) /\ pos[w] \in 0 .. Len(topic)
    BY DEF TypeInv, TypeOK
  <2>2. pos[w] >= 1
    BY DEF TypeInv, InHand, Parsed, Busy, Steps
  <2> QED
    BY <2>1, <2>2 DEF Message
<1>2. /\ Message(w).event_id \in EventIds
      /\ Message(w).asset_id \in Assets
      /\ Message(w).severity \in Severities
      /\ stamp[w] \in Stamps /\ stamp[w] # 0
  <2>1. SchemaValid(Message(w)) /\ stamp[w] \in Stamps
    BY DEF TypeInv, InHand
  <2>2. 0 \notin Stamps
    BY LedgerAssumptions
  <2> QED
    BY <1>1, <2>1, <2>2 DEF EventIds, Assets, SchemaValid
<1> QED
  BY <1>1, <1>2 DEF Record, LedgerRecord, Fabric!StoredRecords, Fabric!Records, Payloads

\* Every step is a step of the ledger or leaves it alone.
LEMMA LedgerStep ==
    ASSUME TypeInv, Next
    PROVE  [Ledger!Next]_Ledger!vars
<1>1. ASSUME NEW w \in Workers, Submit(w)
      PROVE  Ledger!Next
  <2>1. /\ pc[w] = "submit"
        /\ Ledger!LogSecurityEvent(stamp[w], Org, Record(w), Record(w).timestamp)
    BY <1>1, SameLogSecurityEvent DEF Submit, LogEvent
  <2>2. Record(w) \in Ledger!Records /\ stamp[w] \in Stamps /\ Record(w).timestamp \in Stamps
    BY <2>1, RecordIsRecord, SameRecords DEF TypeInv, InHand, Parsed
  <2> QED
    BY <2>1, <2>2 DEF Ledger!Next
<1>2. ASSUME NEW t \in Stamps, FabricCommit(t)
      PROVE  Ledger!Next
  BY <1>2, SameCommit DEF FabricCommit, Ledger!Next
<1>3. (\A w \in Workers : ~Submit(w)) /\ (\A t \in Stamps : ~FabricCommit(t))
        => UNCHANGED fabric_vars
  BY DEF Next, Step, ProcessMessage, Produce, Assign, Steal, Crash, Start, Poll, Parse,
         ParseRefused, Add, AddFails, AddGarbled, Pin, PinFails, Cat, CatFails, Sign,
         LoadKeyFails, LoadKeyRefused, SubmitFails, Confirmed, WaitFails, Cache,
         CacheFails, DeadLetter, DeadLetterLost, CommitOffset, CommitFenced,
         GarbageCollect, Expire
<1>4. UNCHANGED fabric_vars => UNCHANGED Ledger!vars
  BY DEF fabric_vars, Ledger!vars
<1> QED
  BY <1>1, <1>2, <1>3, <1>4

-----------------------------------------------------------------------------
(* Type correctness.                                                       *)

\* A worker that may try again goes back to the parse or gives the message up.
LEMMA RetryEffect ==
    ASSUME TypeOK, NEW w \in Workers, Retry(w)
    PROVE  /\ \/ pc' = [pc EXCEPT ![w] = "parse"]
              \/ pc' = [pc EXCEPT ![w] = "dlq"]
           /\ attempt' \in [Workers -> 0 .. MaxRetries]
<1>1. attempt \in [Workers -> 0 .. MaxRetries]
  BY DEF TypeOK
<1>2. CASE attempt[w] < MaxRetries
  BY <1>1, <1>2 DEF Retry, Goto
<1>3. CASE ~(attempt[w] < MaxRetries)
  BY <1>1, <1>3 DEF Retry, Goto
<1> QED
  BY <1>2, <1>3

\* The MULTI/EXEC keeps the types of what it writes.
LEMMA WriteToRedisTypes ==
    ASSUME TypeInv, NEW w \in Workers, pc[w] \in Parsed, WriteToRedis(Record(w))
    PROVE  /\ redis' \in [EventIds -> Fabric!Records \cup {NoRecord}]
           /\ index' \in [IndexKeys -> [EventIds -> Stamps \cup {0}]]
<1>1. Record(w) \in Fabric!Records /\ Record(w).timestamp \in Stamps
  BY RecordIsRecord DEF TypeInv, InHand
<1>3. redis' \in [EventIds -> Fabric!Records \cup {NoRecord}]
  BY <1>1 DEF WriteToRedis, TypeInv, TypeOK
<1>4. index' \in [IndexKeys -> [EventIds -> Stamps \cup {0}]]
  BY <1>1 DEF WriteToRedis, TypeInv, TypeOK
<1> QED
  BY <1>3, <1>4

\* Every step keeps the types and what a busy worker has in hand.
LEMMA TypeStep ==
    ASSUME TypeInv, Fabric!TypeOK', Next
    PROVE  TypeInv'
<1> USE MaxParsesIsNat, LedgerAssumptions
    DEF TypeInv, TypeOK, InHand, Message, Parsed, Busy, Steps, worker_vars, kafka_vars,
        redis_vars
<1>1. ASSUME NEW m \in Messages, Produce(m)
      PROVE  TypeInv'
  BY <1>1 DEF Produce
<1>2. ASSUME NEW w \in Workers, Assign(w)
      PROVE  TypeInv'
  BY <1>2 DEF Assign
<1>3. ASSUME NEW w \in Workers, Steal(w)
      PROVE  TypeInv'
  BY <1>3 DEF Steal
<1>4. ASSUME NEW w \in Workers, Crash(w)
      PROVE  TypeInv'
  BY <1>4 DEF Crash, Down, Goto
<1>5. ASSUME NEW w \in Workers, Start(w)
      PROVE  TypeInv'
  BY <1>5 DEF Start, Goto
<1>6. ASSUME NEW w \in Workers, Poll(w)
      PROVE  TypeInv'
  <2>1. CASE MaxRetries > 0
    <3>1. /\ pos' = [pos EXCEPT ![w] = pos[w] + 1]
          /\ pc' = [pc EXCEPT ![w] = "parse"]
          /\ attempt' = [attempt EXCEPT ![w] = 1]
      BY <1>6, <2>1 DEF Poll, Goto
    <3>2. pos[w] + 1 \in 1 .. Len(topic) /\ 1 \in 0 .. MaxRetries
      BY <1>6, <2>1 DEF Poll
    <3> QED
      BY <1>6, <3>1, <3>2 DEF Poll
  <2>2. CASE ~(MaxRetries > 0)
    BY <1>6, <2>2 DEF Poll
  <2> QED
    BY <2>1, <2>2
<1>7. ASSUME NEW w \in Workers, Parse(w)
      PROVE  TypeInv'
  <2>1. now + 1 \in Stamps /\ now' \in 0 .. MaxParses
    BY <1>7 DEF Parse, Stamps
  <2>2. /\ stamp' = [stamp EXCEPT ![w] = now + 1]
        /\ pc' = [pc EXCEPT ![w] = "add"]
    BY <1>7 DEF Parse, Goto
  <2>3. SchemaValid(topic[pos[w]])
    BY <1>7 DEF Parse
  <2>4. TypeOK'
    BY <1>7, <2>1, <2>2 DEF Parse
  <2>5. InHand'
    BY <1>7, <2>1, <2>2, <2>3 DEF Parse
  <2> QED
    BY <2>4, <2>5
<1>8. ASSUME NEW w \in Workers, ParseRefused(w)
      PROVE  TypeInv'
  BY <1>8 DEF ParseRefused, Goto
<1>9. ASSUME NEW w \in Workers, Add(w)
      PROVE  TypeInv'
  BY <1>9 DEF Add, Goto
<1>10. ASSUME NEW w \in Workers, AddFails(w)
      PROVE  TypeInv'
  <2>1. Retry(w)
    BY <1>10 DEF AddFails
  <2> QED
    BY <1>10, <2>1, RetryEffect DEF AddFails
<1>11. ASSUME NEW w \in Workers, AddGarbled(w)
      PROVE  TypeInv'
  BY <1>11 DEF AddGarbled, Goto
<1>12. ASSUME NEW w \in Workers, Pin(w)
      PROVE  TypeInv'
  BY <1>12 DEF Pin, Goto
<1>13. ASSUME NEW w \in Workers, PinFails(w)
      PROVE  TypeInv'
  <2>1. Retry(w)
    BY <1>13 DEF PinFails
  <2> QED
    BY <1>13, <2>1, RetryEffect DEF PinFails
<1>14. ASSUME NEW w \in Workers, Cat(w)
      PROVE  TypeInv'
  BY <1>14 DEF Cat, Goto
<1>15. ASSUME NEW w \in Workers, CatFails(w)
      PROVE  TypeInv'
  <2>1. Retry(w)
    BY <1>15 DEF CatFails
  <2> QED
    BY <1>15, <2>1, RetryEffect DEF CatFails
<1>16. ASSUME NEW w \in Workers, Sign(w)
      PROVE  TypeInv'
  BY <1>16 DEF Sign, Goto
<1>17. ASSUME NEW w \in Workers, LoadKeyFails(w)
      PROVE  TypeInv'
  <2>1. Retry(w)
    BY <1>17 DEF LoadKeyFails
  <2> QED
    BY <1>17, <2>1, RetryEffect DEF LoadKeyFails
<1>18. ASSUME NEW w \in Workers, LoadKeyRefused(w)
      PROVE  TypeInv'
  BY <1>18 DEF LoadKeyRefused, Goto
<1>19. ASSUME NEW w \in Workers, Submit(w)
      PROVE  TypeInv'
  BY <1>19 DEF Submit, Goto
<1>20. ASSUME NEW w \in Workers, SubmitFails(w)
      PROVE  TypeInv'
  <2>1. Retry(w)
    BY <1>20 DEF SubmitFails
  <2> QED
    BY <1>20, <2>1, RetryEffect DEF SubmitFails
<1>21. ASSUME NEW w \in Workers, Confirmed(w)
      PROVE  TypeInv'
  BY <1>21 DEF Confirmed, Goto
<1>22. ASSUME NEW w \in Workers, WaitFails(w)
      PROVE  TypeInv'
  <2>1. Retry(w)
    BY <1>22 DEF WaitFails
  <2> QED
    BY <1>22, <2>1, RetryEffect DEF WaitFails
<1>23. ASSUME NEW w \in Workers, DeadLetter(w)
      PROVE  TypeInv'
  <2>1. pos[w] \in 1 .. Len(topic)
    <3>1. pos[w] \in 0 .. Len(topic) /\ Len(topic) \in Nat
      OBVIOUS
    <3>2. pos[w] >= 1
      BY <1>23 DEF DeadLetter
    <3> QED
      BY <3>1, <3>2
  <2> QED
    BY <1>23, <2>1 DEF DeadLetter, Goto
<1>24. ASSUME NEW w \in Workers, DeadLetterLost(w)
      PROVE  TypeInv'
  BY <1>24 DEF DeadLetterLost, Goto
<1>25. ASSUME NEW w \in Workers, CommitOffset(w)
      PROVE  TypeInv'
  BY <1>25 DEF CommitOffset, Goto
<1>26. ASSUME NEW w \in Workers, CommitFenced(w)
      PROVE  TypeInv'
  BY <1>26 DEF CommitFenced, Goto, Down
<1>27. ASSUME NEW w \in Workers, Cache(w)
      PROVE  TypeInv'
  <2>1. pc[w] \in Parsed /\ WriteToRedis(Record(w))
    BY <1>27 DEF Cache
  <2> QED
    BY <1>27, <2>1, WriteToRedisTypes DEF Cache, Goto
<1>28. ASSUME NEW w \in Workers, CacheFails(w)
      PROVE  TypeInv'
  <2>1. pc[w] \in Parsed /\ Retry(w)
    BY <1>28 DEF CacheFails
  <2>2. /\ redis' \in [EventIds -> Fabric!Records \cup {NoRecord}]
        /\ index' \in [IndexKeys -> [EventIds -> Stamps \cup {0}]]
    BY <1>28, <2>1, WriteToRedisTypes DEF CacheFails
  <2> QED
    BY <1>28, <2>1, <2>2, RetryEffect DEF CacheFails
<1>29. ASSUME NEW t \in Stamps, FabricCommit(t) \/ GarbageCollect(t)
      PROVE  TypeInv'
  BY <1>29 DEF FabricCommit, GarbageCollect
<1>30. ASSUME NEW e \in EventIds, Expire(e)
      PROVE  TypeInv'
  BY <1>30 DEF Expire
<1> QED
  BY <1>1, <1>2, <1>3, <1>4, <1>5, <1>6, <1>7, <1>8, <1>9, <1>10, <1>11, <1>12,
     <1>13, <1>14, <1>15, <1>16, <1>17, <1>18, <1>19, <1>20, <1>21, <1>22,
     <1>23, <1>24, <1>25, <1>26, <1>27, <1>28, <1>29, <1>30
  DEF Next, Step, ProcessMessage

-----------------------------------------------------------------------------
(* How a step changes what the invariant speaks of.                        *)

\* The topic is appended to, the dead-letter topic grows.
LEMMA TopicGrows ==
    ASSUME TypeInv, Next
    PROVE  /\ Len(topic) <= Len(topic')
           /\ \A o \in 1 .. Len(topic) : topic'[o] = topic[o]
           /\ dlq \subseteq dlq'
<1>1. ASSUME NEW m \in Messages, Produce(m)
      PROVE  /\ Len(topic) <= Len(topic')
             /\ \A o \in 1 .. Len(topic) : topic'[o] = topic[o]
             /\ dlq \subseteq dlq'
  BY <1>1 DEF Produce, TypeInv, TypeOK
<1>2. (\A m \in Messages : ~Produce(m)) => UNCHANGED topic /\ dlq \subseteq dlq'
  BY DEF Next, Step, ProcessMessage, Assign, Steal, Crash, Start, Poll, Parse,
         ParseRefused, Add, AddFails, AddGarbled, Pin, PinFails, Cat, CatFails, Sign,
         LoadKeyFails, LoadKeyRefused, Submit, SubmitFails, Confirmed, WaitFails, Cache,
         CacheFails, DeadLetter, DeadLetterLost, CommitOffset, CommitFenced,
         FabricCommit, GarbageCollect, Expire, kafka_vars
<1> QED
  BY <1>1, <1>2 DEF TypeInv, TypeOK

\* Records stay, and so do the record and the validity of a transaction.
LEMMA LedgerGrows ==
    ASSUME TypeInv, Ledger!IInv, Next
    PROVE  /\ Ledger!IInv'
           /\ \A e \in EventIds : world[e] # NoRecord => world'[e] = world[e]
           /\ \A t \in Stamps : Proposed(t) =>
                /\ Proposed(t)' /\ txs'[t].rec = txs[t].rec
                /\ txs[t].status = "valid" => txs'[t].status = "valid"
<1>1. [Ledger!Next]_Ledger!vars
  BY LedgerStep
<1>2. Ledger!IInv'
  BY <1>1, Ledger!NextIInv, LedgerAssumptions
<1>3. \A e \in EventIds : world[e] # NoRecord => world'[e] = world[e]
  <2>1. [Ledger!Trail!Next]_world
    BY <1>1, Ledger!StepAppendsOrStutters, LedgerAssumptions
  <2>2. world \in [EventIds -> Ledger!StoredRecords \cup {NoRecord}]
    BY DEF Ledger!IInv, Ledger!TypeOK
  <2> QED
    BY <2>1, <2>2 DEF Ledger!Trail!Next, Ledger!Trail!Append
<1>4. \A t \in Stamps : Proposed(t) =>
        /\ Proposed(t)' /\ txs'[t].rec = txs[t].rec
        /\ txs[t].status = "valid" => txs'[t].status = "valid"
  <2>1. txs \in [Stamps -> Ledger!Tx]
    BY DEF Ledger!IInv, Ledger!TypeOK
  <2>2. ASSUME NEW s \in Stamps, NEW r \in Ledger!Records, NEW time \in Stamps,
               Ledger!LogSecurityEvent(s, Org, r, time)
        PROVE  \A t \in Stamps : Proposed(t) => txs'[t] = txs[t]
    BY <2>1, <2>2 DEF Ledger!LogSecurityEvent, Proposed
  <2>3. ASSUME NEW s \in Stamps, Ledger!CommitValid(s) \/ Ledger!CommitInvalid(s)
        PROVE  /\ \A t \in Stamps : t # s => txs'[t] = txs[t]
               /\ txs[s].status = "endorsed"
               /\ txs'[s].rec = txs[s].rec
               /\ txs'[s].status \in {"valid", "invalid"}
    BY <2>1, <2>3 DEF Ledger!CommitValid, Ledger!CommitInvalid, Ledger!Tx
  <2> QED
    BY <1>1, <2>2, <2>3 DEF Ledger!Next, Ledger!vars, Proposed
<1> QED
  BY <1>2, <1>3, <1>4

\* A step of another process leaves a worker's own variables alone.
LEMMA OthersSteps ==
    ASSUME TypeInv, Next, NEW w \in Workers
    PROVE  \/ UNCHANGED <<pc[w], pos[w], stamp[w], key[w]>>
           \/ Assign(w) \/ Steal(w) \/ Crash(w) \/ Step(w)
<1>1. ASSUME NEW v \in Workers, v # w, Assign(v) \/ Steal(v) \/ Crash(v) \/ Step(v)
      PROVE  UNCHANGED <<pc[w], pos[w], stamp[w], key[w]>>
  BY <1>1 DEF TypeInv, TypeOK, Step, ProcessMessage, Assign, Steal, Crash, Start, Poll,
         Parse, ParseRefused, Add, AddFails, AddGarbled, Pin, PinFails, Cat, CatFails,
         Sign, LoadKeyFails, LoadKeyRefused, Submit, SubmitFails, Confirmed, WaitFails,
         Cache, CacheFails, DeadLetter, DeadLetterLost, CommitOffset, CommitFenced,
         Down, Retry, Goto
<1>2. ASSUME \/ \E m \in Messages : Produce(m)
             \/ \E t \in Stamps : FabricCommit(t) \/ GarbageCollect(t)
             \/ \E e \in EventIds : Expire(e)
      PROVE  UNCHANGED <<pc[w], pos[w], stamp[w], key[w]>>
  BY <1>2 DEF Produce, FabricCommit, GarbageCollect, Expire, worker_vars
<1> QED
  BY <1>1, <1>2 DEF Next

\* Which of its own steps takes a worker where.
LEMMA Arrive ==
    ASSUME TypeInv, NEW w \in Workers, Assign(w) \/ Steal(w) \/ Crash(w) \/ Step(w)
    PROVE  /\ pc'[w] = "add" => Parse(w)
           /\ pc'[w] = "pin" => Add(w) /\ PinEnabled
           /\ pc'[w] = "cat" => Pin(w) \/ (Add(w) /\ ~PinEnabled)
           /\ pc'[w] = "sign" => Cat(w)
           /\ pc'[w] = "submit" => Sign(w)
           /\ pc'[w] = "wait" => Submit(w)
           /\ pc'[w] = "redis" => Confirmed(w)
           /\ pc'[w] = "commit" => Cache(w) \/ DeadLetter(w) \/ DeadLetterLost(w)
BY DEF TypeInv, TypeOK, Step, ProcessMessage, Assign, Steal, Crash, Start, Poll, Parse,
       ParseRefused, Add, AddFails, AddGarbled, Pin, PinFails, Cat, CatFails, Sign,
       LoadKeyFails, LoadKeyRefused, Submit, SubmitFails, Confirmed, WaitFails, Cache,
       CacheFails, DeadLetter, DeadLetterLost, CommitOffset, CommitFenced, Down, Retry,
       Goto

-----------------------------------------------------------------------------
(* The invariant's parts, one after the other.                             *)

\* A worker waits for the transaction of its own message only: a stamp is submitted once.
LEMMA OwnTransactionStep ==
    ASSUME TypeInv, TypeInv', Ledger!IInv, OwnTransaction, Next
    PROVE  OwnTransaction'
<1> SUFFICES ASSUME NEW w \in Workers, pc'[w] \in {"wait", "redis"}
             PROVE  /\ Proposed(stamp[w])' /\ txs'[stamp'[w]].rec = Record(w)'
                    /\ pc'[w] = "redis" => txs'[stamp'[w]].status = "valid"
  BY DEF OwnTransaction
<1>1. \A t \in Stamps : Proposed(t) =>
        /\ Proposed(t)' /\ txs'[t].rec = txs[t].rec
        /\ txs[t].status = "valid" => txs'[t].status = "valid"
  BY LedgerGrows
<1>2. ASSUME pc[w] \in Parsed, UNCHANGED <<pos[w], stamp[w], key[w]>>
      PROVE  Record(w)' = Record(w) /\ stamp[w] \in Stamps
  <2>1. pos[w] \in 1 .. Len(topic)
    <3>1. pos[w] \in 0 .. Len(topic) /\ Len(topic) \in Nat
      BY DEF TypeInv, TypeOK
    <3>2. pos[w] >= 1
      BY <1>2 DEF TypeInv, InHand, Parsed, Busy, Steps
    <3> QED
      BY <3>1, <3>2
  <2>2. Message(w)' = Message(w)
    BY <1>2, <2>1, TopicGrows DEF Message
  <2> QED
    BY <1>2, <2>2 DEF Record, TypeInv, InHand
<1>3. CASE UNCHANGED <<pc[w], pos[w], stamp[w], key[w]>>
  BY <1>1, <1>2, <1>3 DEF OwnTransaction, Parsed, Proposed
<1>4. CASE Submit(w)
  <2>1. /\ pc[w] = "submit" /\ UNCHANGED <<pos[w], stamp[w], key[w]>>
        /\ pc'[w] = "wait"
        /\ Fabric!LogSecurityEvent(stamp[w], Org, Record(w), Record(w).timestamp)
    BY <1>4 DEF Submit, LogEvent, Goto, TypeInv, TypeOK
  <2>2. Record(w)' = Record(w) /\ stamp[w] \in Stamps /\ stamp[w] # 0
    BY <1>2, <2>1, LedgerAssumptions DEF Parsed
  <2>3. Record(w).timestamp = stamp[w]
    BY <2>1, RecordIsRecord DEF Parsed
  <2>4. txs'[stamp[w]].status = "endorsed" /\ txs'[stamp[w]].rec = Record(w)
    BY <2>1, <2>2, <2>3 DEF Fabric!LogSecurityEvent, Fabric!Timestamped, Ledger!IInv,
       Ledger!TypeOK
  <2> QED
    BY <2>1, <2>2, <2>4 DEF Proposed
<1>5. CASE Confirmed(w)
  <2>1. /\ pc[w] = "wait" /\ UNCHANGED <<pos[w], stamp[w], key[w], txs>>
        /\ txs[stamp[w]].status = "valid"
    BY <1>5 DEF Confirmed, fabric_vars
  <2> QED
    BY <1>2, <2>1 DEF OwnTransaction, Proposed, Parsed
<1> QED
  BY <1>3, <1>4, <1>5, OthersSteps, Arrive

\* A confirmed record is on the ledger.
LEMMA ConfirmedIsStored ==
    ASSUME TypeInv, Ledger!IInv, OwnTransaction, NEW w \in Workers, pc[w] = "redis"
    PROVE  /\ world[Record(w).event_id] = Record(w)
           /\ Record(w).event_id \in EventIds
           /\ Record(w) # NoRecord
           /\ stamp[w] \in Stamps
           /\ txs[stamp[w]].status = "valid" /\ txs[stamp[w]].rec = Record(w)
<1>1. stamp[w] \in Stamps
  BY DEF TypeInv, InHand, Parsed
<1>2. txs[stamp[w]].status = "valid" /\ txs[stamp[w]].rec = Record(w)
  BY DEF OwnTransaction
<1>3. Record(w) \in Fabric!Records
  BY RecordIsRecord DEF Parsed
<1> QED
  BY <1>1, <1>2, <1>3 DEF Ledger!IInv, Ledger!ValidIsStored, Fabric!Records

\* Whoever writes to Redis holds a confirmed record.
LEMMA RedisChanges ==
    ASSUME TypeInv, Next
    PROVE  \/ UNCHANGED redis_vars
           \/ \E w \in Workers : pc[w] = "redis" /\ WriteToRedis(Record(w))
           \/ \E e \in EventIds : /\ redis' = [redis EXCEPT ![e] = NoRecord]
                                  /\ UNCHANGED index
BY DEF Next, Step, ProcessMessage, Produce, Assign, Steal, Crash, Start, Poll, Parse,
       ParseRefused, Add, AddFails, AddGarbled, Pin, PinFails, Cat, CatFails, Sign,
       LoadKeyFails, LoadKeyRefused, Submit, SubmitFails, Confirmed, WaitFails, Cache,
       CacheFails, DeadLetter, DeadLetterLost, CommitOffset, CommitFenced,
       FabricCommit, GarbageCollect, Expire, redis_vars

\* Redis is written with a record that is on the ledger, and that stays there.
LEMMA RedisMirrorsLedgerStep ==
    ASSUME TypeInv, Ledger!IInv, OwnTransaction, RedisMirrorsLedger, Next
    PROVE  RedisMirrorsLedger'
<1> USE DEF RedisMirrorsLedger
<1>0. redis \in [EventIds -> Fabric!Records \cup {NoRecord}]
  BY DEF TypeInv, TypeOK
<1>1. \A e \in EventIds : world[e] # NoRecord => world'[e] = world[e]
  BY LedgerGrows
<1>3. \A e \in EventIds : redis[e] # NoRecord => world'[e] = redis[e]
  BY <1>1
<1>4. CASE UNCHANGED redis_vars
  BY <1>3, <1>4 DEF redis_vars
<1>5. ASSUME NEW w \in Workers, pc[w] = "redis", WriteToRedis(Record(w))
      PROVE  RedisMirrorsLedger'
  <2>1. world'[Record(w).event_id] = Record(w)
    BY <1>5, <1>1, ConfirmedIsStored
  <2>3. \A e \in EventIds :
          redis'[e] = IF e = Record(w).event_id THEN Record(w) ELSE redis[e]
    BY <1>0, <1>5 DEF WriteToRedis
  <2> QED
    BY <1>3, <2>1, <2>3
<1>6. ASSUME NEW e \in EventIds, redis' = [redis EXCEPT ![e] = NoRecord]
      PROVE  RedisMirrorsLedger'
  BY <1>0, <1>3, <1>6
<1> QED
  BY <1>4, <1>5, <1>6, RedisChanges

\* An index is written along with its record, which stays on the ledger.
LEMMA IndexMatchesLedgerStep ==
    ASSUME TypeInv, Ledger!IInv, OwnTransaction, RedisMirrorsLedger, IndexMatchesLedger, Next
    PROVE  IndexMatchesLedger'
<1>1. \A e \in EventIds : world[e] # NoRecord => world'[e] = world[e]
  BY LedgerGrows
<1>2. /\ redis \in [EventIds -> Fabric!Records \cup {NoRecord}]
      /\ index \in [IndexKeys -> [EventIds -> Stamps \cup {0}]]
  BY DEF TypeInv, TypeOK
<1>3. \A e \in EventIds : redis[e] # NoRecord => world[e] # NoRecord
  BY DEF RedisMirrorsLedger
<1>4. CASE UNCHANGED redis_vars
  BY <1>1, <1>3, <1>4 DEF redis_vars, IndexMatchesLedger
<1>5. ASSUME NEW w \in Workers, pc[w] = "redis", WriteToRedis(Record(w))
      PROVE  IndexMatchesLedger'
  <2> DEFINE r == Record(w)
             own == {<<"asset", r.cloud_asset_id>>, <<"severity", r.severity>>}
  <2>1. world[r.event_id] = r /\ r.event_id \in EventIds /\ r # NoRecord
    BY <1>5, ConfirmedIsStored
  <2>2. r.timestamp = stamp[w] /\ stamp[w] # 0 /\ r \in Fabric!Records
    BY <1>5, RecordIsRecord, ConfirmedIsStored, LedgerAssumptions DEF Parsed
  <2>3. own \subseteq IndexKeys
    BY <2>2 DEF IndexKeys, Fabric!Records
  <2>4. \A k \in IndexKeys, e \in EventIds :
          index'[k][e] = IF k \in own /\ e = r.event_id THEN r.timestamp ELSE index[k][e]
    BY <1>2, <1>5, <2>1 DEF WriteToRedis
  <2>5. \A e \in EventIds : e # r.event_id => redis'[e] = redis[e]
    BY <1>2, <1>5 DEF WriteToRedis
  <2>6. ASSUME NEW k \in IndexKeys, NEW e \in EventIds, index'[k][e] # 0
        PROVE  /\ world'[e] # NoRecord
               /\ k \in {<<"asset", world'[e].cloud_asset_id>>, <<"severity", world'[e].severity>>}
               /\ index'[k][e] = world'[e].timestamp
    <3>1. CASE k \in own /\ e = r.event_id
      BY <1>1, <2>1, <2>4, <3>1
    <3>2. CASE ~(k \in own /\ e = r.event_id)
      BY <1>1, <2>4, <2>6, <3>2 DEF IndexMatchesLedger
    <3> QED
      BY <3>1, <3>2
  <2>7. ASSUME NEW e \in EventIds, redis'[e] # NoRecord
        PROVE  /\ index'[<<"asset", world'[e].cloud_asset_id>>][e] # 0
               /\ index'[<<"severity", world'[e].severity>>][e] # 0
    <3>1. CASE e = r.event_id
      BY <1>1, <2>1, <2>2, <2>3, <2>4, <3>1
    <3>2. CASE e # r.event_id
      <4>1. world[e] # NoRecord /\ world'[e] = world[e] /\ redis[e] # NoRecord
        BY <1>1, <1>3, <2>5, <2>7, <3>2
      <4>2. world[e] \in Fabric!StoredRecords
        BY <4>1 DEF TypeInv, TypeOK, Fabric!TypeOK
      <4>3. {<<"asset", world[e].cloud_asset_id>>, <<"severity", world[e].severity>>} \subseteq IndexKeys
        BY <4>2 DEF IndexKeys, Fabric!StoredRecords, Fabric!Records
      <4> QED
        BY <2>4, <3>2, <4>1, <4>3 DEF IndexMatchesLedger
    <3> QED
      BY <3>1, <3>2
  <2> QED
    BY <2>6, <2>7 DEF IndexMatchesLedger
<1>6. ASSUME NEW e \in EventIds, redis' = [redis EXCEPT ![e] = NoRecord], UNCHANGED index
      PROVE  IndexMatchesLedger'
  <2>1. \A f \in EventIds : redis'[f] # NoRecord => redis[f] # NoRecord
    BY <1>2, <1>6
  <2> QED
    BY <1>1, <1>3, <1>6, <2>1 DEF IndexMatchesLedger
<1> QED
  BY <1>4, <1>5, <1>6, RedisChanges

\* Only the partition's owner moves the committed offset, and then polls behind it.
LEMMA OwnersPositionStep ==
    ASSUME TypeInv, OwnersPosition, Next
    PROVE  OwnersPosition'
<1> USE DEF TypeInv, TypeOK
<1> SUFFICES ASSUME NEW w \in Workers, owner' = w
             PROVE  /\ pc'[w] # "down"
                    /\ pc'[w] \in Busy => pos'[w] = committed' + 1
                    /\ pc'[w] = "poll" /\ MaxRetries > 0 => pos'[w] = committed'
  BY DEF OwnersPosition
<1>1. CASE Assign(w) \/ Steal(w)
  BY <1>1 DEF Assign, Steal, Busy
<1>2. CASE Crash(w) \/ CommitFenced(w)
  BY <1>2 DEF Crash, CommitFenced, Down
<1>3. CASE Start(w)
  BY <1>3 DEF Start, kafka_vars, OwnersPosition
<1>4. CASE Poll(w)
  <2>1. /\ owner = w /\ committed' = committed
        /\ pos'[w] = pos[w] + 1
        /\ MaxRetries > 0 => pc'[w] = "parse"
        /\ ~(MaxRetries > 0) => pc'[w] = "poll"
    BY <1>4 DEF Poll, Goto, kafka_vars
  <2> QED
    BY <1>4, <2>1 DEF OwnersPosition, Busy, Poll
<1>5. CASE CommitOffset(w)
  BY <1>5 DEF CommitOffset, Goto, Busy
<1>6. CASE ProcessMessage(w) \/ DeadLetter(w) \/ DeadLetterLost(w)
  <2>1. /\ pc[w] \in Busy /\ pc'[w] \in Busy
        /\ UNCHANGED <<pos[w], committed, owner>>
    BY <1>6 DEF ProcessMessage, Parse, ParseRefused, Add, AddFails, AddGarbled, Pin,
       PinFails, Cat, CatFails, Sign, LoadKeyFails, LoadKeyRefused, Submit, SubmitFails,
       Confirmed, WaitFails, Cache, CacheFails, DeadLetter, DeadLetterLost, kafka_vars,
       Retry, Goto, Busy, Steps
  <2> QED
    BY <2>1 DEF OwnersPosition, Busy
<1>7. ASSUME NEW v \in Workers, v # w, Assign(v) \/ Steal(v) \/ Crash(v) \/ Step(v)
      PROVE  UNCHANGED <<pc[w], pos[w], committed, owner>>
  BY <1>7 DEF Step, ProcessMessage, Assign, Steal, Crash, Start, Poll,
         Parse, ParseRefused, Add, AddFails, AddGarbled, Pin, PinFails, Cat, CatFails,
         Sign, LoadKeyFails, LoadKeyRefused, Submit, SubmitFails, Confirmed, WaitFails,
         Cache, CacheFails, DeadLetter, DeadLetterLost, CommitOffset, CommitFenced,
         Down, Retry, Goto, kafka_vars
<1>8. ASSUME \/ \E m \in Messages : Produce(m)
             \/ \E t \in Stamps : FabricCommit(t) \/ GarbageCollect(t)
             \/ \E e \in EventIds : Expire(e)
      PROVE  UNCHANGED <<pc[w], pos[w], committed, owner>>
  BY <1>8 DEF Produce, FabricCommit, GarbageCollect, Expire, worker_vars, kafka_vars
<1>9. UNCHANGED <<pc[w], pos[w], committed, owner>> =>
        /\ pc'[w] # "down"
        /\ pc'[w] \in Busy => pos'[w] = committed' + 1
        /\ pc'[w] = "poll" /\ MaxRetries > 0 => pos'[w] = committed'
  BY DEF OwnersPosition
<1> QED
  BY <1>1, <1>2, <1>3, <1>4, <1>5, <1>6, <1>7, <1>8, <1>9 DEF Next, Step

\* The offset moves only past the message its owner is done with.
LEMMA CommittedMoves ==
    ASSUME TypeInv, OwnersPosition, Next
    PROVE  \/ committed' = committed
           \/ \E w \in Workers : /\ pc[w] = "commit"
                                 /\ pos[w] = committed + 1
                                 /\ committed' = committed + 1
<1>1. ASSUME NEW w \in Workers, CommitOffset(w)
      PROVE  /\ pc[w] = "commit"
             /\ pos[w] = committed + 1
             /\ committed' = committed + 1
  BY <1>1 DEF CommitOffset, OwnersPosition, Busy, Steps
<1>2. (\A w \in Workers : ~CommitOffset(w)) => committed' = committed
  BY DEF Next, Step, ProcessMessage, Produce, Assign, Steal, Crash, Start, Poll, Parse,
         ParseRefused, Add, AddFails, AddGarbled, Pin, PinFails, Cat, CatFails, Sign,
         LoadKeyFails, LoadKeyRefused, Submit, SubmitFails, Confirmed, WaitFails, Cache,
         CacheFails, DeadLetter, DeadLetterLost, CommitFenced, FabricCommit,
         GarbageCollect, Expire, kafka_vars
<1> QED
  BY <1>1, <1>2

\* Once a message is on the ledger or dead-lettered, it stays so.
LEMMA AccountedStays ==
    ASSUME TypeInv, Ledger!IInv, Next, NEW o \in 1 .. Len(topic), Accounted(o)
    PROVE  Accounted(o)'
<1>1. topic'[o] = topic[o] /\ dlq \subseteq dlq'
  BY TopicGrows
<1>2. topic[o].event_id \in EventIds
  BY DEF TypeInv, TypeOK, EventIds
<1>3. world[topic[o].event_id] # NoRecord =>
        world'[topic[o].event_id] = world[topic[o].event_id]
  BY <1>2, LedgerGrows
<1> QED
  BY <1>1, <1>3 DEF Accounted, Logged

\* A worker reaches its commit by a confirmed record or a dead letter.
LEMMA AllAccountedStep ==
    ASSUME TypeInv, TypeInv', Ledger!IInv, OwnTransaction, OwnersPosition, AllAccounted, Next
    PROVE  AllAccounted'
<1> SUFFICES ASSUME ~Faulty("dlq")
             PROVE  /\ \A o \in 1 .. committed' : Accounted(o)'
                    /\ \A w \in Workers : pc'[w] = "commit" => Accounted(pos[w])'
  BY DEF AllAccounted, Faulty
<1>0. /\ Len(topic) \in Nat /\ committed \in 0 .. Len(topic)
      /\ pos \in [Workers -> 0 .. Len(topic)]
  BY DEF TypeInv, TypeOK
<1>1. \A o \in 1 .. Len(topic) : Accounted(o) => Accounted(o)'
  BY AccountedStays
<1>2. \A w \in Workers : pc[w] \in Busy => pos[w] \in 1 .. Len(topic)
  BY <1>0 DEF TypeInv, InHand
<1>3. ASSUME NEW o \in 1 .. committed'
      PROVE  Accounted(o)'
  <2>1. CASE o \in 1 .. committed
    BY <1>0, <1>1, <2>1 DEF AllAccounted
  <2>2. CASE o \notin 1 .. committed
    <3>1. PICK w \in Workers : pc[w] = "commit" /\ pos[w] = o
      BY <1>0, <2>2, CommittedMoves
    <3> QED
      BY <1>1, <1>2, <3>1 DEF AllAccounted, Busy, Steps
  <2> QED
    BY <2>1, <2>2
<1>4. ASSUME NEW w \in Workers, pc'[w] = "commit"
      PROVE  Accounted(pos[w])'
  <2>1. CASE UNCHANGED <<pc[w], pos[w]>>
    <3>1. Accounted(pos[w]) /\ pos[w] \in 1 .. Len(topic)
      BY <1>2, <1>4, <2>1 DEF AllAccounted, Busy, Steps
    <3> QED
      BY <1>1, <2>1, <3>1 DEF Accounted, Logged
  <2>2. CASE DeadLetter(w)
    BY <2>2 DEF DeadLetter, Accounted
  <2>3. CASE DeadLetterLost(w)
    BY <2>3 DEF DeadLetterLost
  <2>4. CASE Cache(w)
    <3>1. pc[w] = "redis" /\ UNCHANGED <<pos, world, topic>>
      BY <2>4 DEF Cache, kafka_vars, fabric_vars
    <3>2. world[Record(w).event_id] = Record(w) /\ Record(w) # NoRecord
      BY <3>1, ConfirmedIsStored
    <3>3. Logged(pos[w])
      BY <3>2 DEF Logged, Record, LedgerRecord, Message
    <3> QED
      BY <3>1, <3>3 DEF Accounted, Logged
  <2> QED
    BY <1>4, <2>1, <2>2, <2>3, <2>4, OthersSteps, Arrive
<1> QED
  BY <1>3, <1>4

\* Stamps are given out in order; only a submission makes a transaction of one.
LEMMA StampChanges ==
    ASSUME TypeInv, Next
    PROVE  /\ now <= now'
           /\ \A w \in Workers : stamp'[w] \notin {0, stamp[w]} =>
                /\ stamp'[w] = now + 1 /\ now' = now + 1
                /\ \A v \in Workers \ {w} : stamp'[v] = stamp[v]
<1>1. ASSUME NEW w \in Workers, Parse(w)
      PROVE  /\ now' = now + 1
             /\ stamp' = [stamp EXCEPT ![w] = now + 1]
  BY <1>1 DEF Parse
<1>2. ASSUME \A w \in Workers : ~Parse(w)
      PROVE  /\ now' = now
             /\ \A w \in Workers : stamp'[w] \in {0, stamp[w]}
  BY <1>2 DEF TypeInv, TypeOK, Next, Step, ProcessMessage, Produce, Assign, Steal, Crash,
         Start, Poll, ParseRefused, Add, AddFails, AddGarbled, Pin, PinFails, Cat,
         CatFails, Sign, LoadKeyFails, LoadKeyRefused, Submit, SubmitFails, Confirmed,
         WaitFails, Cache, CacheFails, DeadLetter, DeadLetterLost, CommitOffset,
         CommitFenced, Down, FabricCommit, GarbageCollect, Expire, worker_vars
<1>3. now \in Nat /\ stamp \in [Workers -> Stamps \cup {0}]
  BY MaxParsesIsNat DEF TypeInv, TypeOK
<1> QED
  BY <1>1, <1>2, <1>3

\* A transaction is proposed by the worker that has its stamp.
LEMMA ProposedChanges ==
    ASSUME TypeInv, Ledger!IInv, Next, NEW t \in Stamps, Proposed(t)', ~Proposed(t)
    PROVE  \E w \in Workers : Submit(w) /\ stamp[w] = t
<1>1. txs \in [Stamps -> Ledger!Tx]
  BY DEF Ledger!IInv, Ledger!TypeOK
<1>2. ASSUME NEW w \in Workers, Submit(w), stamp[w] # t
      PROVE  txs'[t] = txs[t]
  <2>1. Fabric!LogSecurityEvent(stamp[w], Org, Record(w), Record(w).timestamp)
    BY <1>2 DEF Submit, LogEvent
  <2> QED
    BY <1>1, <1>2, <2>1 DEF Fabric!LogSecurityEvent
<1>3. ASSUME NEW s \in Stamps, FabricCommit(s)
      PROVE  Proposed(t)' => Proposed(t)
  <2>1. Ledger!CommitValid(s) \/ Ledger!CommitInvalid(s)
    BY <1>3, SameCommit DEF FabricCommit
  <2>2. txs[s].status = "endorsed" /\ (t # s => txs'[t] = txs[t])
    BY <1>1, <2>1 DEF Ledger!CommitValid, Ledger!CommitInvalid
  <2> QED
    BY <2>2 DEF Proposed
<1>4. (\A w \in Workers : ~Submit(w)) /\ (\A s \in Stamps : ~FabricCommit(s))
        => UNCHANGED fabric_vars
  BY DEF Next, Step, ProcessMessage, Produce, Assign, Steal, Crash, Start, Poll, Parse,
         ParseRefused, Add, AddFails, AddGarbled, Pin, PinFails, Cat, CatFails, Sign,
         LoadKeyFails, LoadKeyRefused, SubmitFails, Confirmed, WaitFails, Cache,
         CacheFails, DeadLetter, DeadLetterLost, CommitOffset, CommitFenced,
         GarbageCollect, Expire
<1> QED
  BY <1>2, <1>3, <1>4 DEF Proposed, fabric_vars

\* A stamp is given out once, later than all before it.
LEMMA StampsAreFreshStep ==
    ASSUME TypeInv, TypeInv', Ledger!IInv, StampsAreFresh, Next
    PROVE  StampsAreFresh'
<1>0. /\ now \in Nat /\ stamp \in [Workers -> Stamps \cup {0}]
      /\ now' \in Nat /\ stamp' \in [Workers -> Stamps \cup {0}]
      /\ Stamps \subseteq Nat /\ 0 \notin Stamps
  <2>1. now \in 0 .. MaxParses /\ stamp \in [Workers -> Stamps \cup {0}]
    BY DEF TypeInv, TypeOK
  <2>2. now' \in 0 .. MaxParses /\ stamp' \in [Workers -> Stamps \cup {0}]
    BY DEF TypeInv, TypeOK
  <2>3. Stamps \subseteq Nat /\ 0 \notin Stamps
    BY LedgerAssumptions
  <2>4. \A n \in 0 .. MaxParses : n \in Nat
    BY MaxParsesIsNat
  <2> QED
    BY <2>1, <2>2, <2>3, <2>4
<1>1. ASSUME NEW w \in Workers
      PROVE  stamp'[w] <= now'
  <2>1. now <= now'
    BY StampChanges
  <2>2. stamp[w] <= now
    BY DEF StampsAreFresh
  <2>3. stamp[w] \in Nat
    <3>1. stamp[w] \in Stamps \cup {0}
      BY <1>0
    <3> QED
      BY <3>1, MaxParsesIsNat DEF Stamps
  <2>4. stamp'[w] = 0 \/ stamp'[w] = stamp[w] \/ stamp'[w] = now'
    BY StampChanges
  <2> QED
    BY <1>0, <2>1, <2>2, <2>3, <2>4
<1>2. ASSUME NEW t \in Stamps, Proposed(t)'
      PROVE  t <= now'
  <2>0. now <= now'
    BY <1>0, StampChanges DEF StampsAreFresh
  <2>1. CASE Proposed(t)
    BY <1>0, <2>0, <2>1 DEF StampsAreFresh
  <2>2. CASE ~Proposed(t)
    <3>1. PICK w \in Workers : Submit(w) /\ stamp[w] = t
      BY <1>2, <2>2, ProposedChanges
    <3>2. t <= now
      BY <3>1 DEF StampsAreFresh
    <3> QED
      BY <1>0, <2>0, <3>2
  <2> QED
    BY <2>1, <2>2
<1>3. ASSUME NEW v \in Workers, NEW w \in Workers, v # w, stamp'[v] = stamp'[w], stamp'[w] # 0
      PROVE  FALSE
  BY <1>0, <1>3, StampChanges DEF StampsAreFresh
<1>4. ASSUME NEW w \in Workers, pc'[w] \in {"add", "pin", "cat", "sign", "submit"},
             Proposed(stamp[w])'
      PROVE  FALSE
  <2>0. stamp'[w] \in Stamps
    BY <1>4 DEF TypeInv, InHand, Parsed
  <2>1. CASE UNCHANGED <<pc[w], stamp[w]>>
    <3>1. ~Proposed(stamp[w]) /\ stamp[w] \in Stamps /\ stamp[w] # 0
      BY <1>0, <1>4, <2>0, <2>1 DEF StampsAreFresh
    <3>2. PICK u \in Workers : Submit(u) /\ stamp[u] = stamp[w]
      BY <1>4, <2>1, <3>1, ProposedChanges DEF Proposed
    <3>3. u = w
      BY <3>1, <3>2 DEF StampsAreFresh
    <3> QED
      BY <1>4, <2>1, <3>2, <3>3 DEF Submit, Goto, TypeInv, TypeOK
  <2>2. CASE Parse(w)
    <3>1. stamp'[w] = now + 1 /\ UNCHANGED txs
      BY <1>0, <2>2 DEF Parse, fabric_vars
    <3>2. Proposed(now + 1)
      BY <1>4, <3>1 DEF Proposed
    <3>3. now + 1 <= now
      BY <2>0, <3>1, <3>2 DEF StampsAreFresh
    <3> QED
      BY <1>0, <3>3
  <2>3. CASE Add(w) \/ Pin(w) \/ Cat(w) \/ Sign(w)
    <3>1. pc[w] \in {"add", "pin", "cat", "sign"} /\ UNCHANGED <<stamp, txs>>
      BY <2>3 DEF Add, Pin, Cat, Sign, fabric_vars
    <3> QED
      BY <1>4, <3>1 DEF StampsAreFresh, Proposed
  <2> QED
    BY <1>4, <2>1, <2>2, <2>3, OthersSteps, Arrive
<1> QED
  BY <1>1, <1>2, <1>3, <1>4 DEF StampsAreFresh

\* Nobody but a worker that adds the same payload unpins one.
LEMMA PinsStay ==
    ASSUME TypeInv, Next, NEW s \in Stamps, ipfs[s] = "pinned"
    PROVE  \/ ipfs'[s] = "pinned"
           \/ \E w \in Workers : pc[w] = "add" /\ stamp[w] = s
BY DEF TypeInv, TypeOK, Next, Step, ProcessMessage, Produce, Assign, Steal, Crash, Start, Poll, Parse,
       ParseRefused, Add, AddFails, AddGarbled, Pin, PinFails, Cat, CatFails, Sign,
       LoadKeyFails, LoadKeyRefused, Submit, SubmitFails, Confirmed, WaitFails, Cache,
       CacheFails, DeadLetter, DeadLetterLost, CommitOffset, CommitFenced,
       FabricCommit, GarbageCollect, Expire

\* What was pinned under a stamp stays, and nobody else uploads under it.
LEMMA PinnedBeforeSubmitStep ==
    ASSUME TypeInv, TypeInv', Ledger!IInv, StampsAreFresh, PinnedBeforeSubmit, Next
    PROVE  PinnedBeforeSubmit'
<1>0. 0 \notin Stamps
  BY LedgerAssumptions
<1>1. ASSUME NEW w \in Workers, Submit(w)
      PROVE  /\ txs'[stamp[w]].rec.payload.ipfs_cid = stamp[w]
             /\ pc[w] = "submit" /\ stamp[w] \in Stamps /\ UNCHANGED ipfs
  <2>1. /\ pc[w] = "submit" /\ UNCHANGED ipfs
        /\ Fabric!LogSecurityEvent(stamp[w], Org, Record(w), Record(w).timestamp)
    BY <1>1 DEF Submit, LogEvent
  <2>2. stamp[w] \in Stamps /\ Record(w).timestamp = stamp[w]
    BY <2>1, RecordIsRecord DEF TypeInv, InHand, Parsed
  <2>3. txs'[stamp[w]].rec = Record(w)
    BY <1>0, <2>1, <2>2 DEF Fabric!LogSecurityEvent, Fabric!Timestamped, Ledger!IInv,
       Ledger!TypeOK
  <2> QED
    BY <2>1, <2>2, <2>3 DEF Record, LedgerRecord
<1>2. ASSUME NEW t \in Stamps, Proposed(t)'
      PROVE  txs'[t].rec.payload.ipfs_cid = t
  <2>1. CASE Proposed(t)
    BY <2>1, LedgerGrows DEF PinnedBeforeSubmit
  <2>2. CASE ~Proposed(t)
    BY <1>1, <1>2, <2>2, ProposedChanges
  <2> QED
    BY <2>1, <2>2
<1>3. ASSUME PinEnabled, NEW t \in Stamps, Proposed(t)'
      PROVE  ipfs'[t] = "pinned"
  <2>1. CASE Proposed(t)
    <3>1. \A w \in Workers : pc[w] = "add" => stamp[w] # t
      BY <2>1 DEF StampsAreFresh
    <3> QED
      BY <1>3, <2>1, <3>1, PinsStay DEF PinnedBeforeSubmit
  <2>2. CASE ~Proposed(t)
    BY <1>1, <1>3, <2>2, ProposedChanges DEF PinnedBeforeSubmit
  <2> QED
    BY <2>1, <2>2
<1>4. ASSUME PinEnabled, NEW w \in Workers, pc'[w] \in {"cat", "sign", "submit"}
      PROVE  ipfs'[stamp'[w]] = "pinned"
  <2>1. CASE UNCHANGED <<pc[w], stamp[w]>>
    <3>1. ipfs[stamp[w]] = "pinned" /\ stamp[w] \in Stamps
      BY <1>4, <2>1 DEF PinnedBeforeSubmit, TypeInv, InHand, Parsed
    <3>2. \A v \in Workers : pc[v] = "add" => stamp[v] # stamp[w]
      BY <1>0, <1>4, <2>1, <3>1 DEF StampsAreFresh
    <3> QED
      BY <2>1, <3>1, <3>2, PinsStay
  <2>2. CASE Pin(w)
    <3>1. stamp[w] \in Stamps
      BY <2>2 DEF Pin, TypeInv, InHand, Parsed
    <3> QED
      BY <2>2, <3>1 DEF Pin, TypeInv, TypeOK
  <2>3. CASE Cat(w) \/ Sign(w)
    BY <1>4, <2>3 DEF Cat, Sign, PinnedBeforeSubmit
  <2> QED
    BY <1>4, <2>1, <2>2, <2>3, OthersSteps, Arrive
<1> QED
  BY <1>2, <1>3, <1>4 DEF PinnedBeforeSubmit

-----------------------------------------------------------------------------
(* The invariant and the theorems.                                         *)

\* The invariant holds at the start.
LEMMA InitIInv == Init => IInv
<1> SUFFICES ASSUME Init
             PROVE  IInv
  OBVIOUS
<1>1. Ledger!IInv
  BY SameInit, Ledger!InitIInv, LedgerAssumptions DEF Init
<1>2. Fabric!TypeOK
  BY <1>1, SameType DEF Ledger!IInv
<1>3. TypeInv
  BY <1>2, MaxParsesIsNat DEF Init, TypeInv, TypeOK, InHand, Steps, Busy, Parsed
<1>4. StampsAreFresh /\ PinnedBeforeSubmit
  BY MaxParsesIsNat DEF Init, StampsAreFresh, PinnedBeforeSubmit, Proposed, Fabric!Init, Fabric!NoTx
<1>5. OwnTransaction /\ OwnersPosition /\ AllAccounted /\ RedisMirrorsLedger /\ IndexMatchesLedger
  BY DEF Init, OwnTransaction, OwnersPosition, AllAccounted, RedisMirrorsLedger,
         IndexMatchesLedger, Busy
<1> QED
  BY <1>1, <1>3, <1>4, <1>5 DEF IInv

\* Every step keeps the invariant: one fact for each of its parts.
LEMMA NextIInv == IInv /\ [Next]_vars => IInv'
<1> SUFFICES ASSUME IInv, [Next]_vars
             PROVE  IInv'
  OBVIOUS
<1>1. CASE Next
  <2>1. Ledger!IInv'
    BY <1>1, LedgerGrows DEF IInv
  <2>2. Fabric!TypeOK'
    BY <2>1, SameRecords DEF Ledger!IInv, Fabric!TypeOK, Ledger!TypeOK, Fabric!Tx, Ledger!Tx,
       Fabric!Statuses, Ledger!Statuses
  <2>3. TypeInv'
    BY <1>1, <2>2, TypeStep DEF IInv
  <2> QED
    BY <1>1, <2>1, <2>3, OwnTransactionStep, OwnersPositionStep, AllAccountedStep,
       StampsAreFreshStep, PinnedBeforeSubmitStep, RedisMirrorsLedgerStep,
       IndexMatchesLedgerStep DEF IInv
<1>2. CASE UNCHANGED vars
  <2> USE <1>2 DEF vars, worker_vars, kafka_vars, fabric_vars, redis_vars, IInv
  <2>1. TypeInv'
    BY DEF TypeInv, TypeOK, InHand, Message, Fabric!TypeOK
  <2>2. Ledger!IInv'
    <3>1. UNCHANGED Ledger!vars
      BY DEF Ledger!vars
    <3> QED
      BY <3>1, Ledger!NextIInv, LedgerAssumptions
  <2>3. OwnTransaction' /\ OwnersPosition'
    BY DEF OwnTransaction, OwnersPosition, Record, Message, Proposed
  <2>4. AllAccounted'
    BY DEF AllAccounted, Accounted, Logged, Faulty
  <2>5. StampsAreFresh' /\ PinnedBeforeSubmit'
    BY DEF StampsAreFresh, PinnedBeforeSubmit, Proposed
  <2>6. RedisMirrorsLedger' /\ IndexMatchesLedger'
    BY DEF RedisMirrorsLedger, IndexMatchesLedger
  <2> QED
    BY <2>1, <2>2, <2>3, <2>4, <2>5, <2>6
<1> QED
  BY <1>1, <1>2

\* The conjunction of the parts above holds in every reachable state.
THEOREM Invariance == Spec => []IInv
BY InitIInv, NextIInv, PTL DEF Spec

\* Type correctness of the whole pipeline, main and process_message included.
THEOREM TypeCorrect == Spec => []TypeOK
<1>1. IInv => TypeOK
  BY DEF IInv, TypeInv
<1> QED
  BY <1>1, Invariance, PTL

\* No message behind the committed offset is lost: main dead-letters or logs it
\* before consumer.commit, on whatever path it got there.
THEOREM NoLoss == Spec => []NoSilentLoss
<1>1. IInv => NoSilentLoss
  BY DEF IInv, AllAccounted, Accounted, NoSilentLoss
<1> QED
  BY <1>1, Invariance, PTL

\* What _write_to_redis cached is what the ledger holds.
THEOREM CacheIsLedger == Spec => []RedisMirrorsLedger
<1>1. IInv => RedisMirrorsLedger
  BY DEF IInv
<1> QED
  BY <1>1, Invariance, PTL

\* The asset and severity indexes of _write_to_redis lead to ledger records.
THEOREM IndexCorrect == Spec => []IndexMatchesLedger
<1>1. IInv => IndexMatchesLedger
  BY DEF IInv
<1> QED
  BY <1>1, Invariance, PTL

\* With IPFS_PIN, no payload named by a ledger record is collected: the record's
\* transaction was proposed after upload_event pinned what its CID names.
THEOREM Evidence == Spec => []EvidenceRetrievable
<1>1. IInv => EvidenceRetrievable
  <2> SUFFICES ASSUME IInv, PinEnabled, NEW e \in EventIds, world[e] # NoRecord
               PROVE  ipfs[world[e].payload.ipfs_cid] = "pinned"
    BY DEF EvidenceRetrievable
  <2>1. PICK t \in Stamps : txs[t].status = "valid" /\ txs[t].rec = world[e]
    BY DEF IInv, Ledger!IInv, Ledger!StoredByOne, Ledger!EventExists
  <2> QED
    BY <2>1 DEF IInv, PinnedBeforeSubmit, Proposed
<1> QED
  BY <1>1, Invariance, PTL

\* A consumer that lost its partition never takes the group's offset back: only
\* the owner commits, and it is at the message after the committed offset.
THEOREM OffsetsMonotone == Spec => CommittedNeverRegresses
<1>1. IInv /\ [Next]_vars => [committed' >= committed]_vars
  <2> SUFFICES ASSUME IInv, Next
               PROVE  committed' >= committed
    OBVIOUS
  <2>1. committed \in Nat
    BY DEF IInv, TypeInv, TypeOK
  <2> QED
    BY <2>1, CommittedMoves DEF IInv
<1> QED
  BY <1>1, Invariance, PTL DEF Spec, CommittedNeverRegresses

\* The pipeline's ledger is the abstract audit trail, as the chaincode's alone is.
THEOREM TrailRefinement == Spec => LedgerIsTrail
<1>1. Init => Fabric!Trail!Init
  BY DEF Init, Fabric!Init, Fabric!Trail!Init
<1>2. IInv /\ [Next]_vars => [Fabric!Trail!Next]_world
  <2> SUFFICES ASSUME IInv, [Next]_vars
               PROVE  [Ledger!Trail!Next]_world
    BY SameTrail
  <2>1. CASE Next
    BY <2>1, LedgerStep, Ledger!StepAppendsOrStutters, LedgerAssumptions DEF IInv
  <2>2. CASE UNCHANGED vars
    BY <2>2 DEF vars, fabric_vars
  <2> QED
    BY <2>1, <2>2
<1> QED
  BY <1>1, <1>2, Invariance, PTL DEF Spec, LedgerIsTrail, Fabric!ImplementsTrail, Fabric!Trail!Spec

=============================================================================

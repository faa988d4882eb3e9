--------------------------- MODULE AuditApiProofs ---------------------------
(***************************************************************************)
(* The audit-api's answers and verdicts, for any records, indexes, page    *)
(* sizes and alterations, while the logger writes and records expire       *)
(* between any two reads of a request.  The argument: what an index says   *)
(* of a record stays true, because ledger records never change and index   *)
(* entries are never rewritten, so a page read earlier is still a page of  *)
(* ledger records in order; and the pages of a report are of different     *)
(* severities, so no record is in two of them.                             *)
(***************************************************************************)
EXTENDS AuditApi, FiniteSetTheorems, SequenceTheorems, TLAPS

USE RecordsAreRecords, IdsAreOrdered, LimitIsPositive, PagesAreIntegers,
    SeveritiesAreReported

-----------------------------------------------------------------------------
(* What holds of the stores.                                               *)

\* The ledger keeps a record under its id; Redis caches that record; an index entry
\* sorts a ledger record of the index by its timestamp, and a cached record has both
\* of its own.
StoresAgree ==
    /\ \A e \in EventIds : world[e] # NoRecord => world[e].event_id = e
    /\ \A e \in EventIds : redis[e] # NoRecord =>
         /\ redis[e] = world[e]
         /\ \A k \in Keys(world[e]) : index[k][e] # 0
    /\ \A k \in IndexKeys, e \in EventIds : index[k][e] # 0 =>
         /\ world[e] # NoRecord /\ k \in Keys(world[e])
         /\ index[k][e] = world[e].timestamp

\* What stands under a key is a ledger record, if not the key's own.
HeldIsLogged ==
    \A e \in EventIds : redis[e] # NoRecord =>
        held[e] # NoRecord /\ held[e] = world[held[e].event_id]

IndexIsFinite == \A k \in IndexKeys : IsFiniteSet(Indexed(k))

PayloadsStay ==
    PinEnabled => \A e \in EventIds :
        world[e] # NoRecord => ipfs[world[e].payload.ipfs_cid] = "pinned"

PresentIsLegible ==
    \A e \in present : redis[e] # NoRecord /\ "unreadable" \notin altered[e]

-----------------------------------------------------------------------------
(* What holds of the request.                                              *)

Requests ==
    [pc : {"idle", "index", "record", "get", "load", "fetch", "signature", "done"},
     op : {"none", "query", "report", "event", "verify"},
     todo : Seq(IndexKeys), limit : Int, window : Windows \cup {<<0, 0>>},
     key : IndexKeys \cup {<<>>}, ids : Seq(EventIds), next : Nat \ {0},
     found : Seq(Copies), status : Statuses]

RequestType == req \in Requests

Paged == req.op \in {"query", "report"}

\* Where each kind of request is, and what it has read by then.
Control ==
    /\ req.next <= Len(req.ids) + 1
    /\ req.pc # "done" => req.status = "none"
    /\ req.pc = "idle" => req.op = "none" /\ req.found = <<>>
    /\ req.pc = "index" => Paged /\ req.todo # <<>> /\ req.next > Len(req.ids)
    /\ req.pc = "record" => Paged /\ req.next <= Len(req.ids)
    /\ req.pc = "get" => req.op = "event" /\ Len(req.ids) = 1 /\ req.found = <<>>
    /\ req.pc = "load" => req.op = "verify" /\ Len(req.ids) = 1 /\ req.found = <<>>
    /\ req.pc \in {"fetch", "signature"} => req.op = "verify" /\ Len(req.found) = 1
    /\ ~Paged => req.todo = <<>> /\ Len(req.found) <= 1
    /\ Paged /\ req.status = "ok" => req.next > Len(req.ids) /\ req.todo = <<>>
    /\ req.status = "VALID" => Len(req.found) = 1

FoundIsLedger ==
    \A i \in 1 .. Len(req.found) :
        /\ req.found[i].rec = world[req.found[i].rec.event_id]
        /\ req.found[i].held = world[req.found[i].held.event_id]
        /\ "unreadable" \notin req.found[i].altered

\* The rest of the page: what is still to be fetched.
Rest == req.next .. Len(req.ids)

\* The page is of ledger records of its index, in order, and shares none with the
\* indexes still to be read.
PageState ==
    Paged =>
        /\ \A j \in 1 .. Len(req.ids) :
             /\ world[req.ids[j]] # NoRecord /\ req.key \in Keys(world[req.ids[j]])
             /\ \A t \in 1 .. Len(req.todo) : req.todo[t] \notin Keys(world[req.ids[j]])
        /\ \A i, j \in 1 .. Len(req.ids) : i < j =>
             /\ req.ids[i] # req.ids[j]
             /\ world[req.ids[i]].timestamp >= world[req.ids[j]].timestamp

\* A query reads one index; the report reads indexes of different severities.
TodoState ==
    /\ req.op = "query" /\ req.todo # <<>> =>
         Len(req.todo) = 1 /\ req.found = <<>> /\ req.ids = <<>> /\ req.key = <<>>
    /\ req.op = "report" =>
         /\ \A t \in 1 .. Len(req.todo) : req.todo[t][1] = "severity"
         /\ \A s, t \in 1 .. Len(req.todo) : s # t => req.todo[s] # req.todo[t]

\* A record is found once, before it is anywhere else to be read.
FoundOnce ==
    Paged =>
        /\ \A i, j \in 1 .. Len(req.found) : i # j => req.found[i].rec # req.found[j].rec
        /\ \A i \in 1 .. Len(req.found) :
             /\ \A j \in Rest : req.found[i].rec.event_id # req.ids[j]
             /\ \A t \in 1 .. Len(req.todo) : req.todo[t] \notin Keys(req.found[i].rec)

\* A query's records come in the order of its page.
QueryState ==
    req.op = "query" =>
        /\ \A i \in 1 .. Len(req.found) : req.key \in Keys(req.found[i].rec)
        /\ \A i, j \in 1 .. Len(req.found) :
             i < j => req.found[i].rec.timestamp >= req.found[j].rec.timestamp
        /\ \A i \in 1 .. Len(req.found), j \in Rest :
             req.found[i].rec.timestamp >= world[req.ids[j]].timestamp
        /\ Len(req.found) < req.next
        /\ req.limit > 0 => Len(req.ids) <= req.limit

\* A present record was found, or is on the page or in an index still to be read, or
\* has newer entries before it than a page holds.
Reached(e, k) ==
    \/ world[e] \in Found
    \/ \E j \in Rest : req.ids[j] = e
    \/ \E t \in 1 .. Len(req.todo) : req.todo[t] = k
    \/ Displaced(k, e)

PresentIsReached ==
    Paged => \A e \in present : \A k \in ReadFor(world[e]) : Reached(e, k)

\* What verify_record has checked by the time it fetches the payload, and then the
\* signature; and what it never says of a copy whose signed part is as logged.
Verified ==
    /\ req.pc \in {"fetch", "signature"} =>
         "missing" \notin req.found[1].altered /\ HashMatches(req.found[1].altered)
    /\ req.pc = "signature" =>
         ("ipfs_cid" \in req.found[1].altered <=> "sha256" \in req.found[1].altered)
    /\ ValidIsGenuine
    /\ req.op = "verify" /\ req.found # <<>> /\ req.found[1].altered \subseteq {"unsigned"} =>
         req.status \notin {"MISSING_FIELDS", "HASH_MISMATCH", "IPFS_HASH_MISMATCH"}

StoreInv == StoresAgree /\ HeldIsLogged /\ IndexIsFinite /\ PayloadsStay /\ PresentIsLegible

RequestInv ==
    /\ RequestType /\ Control
    /\ FoundIsLedger /\ PageState /\ TodoState /\ FoundOnce /\ QueryState
    /\ PresentIsReached
    /\ Verified


-----------------------------------------------------------------------------
(* An index as Redis sorts it.                                             *)

StoreTypes ==
    /\ world \in [EventIds -> Records \cup {NoRecord}]
    /\ redis \in [EventIds -> Records \cup {NoRecord}]
    /\ \A k \in IndexKeys : index[k] \in [EventIds -> Nat]
    /\ ipfs \in [Cids -> {"absent", "stored", "pinned"}]
    /\ held \in [EventIds -> Records \cup {NoRecord}]
    /\ altered \in [EventIds -> SUBSET Parts]
    /\ present \subseteq EventIds

IInv == StoreTypes /\ StoreInv /\ RequestInv

Rank(k, e) == Cardinality(Before(k, e))

\* A finite index has finitely many entries before any other.
LEMMA BeforeIsFinite ==
    ASSUME NEW k \in IndexKeys, IsFiniteSet(Indexed(k)), NEW e
    PROVE  IsFiniteSet(Before(k, e)) /\ Rank(k, e) \in Nat
<1>1. Before(k, e) \in SUBSET Indexed(k)
  BY DEF Before
<1> QED
  BY <1>1, FS_Subset, FS_CardinalityType DEF Rank

\* Of two members one comes before the other, and what comes before an earlier member
\* comes before a later one.
LEMMA BeforeIsTotal ==
    ASSUME StoreTypes, NEW k \in IndexKeys, NEW e \in Indexed(k), NEW f \in Indexed(k), e # f
    PROVE  f \in Before(k, e) \/ e \in Before(k, f)
<1>1. e \in EventIds /\ f \in EventIds /\ e \in Nat /\ f \in Nat
  BY DEF Indexed
<1>2. index[k][e] \in Nat /\ index[k][f] \in Nat
  BY <1>1 DEF StoreTypes
<1> QED
  BY <1>1, <1>2 DEF Before

\* An entry that comes before another has a lower rank and no lower score.
LEMMA EarlierRanksLower ==
    ASSUME StoreTypes, NEW k \in IndexKeys, IsFiniteSet(Indexed(k)),
           NEW e \in EventIds, NEW f \in Before(k, e)
    PROVE  Rank(k, f) < Rank(k, e) /\ index[k][f] >= index[k][e]
<1>1. /\ index[k] \in [EventIds -> Nat] /\ f \in EventIds
      /\ e \in Nat /\ f \in Nat
  BY DEF StoreTypes, Before, Indexed
<1>2. Before(k, f) \cup {f} \in SUBSET Before(k, e)
  <2> SUFFICES ASSUME NEW g \in Before(k, f)
               PROVE  g \in Before(k, e)
    OBVIOUS
  <2>1. g \in Indexed(k) /\ g \in EventIds /\ g \in Nat
    BY DEF Before, Indexed
  <2>2. index[k][e] \in Nat /\ index[k][f] \in Nat /\ index[k][g] \in Nat
    BY <1>1, <2>1
  <2> QED
    BY <1>1, <2>1, <2>2 DEF Before
<1>3. f \notin Before(k, f)
  BY <1>1 DEF Before
<1>4. Cardinality(Before(k, f) \cup {f}) = Rank(k, f) + 1
  BY <1>3, BeforeIsFinite, FS_AddElement DEF Rank
<1>5. Cardinality(Before(k, f) \cup {f}) <= Rank(k, e)
  BY <1>2, BeforeIsFinite, FS_Subset DEF Rank
<1>6. Rank(k, f) \in Nat /\ Rank(k, e) \in Nat
  BY BeforeIsFinite
<1>7. index[k][f] >= index[k][e]
  BY <1>1 DEF Before
<1> QED
  BY <1>4, <1>5, <1>6, <1>7

\* Each rank below the size of the index is that of one member.
LEMMA RankIsOneToOne ==
    ASSUME StoreTypes, NEW k \in IndexKeys, IsFiniteSet(Indexed(k)),
           NEW e \in Indexed(k), NEW f \in Indexed(k), Rank(k, e) = Rank(k, f)
    PROVE  e = f
<1> SUFFICES ASSUME e # f
             PROVE  FALSE
  OBVIOUS
<1>1. e \in EventIds /\ f \in EventIds
  BY DEF Indexed
<1>2. Rank(k, f) < Rank(k, e) \/ Rank(k, e) < Rank(k, f)
  BY <1>1, BeforeIsTotal, EarlierRanksLower
<1> QED
  BY <1>2, BeforeIsFinite

\* The ranks of a finite index are 0 to its size less 1, without a gap.
LEMMA RankIsTaken ==
    ASSUME StoreTypes, NEW k \in IndexKeys, IsFiniteSet(Indexed(k))
    PROVE  /\ Cardinality(Indexed(k)) \in Nat
           /\ \A e \in Indexed(k) : Rank(k, e) \in 0 .. Cardinality(Indexed(k)) - 1
           /\ \A n \in 0 .. Cardinality(Indexed(k)) - 1 :
                  \E e \in Indexed(k) : Rank(k, e) = n
<1> DEFINE S == Indexed(k)
           size == Cardinality(S)
           T == 0 .. size - 1
           rank == [e \in S |-> Rank(k, e)]
<1>1. size \in Nat
  BY FS_CardinalityType
<1>2. ASSUME NEW e \in S
      PROVE  Rank(k, e) \in T
  <2>1. e \in EventIds /\ Before(k, e) \in SUBSET S /\ e \notin Before(k, e)
    BY DEF Before, Indexed, StoreTypes
  <2>2. Before(k, e) \in SUBSET (S \ {e})
    BY <2>1
  <2>3. IsFiniteSet(S \ {e}) /\ Cardinality(S \ {e}) = size - 1
    BY <1>2, FS_RemoveElement
  <2>4. Rank(k, e) <= size - 1 /\ Rank(k, e) \in Nat
    BY <2>2, <2>3, FS_Subset, BeforeIsFinite DEF Rank
  <2> QED
    BY <1>1, <2>4
<1>3. IsFiniteSet(T) /\ Cardinality(T) = size
  BY <1>1, FS_Interval
<1>4. rank \in Injection(S, T)
  <2>1. rank \in [S -> T]
    BY <1>2
  <2>2. \A e, f \in S : rank[e] = rank[f] => e = f
    BY RankIsOneToOne
  <2> QED
    BY <2>1, <2>2 DEF Injection, IsInjective
<1>5. rank \in Surjection(S, T)
  BY <1>3, <1>4, FS_Injection
<1>6. \A n \in T : \E e \in S : rank[e] = n
  BY <1>5 DEF Surjection
<1> QED
  BY <1>1, <1>2, <1>6

\* A function on 1 .. n is a sequence, an empty one if n is not positive.
LEMMA FunctionIsSequence ==
    ASSUME NEW S, NEW n \in Int, NEW f \in [1 .. n -> S]
    PROVE  f \in Seq(S) /\ Len(f) = IF n >= 0 THEN n ELSE 0
<1>1. CASE n >= 0
  BY <1>1
<1>2. CASE ~(n >= 0)
  <2>1. f \in [1 .. 0 -> S]
    <3>1. 1 .. n = 1 .. 0
      BY <1>2
    <3> QED
      BY <3>1
  <2>2. 0 \in Nat
    OBVIOUS
  <2> QED
    BY <1>2, <2>1, <2>2
<1> QED
  BY <1>1, <1>2

\* The page that ZREVRANGE returns has the members of the lowest ranks, in their order,
\* and all of those up to a stop that is not counted from the end, or is the end.
LEMMA PageOfIndex ==
    ASSUME StoreTypes, NEW k \in IndexKeys, IsFiniteSet(Indexed(k)), NEW stop \in Int
    PROVE  /\ ZRevRange(k, stop) \in Seq(EventIds)
           /\ \A j \in 1 .. Len(ZRevRange(k, stop)) :
                /\ ZRevRange(k, stop)[j] \in Indexed(k)
                /\ Rank(k, ZRevRange(k, stop)[j]) = j - 1
           /\ stop >= 0 => Len(ZRevRange(k, stop)) <= stop + 1
           /\ \A e \in Indexed(k) : stop = -1 \/ (stop >= 0 /\ Rank(k, e) <= stop) =>
                \E j \in 1 .. Len(ZRevRange(k, stop)) : ZRevRange(k, stop)[j] = e
<1> DEFINE size == Cardinality(Indexed(k))
           last == IF stop < 0 THEN size + stop ELSE IF stop < size THEN stop ELSE size - 1
           At(i) == CHOOSE e \in Indexed(k) : Cardinality(Before(k, e)) = i - 1
           page == [i \in 1 .. last + 1 |-> At(i)]
<1>1. ZRevRange(k, stop) = page
  BY DEF ZRevRange
<1>2. size \in Nat /\ last \in Int /\ last <= size - 1
  BY RankIsTaken
<1>3. /\ stop >= 0 => last <= stop
      /\ \A n \in 0 .. size - 1 : stop = -1 \/ (stop >= 0 /\ n <= stop) => n <= last
  BY <1>2
<1>4. \A i \in 1 .. last + 1 : At(i) \in Indexed(k) /\ Rank(k, At(i)) = i - 1
  <2> SUFFICES ASSUME NEW i \in 1 .. last + 1
               PROVE  At(i) \in Indexed(k) /\ Rank(k, At(i)) = i - 1
    OBVIOUS
  <2>1. i - 1 \in 0 .. size - 1
    BY <1>2
  <2>2. \E e \in Indexed(k) : Cardinality(Before(k, e)) = i - 1
    BY <2>1, RankIsTaken DEF Rank
  <2> QED
    BY <2>2 DEF Rank
<1> HIDE DEF At, last, size
<1>5. page \in Seq(EventIds) /\ Len(page) = IF last + 1 >= 0 THEN last + 1 ELSE 0
  <2>1. \A i \in 1 .. last + 1 : At(i) \in EventIds
    BY <1>4 DEF Indexed
  <2>2. page \in [1 .. last + 1 -> EventIds]
    BY <2>1
  <2>3. last + 1 \in Int
    BY <1>2
  <2> HIDE DEF page
  <2> DEFINE n == last + 1
  <2>4. page \in Seq(EventIds) /\ Len(page) = IF n >= 0 THEN n ELSE 0
    <3> HIDE DEF n
    <3> QED
      BY <2>2, <2>3, FunctionIsSequence DEF n
  <2> QED
    BY <2>4
<1>5a. \A i \in 1 .. last + 1 : page[i] = At(i)
  OBVIOUS
<1> HIDE DEF page
<1>6. \A j \in 1 .. Len(page) : page[j] \in Indexed(k) /\ Rank(k, page[j]) = j - 1
  <2> SUFFICES ASSUME NEW j \in 1 .. Len(page)
               PROVE  page[j] \in Indexed(k) /\ Rank(k, page[j]) = j - 1
    OBVIOUS
  <2>1. j \in 1 .. last + 1
    BY <1>2, <1>5
  <2> QED
    BY <1>4, <1>5a, <2>1
<1>7. ASSUME NEW e \in Indexed(k), stop = -1 \/ (stop >= 0 /\ Rank(k, e) <= stop)
      PROVE  \E j \in 1 .. Len(page) : page[j] = e
  <2>1. Rank(k, e) \in 0 .. size - 1
    BY RankIsTaken DEF size
  <2>2. Rank(k, e) <= last /\ Rank(k, e) + 1 \in 1 .. Len(page)
    <3>1. Rank(k, e) <= last
      BY <1>3, <1>7, <2>1
    <3>2. Rank(k, e) \in Nat
      BY <1>2, <2>1
    <3> QED
      BY <1>2, <1>5, <3>1, <3>2
  <2>3. Rank(k, page[Rank(k, e) + 1]) = Rank(k, e) /\ page[Rank(k, e) + 1] \in Indexed(k)
    BY <1>6, <2>1, <2>2
  <2>4. page[Rank(k, e) + 1] = e
    BY <2>3, RankIsOneToOne
  <2> QED
    BY <2>2, <2>4
<1>8. stop >= 0 => Len(page) <= stop + 1
  BY <1>2, <1>3, <1>5
<1> QED
  BY <1>1, <1>5, <1>6, <1>7, <1>8 DEF page

\* It holds no member twice and is in the order of the scores, newest first.
LEMMA PageIsSorted ==
    ASSUME StoreTypes, NEW k \in IndexKeys, IsFiniteSet(Indexed(k)), NEW ids \in Seq(EventIds),
           \A j \in 1 .. Len(ids) : ids[j] \in Indexed(k) /\ Rank(k, ids[j]) = j - 1,
           NEW i \in 1 .. Len(ids), NEW j \in 1 .. Len(ids), i < j
    PROVE  ids[i] # ids[j] /\ index[k][ids[i]] >= index[k][ids[j]]
<1>1. /\ ids[i] \in Indexed(k) /\ ids[j] \in Indexed(k)
      /\ ids[i] \in EventIds /\ ids[j] \in EventIds
      /\ Rank(k, ids[i]) = i - 1 /\ Rank(k, ids[j]) = j - 1
  BY DEF Indexed
<1>2. ids[i] # ids[j]
  BY <1>1
<1>3. ids[j] \notin Before(k, ids[i])
  BY <1>1, EarlierRanksLower
<1>4. ids[i] \in Before(k, ids[j])
  BY <1>1, <1>2, <1>3, BeforeIsTotal
<1> QED
  BY <1>1, <1>2, <1>4, EarlierRanksLower

-----------------------------------------------------------------------------
(* How the stores change.                                                  *)

\* Whatever a step does to the stores, the logger or the clocks do.
Stored ==
    \/ StoreStep
    \/ \E e \in Alterable, part \in Parts : Alter(e, part)
    \/ \E e \in Alterable, f \in EventIds : Replace(e, f)

\* The ledger grows, an index entry is written once, and what is absent from Redis
\* does not come back legible.
Grown ==
    /\ \A e \in EventIds : world[e] # NoRecord => world'[e] = world[e]
    /\ \A k \in IndexKeys, e \in EventIds : index[k][e] # 0 => index'[k][e] = index[k][e]
    /\ present' \subseteq present

\* The logger's store writes one record to the ledger, and nothing else.
LEMMA LogEffect ==
    ASSUME StoreTypes, NEW r \in Records, Log(r)
    PROVE  /\ r.event_id \in EventIds /\ world[r.event_id] = NoRecord
           /\ \A e \in EventIds : world'[e] = IF e = r.event_id THEN r ELSE world[e]
           /\ world' \in [EventIds -> Records \cup {NoRecord}]
           /\ UNCHANGED <<redis, index, ipfs>>
BY DEF StoreTypes, Log

\* A ledger record is cached with its index entries, where it had none.
LEMMA CacheEffect ==
    ASSUME StoreTypes, NEW e \in EventIds, CacheRecord(e)
    PROVE  /\ world[e] \in Records /\ redis[e] = NoRecord
           /\ \A k \in IndexKeys : index[k][e] = 0
           /\ redis' \in [EventIds -> Records \cup {NoRecord}]
           /\ \A f \in EventIds : redis'[f] = IF f = e THEN world[e] ELSE redis[f]
           /\ \A k \in IndexKeys :
                /\ index'[k] \in [EventIds -> Nat]
                /\ \A f \in EventIds :
                     index'[k][f] = IF f = e /\ k \in Keys(world[e])
                                    THEN world[e].timestamp ELSE index[k][f]
           /\ UNCHANGED <<world, ipfs>>
<1>1. /\ world[e] \in Records /\ redis[e] = NoRecord
      /\ world[e].timestamp \in Nat
      /\ \A k \in IndexKeys : index[k][e] = 0
  BY DEF StoreTypes, CacheRecord
<1>2. /\ redis' \in [EventIds -> Records \cup {NoRecord}]
      /\ \A f \in EventIds : redis'[f] = IF f = e THEN world[e] ELSE redis[f]
  BY <1>1 DEF StoreTypes, CacheRecord
<1>3. ASSUME NEW k \in IndexKeys
      PROVE  /\ index'[k] \in [EventIds -> Nat]
             /\ \A f \in EventIds :
                  index'[k][f] = IF f = e /\ k \in Keys(world[e])
                                 THEN world[e].timestamp ELSE index[k][f]
  <2>1. index'[k] = IF k \in Keys(world[e])
                    THEN [index[k] EXCEPT ![e] = world[e].timestamp] ELSE index[k]
    BY DEF CacheRecord
  <2>2. index[k] \in [EventIds -> Nat]
    BY DEF StoreTypes
  <2> QED
    BY <1>1, <2>1, <2>2
<1> QED
  BY <1>1, <1>2, <1>3 DEF CacheRecord

\* What StoreStep does to what it does not get from AuditStore.
LEMMA AlteredEffect ==
    ASSUME StoreTypes, StoreStep
    PROVE  /\ held' \in [EventIds -> Records \cup {NoRecord}]
           /\ altered' \in [EventIds -> SUBSET Parts]
           /\ present' \subseteq present
           /\ \A e \in present' : redis'[e] # NoRecord /\ altered'[e] = altered[e]
           /\ UNCHANGED req
<1>1. redis' \in [EventIds -> Records \cup {NoRecord}]
  <2>1. ASSUME NEW e \in EventIds, CacheRecord(e)
        PROVE  redis' \in [EventIds -> Records \cup {NoRecord}]
    BY <2>1, CacheEffect
  <2>2. ASSUME NEW e \in EventIds, ExpireRecord(e)
        PROVE  redis' \in [EventIds -> Records \cup {NoRecord}]
    BY <2>2 DEF ExpireRecord, StoreTypes
  <2>3. CASE UNCHANGED redis
    BY <2>3 DEF StoreTypes
  <2> QED
    BY <2>1, <2>2, <2>3 DEF StoreStep, Upload, Collect, Log
<1>2. held' \in [EventIds -> Records \cup {NoRecord}]
  BY <1>1 DEF StoreTypes, StoreStep
<1> QED
  BY <1>2 DEF StoreTypes, StoreStep

\* A step of the store keeps the types, and what is on the ledger or indexed stays.
LEMMA StoredTypes ==
    ASSUME StoreTypes, Stored
    PROVE  StoreTypes' /\ Grown /\ UNCHANGED req
<1>1. CASE StoreStep
  <2>0. /\ held' \in [EventIds -> Records \cup {NoRecord}]
        /\ altered' \in [EventIds -> SUBSET Parts] /\ present' \subseteq present
        /\ UNCHANGED req
    BY <1>1, AlteredEffect
  <2>1. ASSUME NEW c \in Cids, Upload(c) \/ Collect(c)
        PROVE  StoreTypes' /\ Grown
    BY <2>0, <2>1 DEF StoreTypes, Grown, Upload, Collect
  <2>2. ASSUME NEW e \in EventIds, CacheRecord(e)
        PROVE  StoreTypes' /\ Grown
    <3>1. StoreTypes'
      BY <2>0, <2>2, CacheEffect DEF StoreTypes
    <3>2. Grown
      BY <2>0, <2>2, CacheEffect DEF Grown
    <3> QED
      BY <3>1, <3>2
  <2>3. ASSUME NEW e \in EventIds, ExpireRecord(e)
        PROVE  StoreTypes' /\ Grown
    BY <2>0, <2>3 DEF StoreTypes, Grown, ExpireRecord
  <2>4. ASSUME NEW r \in Records, Log(r)
        PROVE  StoreTypes' /\ Grown
    BY <2>0, <2>4, LogEffect DEF StoreTypes, Grown
  <2> QED
    BY <1>1, <2>0, <2>1, <2>2, <2>3, <2>4 DEF StoreStep
<1>2. ASSUME NEW e \in Alterable, NEW part \in Parts, Alter(e, part)
      PROVE  StoreTypes' /\ Grown /\ UNCHANGED req
  <2>1. altered' \in [EventIds -> SUBSET Parts]
    <3>1. altered[e] \cup {part} \in SUBSET Parts
      BY DEF StoreTypes
    <3> QED
      BY <1>2, <3>1 DEF Alter, StoreTypes
  <2>2. present' \subseteq present /\ UNCHANGED <<world, redis, index, ipfs, held, req>>
    BY <1>2 DEF Alter, store_vars
  <2> QED
    BY <2>1, <2>2 DEF StoreTypes, Grown
<1>3. ASSUME NEW e \in Alterable, NEW f \in EventIds, Replace(e, f)
      PROVE  StoreTypes' /\ Grown /\ UNCHANGED req
  <2>1. held' \in [EventIds -> Records \cup {NoRecord}]
    BY <1>3 DEF Replace, StoreTypes
  <2>2. UNCHANGED <<world, redis, index, ipfs, altered, present, req>>
    BY <1>3 DEF Replace, store_vars
  <2> QED
    BY <2>1, <2>2 DEF StoreTypes, Grown
<1> QED
  BY <1>1, <1>2, <1>3 DEF Stored

\* The ledger, Redis and its indexes keep in step.
LEMMA StoredAgree ==
    ASSUME StoreTypes, StoresAgree, Stored
    PROVE  StoresAgree'
<1>1. ASSUME NEW r \in Records, Log(r)
      PROVE  StoresAgree'
  <2>1. /\ world[r.event_id] = NoRecord
        /\ \A e \in EventIds : world'[e] = IF e = r.event_id THEN r ELSE world[e]
        /\ UNCHANGED <<redis, index>>
    BY <1>1, LogEffect
  <2>2. \A e \in EventIds : world'[e] # NoRecord => world'[e].event_id = e
    BY <2>1 DEF StoresAgree
  <2>3. \A e \in EventIds : world[e] # NoRecord => world'[e] = world[e]
    BY <2>1
  <2>4. \A e \in EventIds : redis'[e] # NoRecord =>
          redis'[e] = world'[e] /\ \A k \in Keys(world'[e]) : index'[k][e] # 0
    BY <2>1, <2>3 DEF StoresAgree
  <2>5. \A k \in IndexKeys, e \in EventIds : index'[k][e] # 0 =>
          /\ world'[e] # NoRecord /\ k \in Keys(world'[e])
          /\ index'[k][e] = world'[e].timestamp
    BY <2>1, <2>3 DEF StoresAgree
  <2> QED
    BY <2>2, <2>4, <2>5 DEF StoresAgree
<1>2. ASSUME NEW e \in EventIds, CacheRecord(e)
      PROVE  StoresAgree'
  <2>1. /\ world[e] \in Records /\ world' = world
        /\ \A k \in IndexKeys : index[k][e] = 0
        /\ \A f \in EventIds : redis'[f] = IF f = e THEN world[e] ELSE redis[f]
        /\ \A k \in IndexKeys, f \in EventIds :
             index'[k][f] = IF f = e /\ k \in Keys(world[e])
                            THEN world[e].timestamp ELSE index[k][f]
    BY <1>2, CacheEffect
  <2>2. /\ world[e] # NoRecord /\ world[e].timestamp # 0
        /\ Keys(world[e]) \subseteq IndexKeys
    BY <2>1
  <2>3. \A f \in EventIds : redis'[f] # NoRecord =>
          redis'[f] = world[f] /\ \A k \in Keys(world[f]) : index'[k][f] # 0
    <3> SUFFICES ASSUME NEW f \in EventIds, redis'[f] # NoRecord
                 PROVE  redis'[f] = world[f] /\ \A k \in Keys(world[f]) : index'[k][f] # 0
      OBVIOUS
    <3>1. CASE f = e
      BY <2>1, <2>2, <3>1
    <3>2. CASE f # e
      <4>1. /\ redis[f] = world[f] /\ redis[f] # NoRecord
            /\ \A k \in Keys(world[f]) : index[k][f] # 0
        BY <2>1, <3>2 DEF StoresAgree
      <4>2. Keys(world[f]) \subseteq IndexKeys
        BY <4>1 DEF StoreTypes
      <4> QED
        BY <2>1, <3>2, <4>1, <4>2
    <3> QED
      BY <3>1, <3>2
  <2>4. \A k \in IndexKeys, f \in EventIds : index'[k][f] # 0 =>
          world[f] # NoRecord /\ k \in Keys(world[f]) /\ index'[k][f] = world[f].timestamp
    BY <2>1, <2>2 DEF StoresAgree
  <2> QED
    BY <2>1, <2>3, <2>4 DEF StoresAgree
<1>3. ASSUME NEW e \in EventIds, ExpireRecord(e)
      PROVE  StoresAgree'
  BY <1>3 DEF StoresAgree, StoreTypes, ExpireRecord
<1>4. ASSUME UNCHANGED <<world, redis, index>>
      PROVE  StoresAgree'
  BY <1>4 DEF StoresAgree
<1> QED
  BY <1>1, <1>2, <1>3, <1>4
     DEF Stored, StoreStep, Alter, Replace, Upload, Collect, store_vars

\* What the logger caches is the ledger's, and so is what is put in its place.
LEMMA StoredHeld ==
    ASSUME StoreTypes, StoresAgree, HeldIsLogged, Grown, Stored
    PROVE  HeldIsLogged'
<1>1. ASSUME NEW r, r \in Records, r = world[r.event_id]
      PROVE  r # NoRecord /\ r = world'[r.event_id]
  BY <1>1 DEF Grown
<1>2. ASSUME NEW e \in EventIds, redis[e] # NoRecord
      PROVE  held[e] # NoRecord /\ held[e] = world'[held[e].event_id]
  <2>1. held[e] \in Records /\ held[e] = world[held[e].event_id]
    BY <1>2 DEF HeldIsLogged, StoreTypes
  <2> QED
    BY <1>1, <2>1
<1>3. CASE StoreStep
  <2> SUFFICES ASSUME NEW e \in EventIds, redis'[e] # NoRecord
               PROVE  held'[e] # NoRecord /\ held'[e] = world'[held'[e].event_id]
    BY DEF HeldIsLogged
  <2>1. held'[e] = IF redis'[e] = redis[e] THEN held[e] ELSE redis'[e]
    BY <1>3 DEF StoreStep
  <2>2. CASE redis'[e] = redis[e]
    BY <1>2, <2>1, <2>2
  <2>3. CASE redis'[e] # redis[e]
    <3>1. \E f \in EventIds : CacheRecord(f) \/ ExpireRecord(f)
      BY <1>3, <2>3 DEF StoreStep, Upload, Collect, Log
    <3>2. PICK f \in EventIds : CacheRecord(f)
      BY <2>3, <3>1 DEF ExpireRecord, StoreTypes
    <3>3. e = f /\ redis'[e] = world[e] /\ world[e] \in Records
      BY <2>3, <3>2, CacheEffect
    <3>4. world[e].event_id = e
      BY <3>3 DEF StoresAgree
    <3> QED
      BY <1>1, <2>1, <2>3, <3>3, <3>4
  <2> QED
    BY <2>2, <2>3
<1>4. ASSUME NEW e \in Alterable, NEW part \in Parts, Alter(e, part)
      PROVE  HeldIsLogged'
  BY <1>2, <1>4 DEF HeldIsLogged, Alter, store_vars
<1>5. ASSUME NEW e \in Alterable, NEW f \in EventIds, Replace(e, f)
      PROVE  HeldIsLogged'
  <2>1. /\ held' = [held EXCEPT ![e] = world[f]] /\ redis' = redis /\ world' = world
        /\ world[f] # NoRecord
    BY <1>5 DEF Replace, store_vars
  <2>2. world[f] = world[world[f].event_id]
    BY <2>1 DEF StoresAgree
  <2>3. ASSUME NEW d \in EventIds, redis'[d] # NoRecord
        PROVE  held'[d] # NoRecord /\ held'[d] = world'[held'[d].event_id]
    BY <1>2, <2>1, <2>2, <2>3 DEF StoreTypes
  <2> QED
    BY <2>3 DEF HeldIsLogged
<1> QED
  BY <1>3, <1>4, <1>5 DEF Stored

\* A step of the store adds at most one entry to an index.
LEMMA StoredFinite ==
    ASSUME StoreTypes, IndexIsFinite, Stored
    PROVE  IndexIsFinite'
<1>1. ASSUME NEW e \in EventIds, CacheRecord(e), NEW k \in IndexKeys
      PROVE  IsFiniteSet(Indexed(k)')
  <2>1. Indexed(k)' \in SUBSET (Indexed(k) \cup {e})
    <3>1. \A f \in EventIds : f # e => index'[k][f] = index[k][f]
      BY <1>1 DEF CacheRecord, StoreTypes
    <3> QED
      BY <3>1 DEF Indexed
  <2>2. IsFiniteSet(Indexed(k) \cup {e})
    BY FS_AddElement DEF IndexIsFinite
  <2> QED
    BY <2>1, <2>2, FS_Subset
<1>2. ASSUME UNCHANGED index
      PROVE  IndexIsFinite'
  BY <1>2 DEF IndexIsFinite, Indexed
<1>3. (\A e \in EventIds : ~CacheRecord(e)) => UNCHANGED index
  BY DEF Stored, StoreStep, Alter, Replace, Upload, Collect, ExpireRecord, Log, store_vars
<1> QED
  BY <1>1, <1>2, <1>3 DEF IndexIsFinite

\* A pinned payload is not collected, and one that a record names is not stored again.
LEMMA StoredPayloads ==
    ASSUME StoreTypes, PayloadsStay, Stored
    PROVE  PayloadsStay'
<1> SUFFICES ASSUME PinEnabled, NEW e \in EventIds, world'[e] # NoRecord
             PROVE  ipfs'[world'[e].payload.ipfs_cid] = "pinned"
  BY DEF PayloadsStay
<1>1. ASSUME world[e] # NoRecord
      PROVE  /\ ipfs[world[e].payload.ipfs_cid] = "pinned"
             /\ world[e] \in Records /\ world[e].payload.ipfs_cid \in Cids
  BY <1>1 DEF PayloadsStay, StoreTypes
<1>2. ASSUME NEW c \in Cids, Upload(c) \/ Collect(c)
      PROVE  ipfs'[world'[e].payload.ipfs_cid] = "pinned"
  <2>1. world' = world
    BY <1>2 DEF Upload, Collect
  <2>2. world[e].payload.ipfs_cid # c
    BY <1>1, <1>2, <2>1 DEF Upload, Collect
  <2> QED
    BY <1>1, <1>2, <2>1, <2>2 DEF Upload, Collect, StoreTypes
<1>3. ASSUME NEW r \in Records, Log(r)
      PROVE  ipfs'[world'[e].payload.ipfs_cid] = "pinned"
  BY <1>1, <1>3, LogEffect DEF Log
<1>4. ASSUME UNCHANGED <<world, ipfs>>
      PROVE  ipfs'[world'[e].payload.ipfs_cid] = "pinned"
  BY <1>1, <1>4
<1> QED
  BY <1>2, <1>3, <1>4
     DEF Stored, StoreStep, Alter, Replace, CacheRecord, ExpireRecord, store_vars

\* What was legible when the request began and has not expired stays legible.
LEMMA StoredPresent ==
    ASSUME StoreTypes, PresentIsLegible, Stored
    PROVE  PresentIsLegible'
<1>1. CASE StoreStep
  BY <1>1, AlteredEffect DEF PresentIsLegible
<1>2. ASSUME NEW e \in Alterable, NEW part \in Parts, Alter(e, part)
      PROVE  PresentIsLegible'
  <2>1. /\ redis' = redis
        /\ \A f \in EventIds : altered'[f] = IF f = e THEN altered[e] \cup {part} ELSE altered[f]
        /\ present' \subseteq present /\ (part = "unreadable" => e \notin present')
        /\ present \subseteq EventIds
    BY <1>2 DEF Alter, StoreTypes, store_vars
  <2> QED
    BY <2>1 DEF PresentIsLegible
<1>3. ASSUME NEW e \in Alterable, NEW f \in EventIds, Replace(e, f)
      PROVE  PresentIsLegible'
  BY <1>3 DEF PresentIsLegible, Replace, store_vars
<1> QED
  BY <1>1, <1>2, <1>3 DEF Stored

\* The stores keep their state, and no request is touched.
LEMMA StoredStep ==
    ASSUME StoreTypes, StoreInv, Stored
    PROVE  StoreTypes' /\ StoreInv' /\ Grown /\ UNCHANGED req
BY StoredTypes, StoredAgree, StoredHeld, StoredFinite, StoredPayloads, StoredPresent DEF StoreInv

-----------------------------------------------------------------------------
(* What was read stays true while the stores go on.                        *)

\* The request's fields by their types.
LEMMA RequestFields ==
    ASSUME RequestType
    PROVE  /\ req.todo \in Seq(IndexKeys) /\ Len(req.todo) \in Nat
           /\ req.ids \in Seq(EventIds) /\ Len(req.ids) \in Nat
           /\ req.found \in Seq(Copies) /\ Len(req.found) \in Nat
           /\ \A i \in 1 .. Len(req.found) :
                /\ req.found[i] \in Copies /\ req.found[i].rec \in Records
                /\ req.found[i].rec.event_id \in EventIds
                /\ req.found[i].held \in Records /\ req.found[i].held.event_id \in EventIds
                /\ req.found[i].altered \subseteq Parts
           /\ \A j \in 1 .. Len(req.ids) : req.ids[j] \in EventIds
           /\ \A j \in Rest : j \in 1 .. Len(req.ids)
           /\ \A t \in 1 .. Len(req.todo) : req.todo[t] \in IndexKeys
           /\ req.next \in Nat \ {0} /\ req.limit \in Int
           /\ req.status \in Statuses
<1>1. /\ req.todo \in Seq(IndexKeys) /\ req.ids \in Seq(EventIds)
      /\ req.found \in Seq(Copies) /\ req.next \in Nat \ {0} /\ req.limit \in Int
      /\ req.status \in Statuses
  BY DEF RequestType, Requests
<1>2. \A c \in Copies : c.rec \in Records /\ c.rec.event_id \in EventIds
                        /\ c.held \in Records /\ c.held.event_id \in EventIds
                        /\ c.altered \subseteq Parts
  BY DEF Copies
<1>3. \A i \in 1 .. Len(req.found) : req.found[i] \in Copies
  BY <1>1
<1> QED
  BY <1>1, <1>2, <1>3 DEF Rest

\* A request reads a record in its own indexes.
LEMMA ReadForIsKey ==
    ASSUME NEW r, NEW k \in ReadFor(r)
    PROVE  k \in Keys(r)
BY DEF ReadFor, Keys

\* A present record is on the ledger and in each of its indexes.
LEMMA PresentIsIndexed ==
    ASSUME StoreTypes, StoreInv, NEW e \in present, NEW k \in Keys(world[e])
    PROVE  /\ e \in EventIds /\ world[e] \in Records /\ world[e] # NoRecord
           /\ world[e].event_id = e
           /\ redis[e] = world[e] /\ k \in IndexKeys /\ e \in Indexed(k)
<1>1. e \in EventIds /\ redis[e] # NoRecord
  BY DEF StoreTypes, StoreInv, PresentIsLegible
<1>2. redis[e] = world[e] /\ \A l \in Keys(world[e]) : index[l][e] # 0
  BY <1>1 DEF StoreInv, StoresAgree
<1>3. world[e] \in Records
  BY <1>1, <1>2 DEF StoreTypes
<1>4. world[e].event_id = e
  BY <1>1, <1>2 DEF StoreInv, StoresAgree
<1> QED
  BY <1>1, <1>2, <1>3, <1>4 DEF Indexed

\* An entry that was before another in an index stays before it.
LEMMA BeforeGrows ==
    ASSUME StoreTypes, Grown, IndexIsFinite', NEW k \in IndexKeys, NEW e \in Indexed(k),
           IsFiniteSet(Indexed(k))
    PROVE  Cardinality(Before(k, e)) <= Cardinality(Before(k, e)')
<1>1. Before(k, e) \in SUBSET (Before(k, e)')
  BY DEF Before, Indexed, Grown
<1>2. IsFiniteSet(Before(k, e)')
  <2>1. Before(k, e)' \in SUBSET (Indexed(k)')
    BY DEF Before
  <2> QED
    BY <2>1, FS_Subset DEF IndexIsFinite
<1> QED
  BY <1>1, <1>2, FS_Subset

\* What a request has found, or is still to find, stays so while the stores grow.
LEMMA ReachedStays ==
    ASSUME StoreTypes, StoreInv, RequestType, PresentIsReached, Grown, UNCHANGED req,
           IndexIsFinite'
    PROVE  PresentIsReached'
<1> SUFFICES ASSUME Paged, NEW e \in present', NEW k \in ReadFor(world[e])'
             PROVE  Reached(e, k)'
  BY DEF PresentIsReached, Paged
<1>1. e \in present
  BY DEF Grown
<1>2. world'[e] = world[e]
  <2>1. e \in EventIds /\ world[e] # NoRecord
    BY <1>1 DEF StoreTypes, StoreInv, PresentIsLegible, StoresAgree
  <2> QED
    BY <2>1 DEF Grown
<1>3. k \in ReadFor(world[e])
  BY <1>2 DEF ReadFor
<1>4. Reached(e, k)
  BY <1>1, <1>3 DEF PresentIsReached
<1>5. k \in IndexKeys /\ e \in Indexed(k)
  BY <1>1, <1>3, ReadForIsKey, PresentIsIndexed
<1>6. ASSUME Displaced(k, e)
      PROVE  Displaced(k, e)'
  <2>1. IsFiniteSet(Indexed(k))
    BY <1>5 DEF StoreInv, IndexIsFinite
  <2>2. Cardinality(Before(k, e)) <= Cardinality(Before(k, e)')
    BY <1>5, <2>1, BeforeGrows
  <2>3. Cardinality(Before(k, e)) \in Nat
    BY <1>5, <2>1, BeforeIsFinite DEF Rank
  <2>4. Cardinality(Before(k, e)') \in Nat
    <3>1. Before(k, e)' \in SUBSET (Indexed(k)') /\ IsFiniteSet(Indexed(k)')
      BY <1>5 DEF Before, IndexIsFinite
    <3> QED
      BY <3>1, FS_Subset, FS_CardinalityType
  <2>5. req.limit \in Int
    BY RequestFields
  <2> QED
    BY <1>6, <2>2, <2>3, <2>4, <2>5 DEF Displaced
<1> QED
  BY <1>2, <1>4, <1>6 DEF Reached, Found, Rest

\* The request's invariant stands while the stores grow.
LEMMA GrownRequest ==
    ASSUME StoreTypes, StoreInv, RequestInv, Grown, UNCHANGED req, IndexIsFinite'
    PROVE  RequestInv'
<1> USE DEF RequestInv
<1>1. RequestType' /\ Control' /\ TodoState' /\ FoundOnce'
  BY DEF RequestType, Control, TodoState, FoundOnce, Paged, Rest
<1>2. \A i \in 1 .. Len(req.found) :
        /\ world'[req.found[i].rec.event_id] = world[req.found[i].rec.event_id]
        /\ world'[req.found[i].held.event_id] = world[req.found[i].held.event_id]
  <2> SUFFICES ASSUME NEW i \in 1 .. Len(req.found)
               PROVE  /\ world'[req.found[i].rec.event_id] = world[req.found[i].rec.event_id]
                      /\ world'[req.found[i].held.event_id] = world[req.found[i].held.event_id]
    OBVIOUS
  <2>1. /\ req.found[i].rec \in Records /\ req.found[i].rec.event_id \in EventIds
        /\ req.found[i].held \in Records /\ req.found[i].held.event_id \in EventIds
    BY RequestFields
  <2>2. /\ req.found[i].rec = world[req.found[i].rec.event_id]
        /\ req.found[i].held = world[req.found[i].held.event_id]
    BY DEF FoundIsLedger
  <2>3. /\ world[req.found[i].rec.event_id] # NoRecord
        /\ world[req.found[i].held.event_id] # NoRecord
    BY <2>1, <2>2
  <2> QED
    BY <2>1, <2>3 DEF Grown
<1>3. FoundIsLedger'
  BY <1>2 DEF FoundIsLedger
<1>4. Paged => \A j \in 1 .. Len(req.ids) : world'[req.ids[j]] = world[req.ids[j]]
  BY RequestFields DEF PageState, Grown
<1>5. PageState'
  BY <1>4 DEF PageState, Paged
<1>6. QueryState'
  BY <1>4, RequestFields DEF QueryState, Rest, Paged
<1>7. PresentIsReached'
  BY ReachedStays
<1>8. Verified'
  <2>1. ValidIsGenuine'
    <3>1. req.status = "VALID" => 1 \in 1 .. Len(req.found)
      <4>1. req.status = "VALID" => Len(req.found) = 1
        BY DEF Control
      <4>2. 1 \in 1 .. 1
        OBVIOUS
      <4> QED
        BY <4>1, <4>2
    <3> QED
      BY <1>2, <3>1 DEF Verified, ValidIsGenuine
  <2> QED
    BY <2>1 DEF Verified
<1> QED
  BY <1>1, <1>3, <1>5, <1>6, <1>7, <1>8

-----------------------------------------------------------------------------
(* What the steps of a request change.                                     *)

Unread == UNCHANGED <<store_vars, held, altered, present>>

\* A step that changes no store changes no index either.
LEMMA UnreadIndexes ==
    ASSUME Unread
    PROVE  \A k, e : Indexed(k)' = Indexed(k) /\ Before(k, e)' = Before(k, e)
BY DEF Unread, store_vars, Indexed, Before

\* Nothing but where the request is and how it was answered.
SameAnswer ==
    /\ Unread
    /\ req'.op = req.op /\ req'.todo = req.todo /\ req'.limit = req.limit
    /\ req'.key = req.key /\ req'.ids = req.ids /\ req'.next = req.next
    /\ req'.found = req.found

\* What holds of the answer so far needs only the stores and the answer.
LEMMA SameAnswerKeeps ==
    ASSUME RequestInv, SameAnswer
    PROVE  /\ FoundIsLedger' /\ PageState' /\ TodoState' /\ FoundOnce' /\ QueryState'
           /\ PresentIsReached'
<1> USE DEF RequestInv, SameAnswer, Unread, store_vars
<1>1. FoundIsLedger' /\ PageState' /\ TodoState'
  BY DEF FoundIsLedger, PageState, TodoState, Paged
<1>2. FoundOnce'
  BY DEF FoundOnce, Paged, Rest
<1>3. QueryState'
  BY DEF QueryState, Rest
<1>4. PresentIsReached'
  <2>1. \A e, k : Displaced(k, e)' <=> Displaced(k, e)
    BY UnreadIndexes DEF Displaced
  <2>2. \A e, k : Reached(e, k)' <=> Reached(e, k)
    BY <2>1 DEF Reached, Rest, Found
  <2>3. \A e : ReadFor(world[e])' = ReadFor(world[e])
    BY DEF ReadFor
  <2> QED
    BY <2>2, <2>3 DEF PresentIsReached, Paged
<1> QED
  BY <1>1, <1>2, <1>3, <1>4

\* A request that is not paged has no page.
LEMMA UnpagedKeeps ==
    ASSUME req'.op \notin {"query", "report"}
    PROVE  PageState' /\ TodoState' /\ FoundOnce' /\ QueryState' /\ PresentIsReached'
BY DEF PageState, TodoState, FoundOnce, QueryState, PresentIsReached, Paged

\* And what holds of the stores needs only the stores.
LEMMA UnreadStores ==
    ASSUME StoreTypes, StoreInv, Unread
    PROVE  StoreTypes' /\ StoreInv'
<1> USE DEF Unread, store_vars
<1>1. StoreTypes' /\ StoresAgree' /\ HeldIsLogged'
  BY DEF StoreTypes, StoreInv, StoresAgree, HeldIsLogged
<1>2. IndexIsFinite'
  BY UnreadIndexes DEF StoreInv, IndexIsFinite
<1>3. PayloadsStay' /\ PresentIsLegible'
  BY DEF StoreInv, PayloadsStay, PresentIsLegible
<1> QED
  BY <1>1, <1>2, <1>3 DEF StoreInv

\* GET returns the ledger's record, or nothing that parses.
LEMMA ReadIsLedger ==
    ASSUME StoreTypes, StoreInv, NEW e \in EventIds, GetRecord(e) # <<>>
    PROVE  /\ GetRecord(e) = <<[rec |-> world[e], held |-> held[e], altered |-> altered[e]]>>
           /\ GetRecord(e) \in Seq(Copies) /\ Len(GetRecord(e)) = 1
           /\ GetRecord(e)[1] \in Copies
           /\ GetRecord(e)[1].rec = world[e] /\ GetRecord(e)[1].altered = altered[e]
           /\ GetRecord(e)[1].held = world[GetRecord(e)[1].held.event_id]
           /\ world[e] \in Records /\ world[e] # NoRecord /\ world[e].event_id = e
           /\ "unreadable" \notin altered[e]
<1>1. /\ redis[e] # NoRecord /\ "unreadable" \notin altered[e]
      /\ GetRecord(e) = <<[rec |-> redis[e], held |-> held[e], altered |-> altered[e]]>>
  BY DEF GetRecord
<1>2. /\ redis[e] = world[e] /\ world[e] \in Records /\ altered[e] \in SUBSET Parts
      /\ held[e] \in Records /\ held[e] = world[held[e].event_id]
  BY <1>1 DEF StoreInv, StoresAgree, HeldIsLogged, StoreTypes
<1>3. [rec |-> world[e], held |-> held[e], altered |-> altered[e]] \in Copies
  BY <1>2 DEF Copies
<1>4. world[e].event_id = e
  BY <1>1, <1>2 DEF StoreInv, StoresAgree
<1> QED
  BY <1>1, <1>2, <1>3, <1>4

\* What is present can be read.
LEMMA PresentIsRead ==
    ASSUME StoreInv, NEW e \in present
    PROVE  GetRecord(e) # <<>>
BY DEF StoreInv, PresentIsLegible, GetRecord

\* Where Resume sends a query or a report, and what it leaves alone.
LEMMA ResumeEffect ==
    ASSUME NEW r \in Requests, req' = Resume(r), r.status = "none",
           r.op \in {"query", "report"}
    PROVE  /\ RequestType'
           /\ req'.op = r.op /\ req'.todo = r.todo /\ req'.limit = r.limit
           /\ req'.key = r.key /\ req'.ids = r.ids /\ req'.next = r.next
           /\ req'.found = r.found
           /\ req'.pc = IF r.next <= Len(r.ids) THEN "record"
                        ELSE IF r.todo # <<>> THEN "index" ELSE "done"
           /\ req'.status = IF r.next > Len(r.ids) /\ r.todo = <<>> THEN "ok" ELSE "none"
<1> DEFINE pc == IF r.next <= Len(r.ids) THEN "record"
                 ELSE IF r.todo # <<>> THEN "index" ELSE "done"
           status == IF r.next > Len(r.ids) /\ r.todo = <<>> THEN "ok" ELSE "none"
<1>1. req' = [r EXCEPT !.pc = pc, !.status = status]
  BY DEF Resume, Requests
<1>2. pc \in {"idle", "index", "record", "get", "load", "fetch", "signature", "done"}
      /\ status \in Statuses
  BY DEF Statuses
<1>3. r.next \in Nat /\ Len(r.ids) \in Nat
  BY DEF Requests
<1> HIDE DEF pc, status
<1>4. RequestType'
  BY <1>1, <1>2 DEF RequestType, Requests
<1>5. /\ req'.op = r.op /\ req'.todo = r.todo /\ req'.limit = r.limit
      /\ req'.key = r.key /\ req'.ids = r.ids /\ req'.next = r.next
      /\ req'.found = r.found
      /\ req'.pc = pc /\ req'.status = status
  BY <1>1 DEF Requests
<1> QED
  BY <1>4, <1>5 DEF pc, status

\* A resumed query or report is where it should be.
LEMMA ResumeControl ==
    ASSUME NEW r \in Requests, req' = Resume(r), r.status = "none",
           r.op \in {"query", "report"}, r.next <= Len(r.ids) + 1
    PROVE  Control' /\ Verified'
<1>1. r.next \in Nat /\ Len(r.ids) \in Nat
  BY DEF Requests
<1>2. Control'
  BY <1>1, ResumeEffect DEF Control, Paged
<1>3. req'.status \in {"ok", "none"} /\ req'.pc \notin {"fetch", "signature"}
  BY ResumeEffect
<1>4. Verified'
  BY <1>3, ResumeEffect DEF Verified, ValidIsGenuine
<1> QED
  BY <1>2, <1>4

-----------------------------------------------------------------------------
(* An index is read.                                                       *)

\* The page read is the index's as of now; what had been found is kept.
LEMMA ReadIndexEffect ==
    ASSUME StoreTypes, StoreInv, RequestInv, NEW k \in IndexKeys, ReadIndex(k)
    PROVE  /\ RequestType' /\ Control' /\ Verified' /\ Unread
           /\ Paged /\ req.todo # <<>> /\ k = Head(req.todo) /\ Len(req.ids) < req.next
           /\ req'.op = req.op /\ req'.todo = Tail(req.todo) /\ req'.limit = req.limit
           /\ req'.key = k /\ req'.next = 1 /\ req'.found = req.found
           /\ req'.ids \in Seq(EventIds)
           /\ \A j \in 1 .. Len(req'.ids) :
                req'.ids[j] \in Indexed(k) /\ Rank(k, req'.ids[j]) = j - 1
           /\ req.limit > 0 => Len(req'.ids) <= req.limit
           /\ \A e \in Indexed(k) : Rank(k, e) < req.limit \/ req.limit = 0 =>
                \E j \in 1 .. Len(req'.ids) : req'.ids[j] = e
<1> DEFINE page == ZRevRange(k, req.limit - 1)
           rest == Tail(req.todo)
           r == [req EXCEPT !.todo = rest, !.next = 1, !.key = k, !.ids = page]
<1>1. /\ req.pc = "index" /\ k = Head(req.todo) /\ req' = Resume(r) /\ Unread
  BY DEF ReadIndex, Unread
<1>2. Paged /\ req.todo # <<>> /\ Len(req.ids) < req.next /\ req.status = "none"
  BY <1>1, RequestFields DEF RequestInv, Control
<1>3. req.limit \in Int /\ IsFiniteSet(Indexed(k)) /\ req.limit - 1 \in Int
  BY RequestFields DEF RequestInv, StoreInv, IndexIsFinite
<1>4. /\ page \in Seq(EventIds)
      /\ \A j \in 1 .. Len(page) : page[j] \in Indexed(k) /\ Rank(k, page[j]) = j - 1
      /\ req.limit - 1 >= 0 => Len(page) <= (req.limit - 1) + 1
      /\ \A e \in Indexed(k) :
           req.limit - 1 = -1 \/ (req.limit - 1 >= 0 /\ Rank(k, e) <= req.limit - 1) =>
             \E j \in 1 .. Len(page) : page[j] = e
  <2> DEFINE stop == req.limit - 1
  <2>1. stop \in Int
    BY <1>3
  <2> HIDE DEF stop
  <2>2. /\ ZRevRange(k, stop) \in Seq(EventIds)
        /\ \A j \in 1 .. Len(ZRevRange(k, stop)) :
             ZRevRange(k, stop)[j] \in Indexed(k) /\ Rank(k, ZRevRange(k, stop)[j]) = j - 1
        /\ stop >= 0 => Len(ZRevRange(k, stop)) <= stop + 1
        /\ \A e \in Indexed(k) : stop = -1 \/ (stop >= 0 /\ Rank(k, e) <= stop) =>
             \E j \in 1 .. Len(ZRevRange(k, stop)) : ZRevRange(k, stop)[j] = e
    BY <1>3, <2>1, PageOfIndex
  <2> QED
    BY <2>2 DEF stop
<1>5. req.limit > 0 => Len(page) <= req.limit
  BY <1>3, <1>4
<1>6. \A e \in Indexed(k) : Rank(k, e) < req.limit \/ req.limit = 0 =>
        \E j \in 1 .. Len(page) : page[j] = e
  <2> SUFFICES ASSUME NEW e \in Indexed(k), Rank(k, e) < req.limit \/ req.limit = 0
               PROVE  \E j \in 1 .. Len(page) : page[j] = e
    OBVIOUS
  <2>1. Rank(k, e) \in Nat
    BY <1>3, BeforeIsFinite
  <2>2. req.limit - 1 = -1 \/ (req.limit - 1 >= 0 /\ Rank(k, e) <= req.limit - 1)
    BY <1>3, <2>1
  <2> QED
    BY <1>4, <2>2
<1> HIDE DEF page
<1>7. rest \in Seq(IndexKeys)
  BY <1>2, RequestFields DEF RequestInv
<1> HIDE DEF rest
<1>7a. req \in Requests
  BY DEF RequestInv, RequestType
<1>8. /\ r \in Requests
      /\ r.op = req.op /\ r.todo = rest /\ r.limit = req.limit /\ r.key = k
      /\ r.ids = page /\ r.next = 1 /\ r.found = req.found /\ r.status = "none"
  <2>0. page \in Seq(EventIds) /\ k \in IndexKeys \cup {<<>>} /\ 1 \in Nat \ {0}
    BY <1>4
  <2>1. r \in Requests
    BY <1>7, <1>7a, <2>0 DEF Requests
  <2>2. /\ r.op = req.op /\ r.todo = rest /\ r.limit = req.limit /\ r.key = k
        /\ r.ids = page /\ r.next = 1 /\ r.found = req.found /\ r.status = req.status
    BY <1>7a DEF Requests
  <2> QED
    BY <1>2, <2>1, <2>2
<1> HIDE DEF r
<1>9. r.op \in {"query", "report"} /\ r.next <= Len(r.ids) + 1
  BY <1>2, <1>4, <1>8 DEF Paged
<1>10. RequestType' /\ Control' /\ Verified'
  BY <1>1, <1>8, <1>9, ResumeEffect, ResumeControl
<1>11. /\ req'.op = req.op /\ req'.todo = Tail(req.todo) /\ req'.limit = req.limit
       /\ req'.key = k /\ req'.next = 1 /\ req'.found = req.found /\ req'.ids = page
  BY <1>1, <1>8, <1>9, ResumeEffect DEF rest
<1> QED
  BY <1>1, <1>2, <1>4, <1>5, <1>6, <1>10, <1>11

\* A member of an index is a ledger record of that index, under its timestamp.
LEMMA IndexedIsLogged ==
    ASSUME StoreTypes, StoreInv, NEW k \in IndexKeys, NEW e \in Indexed(k)
    PROVE  /\ e \in EventIds /\ world[e] \in Records /\ world[e] # NoRecord
           /\ k \in Keys(world[e]) /\ index[k][e] = world[e].timestamp
<1>1. e \in EventIds /\ index[k][e] # 0
  BY DEF Indexed
<1>2. world[e] # NoRecord /\ k \in Keys(world[e]) /\ index[k][e] = world[e].timestamp
  BY <1>1 DEF StoreInv, StoresAgree
<1> QED
  BY <1>1, <1>2 DEF StoreTypes

\* A record is in one severity's index.
LEMMA OneSeverityKey ==
    ASSUME NEW r, NEW k \in Keys(r), NEW l \in Keys(r), k[1] = "severity", l[1] = "severity"
    PROVE  k = l
<1>1. \A m \in Keys(r) : m[1] = "severity" => m = <<"severity", r.severity>>
  <2>1. <<"asset", r.cloud_asset_id>>[1] = "asset"
    OBVIOUS
  <2>2. "asset" # "severity"
    OBVIOUS
  <2> QED
    BY <2>1, <2>2 DEF Keys
<1> QED
  BY <1>1

\* The page is of ledger records of the index, and of no index still to be read.
LEMMA ReadIndexPage ==
    ASSUME StoreTypes, StoreInv, RequestInv, NEW k \in IndexKeys, ReadIndex(k)
    PROVE  PageState' /\ TodoState'
<1>1. /\ Unread /\ Paged /\ req.todo # <<>> /\ k = Head(req.todo)
      /\ req'.op = req.op /\ req'.todo = Tail(req.todo) /\ req'.key = k
      /\ req'.ids \in Seq(EventIds)
      /\ \A j \in 1 .. Len(req'.ids) :
           req'.ids[j] \in Indexed(k) /\ Rank(k, req'.ids[j]) = j - 1
  BY ReadIndexEffect
<1>2. req.todo \in Seq(IndexKeys) /\ Len(req.todo) \in Nat \ {0} /\ k = req.todo[1]
  BY <1>1, RequestFields DEF RequestInv
<1>3. /\ Len(req'.todo) = Len(req.todo) - 1
      /\ \A t \in 1 .. Len(req'.todo) :
           t + 1 \in 1 .. Len(req.todo) /\ req'.todo[t] = req.todo[t + 1]
  BY <1>1, <1>2
<1>4. \A j \in 1 .. Len(req'.ids) :
        /\ req'.ids[j] \in EventIds /\ world[req'.ids[j]] \in Records
        /\ world[req'.ids[j]] # NoRecord /\ k \in Keys(world[req'.ids[j]])
        /\ index[k][req'.ids[j]] = world[req'.ids[j]].timestamp
  BY <1>1, IndexedIsLogged
<1>5. \A j \in 1 .. Len(req'.ids), t \in 1 .. Len(req'.todo) :
        req'.todo[t] \notin Keys(world[req'.ids[j]])
  <2> SUFFICES ASSUME NEW j \in 1 .. Len(req'.ids), NEW t \in 1 .. Len(req'.todo)
               PROVE  req'.todo[t] \notin Keys(world[req'.ids[j]])
    OBVIOUS
  <2>1. CASE req.op = "query"
    <3>1. Len(req.todo) = 1
      BY <1>1, <2>1 DEF RequestInv, TodoState
    <3> QED
      BY <1>3, <3>1
  <2>2. CASE req.op = "report"
    <3>1. /\ t + 1 \in 1 .. Len(req.todo) /\ 1 \in 1 .. Len(req.todo) /\ t + 1 # 1
          /\ req'.todo[t] = req.todo[t + 1]
      BY <1>2, <1>3
    <3>2. /\ req.todo[1][1] = "severity" /\ req.todo[t + 1][1] = "severity"
          /\ req.todo[t + 1] # req.todo[1]
      BY <2>2, <3>1 DEF RequestInv, TodoState
    <3>3. k \in Keys(world[req'.ids[j]])
      BY <1>4
    <3> QED
      BY <1>2, <3>1, <3>2, <3>3, OneSeverityKey
  <2> QED
    BY <1>1, <2>1, <2>2 DEF Paged
<1>6. \A i, j \in 1 .. Len(req'.ids) : i < j =>
        req'.ids[i] # req'.ids[j] /\ index[k][req'.ids[i]] >= index[k][req'.ids[j]]
  <2>1. IsFiniteSet(Indexed(k))
    BY DEF StoreInv, IndexIsFinite
  <2> QED
    BY <1>1, <2>1, PageIsSorted
<1>7. PageState'
  <2>1. UNCHANGED world
    BY <1>1 DEF Unread, store_vars
  <2> QED
    BY <1>1, <1>4, <1>5, <1>6, <2>1 DEF PageState
<1>8. TodoState'
  <2>1. req.op = "query" => Len(req'.todo) = 0
    BY <1>1, <1>2, <1>3 DEF RequestInv, TodoState
  <2>2. req.op = "query" => req'.todo = <<>>
    <3>1. req'.todo \in Seq(IndexKeys)
      BY <1>1, <1>2
    <3> QED
      BY <2>1, <3>1
  <2>3. req.op = "report" =>
          /\ \A t \in 1 .. Len(req'.todo) : req'.todo[t][1] = "severity"
          /\ \A s, t \in 1 .. Len(req'.todo) : s # t => req'.todo[s] # req'.todo[t]
    <3>1. \A s, t \in 1 .. Len(req'.todo) : s # t => s + 1 # t + 1
      OBVIOUS
    <3> QED
      BY <1>3, <3>1 DEF RequestInv, TodoState
  <2> QED
    BY <1>1, <2>2, <2>3 DEF TodoState
<1> QED
  BY <1>7, <1>8

\* What was found is not on the new page, and what is present is on it, unless the
\* page is full of newer entries.
LEMMA ReadIndexFound ==
    ASSUME StoreTypes, StoreInv, RequestInv, NEW k \in IndexKeys, ReadIndex(k)
    PROVE  FoundIsLedger' /\ FoundOnce' /\ QueryState'
<1>1. /\ UNCHANGED world /\ Paged /\ req.todo # <<>> /\ k = Head(req.todo)
      /\ req'.op = req.op /\ req'.todo = Tail(req.todo) /\ req'.key = k
      /\ req'.limit = req.limit /\ req'.next = 1 /\ req'.found = req.found
      /\ req'.ids \in Seq(EventIds)
      /\ \A j \in 1 .. Len(req'.ids) : req'.ids[j] \in Indexed(k)
      /\ req.limit > 0 => Len(req'.ids) <= req.limit
  BY ReadIndexEffect DEF Unread, store_vars
<1>2. /\ 1 \in 1 .. Len(req.todo) /\ k = req.todo[1]
      /\ \A t \in 1 .. Len(req'.todo) :
           t + 1 \in 1 .. Len(req.todo) /\ req'.todo[t] = req.todo[t + 1]
  BY <1>1, RequestFields DEF RequestInv
<1>3. FoundIsLedger'
  BY <1>1 DEF RequestInv, FoundIsLedger
<1>4. ASSUME NEW i \in 1 .. Len(req.found), NEW j \in Rest'
      PROVE  req.found[i].rec.event_id # req'.ids[j]
  <2>1. j \in 1 .. Len(req'.ids)
    BY <1>1 DEF Rest
  <2>2. k \in Keys(world[req'.ids[j]])
    BY <1>1, <2>1, IndexedIsLogged
  <2>3. k \notin Keys(req.found[i].rec)
    BY <1>1, <1>2 DEF RequestInv, FoundOnce
  <2>4. req.found[i].rec = world[req.found[i].rec.event_id]
    BY DEF RequestInv, FoundIsLedger
  <2> QED
    BY <2>2, <2>3, <2>4
<1>5. FoundOnce'
  <2>1. \A i, j \in 1 .. Len(req.found) : i # j => req.found[i].rec # req.found[j].rec
    BY <1>1 DEF RequestInv, FoundOnce
  <2>2. \A i \in 1 .. Len(req.found), t \in 1 .. Len(req'.todo) :
          req'.todo[t] \notin Keys(req.found[i].rec)
    BY <1>1, <1>2 DEF RequestInv, FoundOnce
  <2> QED
    BY <1>1, <1>4, <2>1, <2>2 DEF FoundOnce
<1>6. QueryState'
  <2> SUFFICES ASSUME req.op = "query"
               PROVE  QueryState'
    BY <1>1 DEF QueryState
  <2>1. Len(req'.found) = 0
    BY <1>1 DEF RequestInv, TodoState
  <2> QED
    BY <1>1, <2>1 DEF QueryState
<1> QED
  BY <1>3, <1>5, <1>6

\* A new page holds what was to be found in its index, or a page of newer entries.
LEMMA ReadIndexReaches ==
    ASSUME StoreTypes, StoreInv, RequestInv, NEW k \in IndexKeys, ReadIndex(k)
    PROVE  PresentIsReached'
<1>1. /\ Unread /\ Paged /\ req.todo # <<>> /\ k = Head(req.todo)
      /\ Len(req.ids) < req.next
      /\ req'.op = req.op /\ req'.todo = Tail(req.todo) /\ req'.key = k
      /\ req'.limit = req.limit /\ req'.next = 1 /\ req'.found = req.found
      /\ \A e \in Indexed(k) : Rank(k, e) < req.limit \/ req.limit = 0 =>
           \E j \in 1 .. Len(req'.ids) : req'.ids[j] = e
  BY ReadIndexEffect
<1>2. UNCHANGED <<world, present>> /\ \A e, l : Before(l, e)' = Before(l, e)
  BY <1>1, UnreadIndexes DEF Unread, store_vars
<1>3. /\ Len(req.todo) \in Nat /\ k = req.todo[1]
      /\ \A t \in 1 .. Len(req.todo) : t # 1 =>
           t - 1 \in 1 .. Len(req'.todo) /\ req'.todo[t - 1] = req.todo[t]
  BY <1>1, RequestFields DEF RequestInv
<1> SUFFICES ASSUME NEW e \in present, NEW l \in ReadFor(world[e])'
             PROVE  Reached(e, l)'
  BY <1>2 DEF PresentIsReached
<1>4. l \in Keys(world[e])
  BY <1>2 DEF ReadFor, Keys
<1>5. l \in IndexKeys /\ e \in Indexed(l)
  BY <1>4, PresentIsIndexed
<1>6. ASSUME l = k
      PROVE  Reached(e, l)'
  <2>1. CASE Rank(k, e) < req.limit \/ req.limit = 0
    <3>1. PICK j \in 1 .. Len(req'.ids) : req'.ids[j] = e
      BY <1>1, <1>5, <1>6, <2>1
    <3>2. j \in Rest'
      BY <1>1 DEF Rest
    <3> QED
      BY <3>1, <3>2 DEF Reached
  <2>2. CASE ~(Rank(k, e) < req.limit \/ req.limit = 0)
    <3>1. Rank(k, e) \in Nat
      BY BeforeIsFinite DEF StoreInv, IndexIsFinite
    <3>2. Rank(k, e) >= req.limit /\ req.limit # 0
      BY <2>2, <3>1, RequestFields DEF RequestInv
    <3>3. Displaced(l, e)'
      BY <1>1, <1>2, <1>6, <3>2 DEF Displaced, Rank
    <3> QED
      BY <3>3 DEF Reached
  <2> QED
    BY <2>1, <2>2
<1>7. CASE req.op = "query"
  <2>1. l = k
    BY <1>1, <1>7 DEF ReadFor
  <2> QED
    BY <1>6, <2>1
<1>8. CASE req.op = "report"
  <2>1. l \in ReadFor(world[e])
    BY <1>1, <1>2, <1>8 DEF ReadFor
  <2>2. Reached(e, l)
    BY <1>1, <2>1 DEF RequestInv, PresentIsReached
  <2>3. Rest = {}
    BY <1>1, RequestFields DEF RequestInv, Rest
  <2>4. CASE world[e] \in Found
    BY <1>1, <1>2, <2>4 DEF Reached, Found
  <2>5. CASE Displaced(l, e)
    BY <1>1, <1>2, <2>5 DEF Reached, Displaced
  <2>6. ASSUME NEW t \in 1 .. Len(req.todo), req.todo[t] = l
        PROVE  Reached(e, l)'
    <3>1. CASE t = 1
      BY <1>3, <1>6, <2>6, <3>1
    <3>2. CASE t # 1
      BY <1>3, <2>6, <3>2 DEF Reached
    <3> QED
      BY <3>1, <3>2
  <2> QED
    BY <2>2, <2>3, <2>4, <2>5, <2>6 DEF Reached
<1> QED
  BY <1>1, <1>7, <1>8 DEF Paged

\* Reading the next index keeps the whole invariant.
LEMMA ReadIndexStep ==
    ASSUME StoreTypes, StoreInv, RequestInv, NEW k \in IndexKeys, ReadIndex(k)
    PROVE  StoreTypes' /\ StoreInv' /\ RequestInv'
<1>1. RequestType' /\ Control' /\ Verified' /\ Unread
  BY ReadIndexEffect
<1>2. StoreTypes' /\ StoreInv'
  BY <1>1, UnreadStores
<1> QED
  BY <1>1, <1>2, ReadIndexPage, ReadIndexFound, ReadIndexReaches DEF RequestInv

-----------------------------------------------------------------------------
(* A record of the page is read.                                           *)

\* One element appended to a sequence.
LEMMA AppendedOne ==
    ASSUME NEW S, NEW s \in Seq(S), NEW t \in Seq(S), Len(t) = 1
    PROVE  /\ s \o t \in Seq(S) /\ Len(s \o t) = Len(s) + 1
           /\ \A i \in 1 .. Len(s) : (s \o t)[i] = s[i]
           /\ (s \o t)[Len(s) + 1] = t[1]
<1> DEFINE u == s \o t
<1>1. Len(s) \in Nat /\ Len(t) \in Nat
  OBVIOUS
<1>2. /\ u \in Seq(S)
      /\ Len(u) = Len(s) + Len(t)
      /\ \A i \in 1 .. Len(s) + Len(t) :
           u[i] = IF i <= Len(s) THEN s[i] ELSE t[i - Len(s)]
  BY ConcatProperties, Zenon
<1> HIDE DEF u
<1>3. /\ \A i \in 1 .. Len(s) : u[i] = s[i]
      /\ u[Len(s) + 1] = t[1]
  BY <1>1, <1>2
<1> QED
  BY <1>1, <1>2, <1>3 DEF u

\* The record is the next of the page, and it is appended when it can be read.
LEMMA ReadRecordEffect ==
    ASSUME StoreTypes, StoreInv, RequestInv, ReadRecord
    PROVE  /\ RequestType' /\ Control' /\ Verified' /\ Unread
           /\ Paged /\ req.next \in 1 .. Len(req.ids) /\ req.next \in Rest
           /\ req'.op = req.op /\ req'.todo = req.todo /\ req'.limit = req.limit
           /\ req'.key = req.key /\ req'.ids = req.ids /\ req'.next = req.next + 1
           /\ GetRecord(req.ids[req.next]) = <<>> => req'.found = req.found
           /\ GetRecord(req.ids[req.next]) # <<>> =>
                /\ Len(req'.found) = Len(req.found) + 1
                /\ \A i \in 1 .. Len(req.found) : req'.found[i] = req.found[i]
                /\ req'.found[Len(req.found) + 1] = GetRecord(req.ids[req.next])[1]
<1> DEFINE e == req.ids[req.next]
           copy == GetRecord(e)
           found == req.found \o copy
           r == [req EXCEPT !.next = @ + 1, !.found = found]
<1>1. req.pc = "record" /\ req' = Resume(r) /\ Unread
  BY DEF ReadRecord, Unread
<1>2. /\ Paged /\ req.next <= Len(req.ids) /\ req.status = "none"
      /\ req.next \in Nat \ {0} /\ Len(req.ids) \in Nat
      /\ req.found \in Seq(Copies) /\ Len(req.found) \in Nat
  BY <1>1, RequestFields DEF RequestInv, Control
<1>3. req.next \in 1 .. Len(req.ids) /\ req.next \in Rest /\ e \in EventIds
  BY <1>2, RequestFields DEF RequestInv, Rest
<1>4. copy # <<>> => copy \in Seq(Copies) /\ Len(copy) = 1
  BY <1>3, ReadIsLedger
<1> HIDE DEF copy, e
<1>5. /\ found \in Seq(Copies)
      /\ copy = <<>> => found = req.found
      /\ copy # <<>> =>
           /\ Len(found) = Len(req.found) + 1
           /\ \A i \in 1 .. Len(req.found) : found[i] = req.found[i]
           /\ found[Len(req.found) + 1] = copy[1]
  <2>1. CASE copy = <<>>
    BY <1>2, <2>1
  <2>2. CASE copy # <<>>
    BY <1>2, <1>4, <2>2, AppendedOne
  <2> QED
    BY <2>1, <2>2
<1> HIDE DEF found
<1>6. req \in Requests
  BY DEF RequestInv, RequestType
<1>7. r \in Requests
  <2>1. req.next + 1 \in Nat \ {0}
    BY <1>2
  <2> QED
    BY <1>5, <1>6, <2>1 DEF Requests
<1>8. /\ r.op = req.op /\ r.todo = req.todo /\ r.limit = req.limit /\ r.key = req.key
      /\ r.ids = req.ids /\ r.next = req.next + 1 /\ r.found = found
      /\ r.status = req.status
  BY <1>6 DEF Requests
<1> HIDE DEF r
<1>9. r.status = "none" /\ r.op \in {"query", "report"} /\ r.next <= Len(r.ids) + 1
  BY <1>2, <1>8 DEF Paged
<1>10. RequestType' /\ Control' /\ Verified'
  BY <1>1, <1>7, <1>9, ResumeEffect, ResumeControl
<1>11. /\ req'.op = req.op /\ req'.todo = req.todo /\ req'.limit = req.limit
       /\ req'.key = req.key /\ req'.ids = req.ids /\ req'.next = req.next + 1
       /\ req'.found = found
  BY <1>1, <1>7, <1>8, <1>9, ResumeEffect
<1> QED
  BY <1>1, <1>2, <1>3, <1>5, <1>10, <1>11 DEF copy, e

\* What is found after the step was found before, or is the record read.
LEMMA ReadRecordFinds ==
    ASSUME StoreTypes, StoreInv, RequestInv, ReadRecord
    PROVE  /\ Len(req'.found) \in Nat
           /\ Len(req'.found) <= Len(req.found) + 1
           /\ \A i \in 1 .. Len(req'.found) :
                \/ i \in 1 .. Len(req.found) /\ req'.found[i] = req.found[i]
                \/ /\ i = Len(req.found) + 1
                   /\ req'.found[i].rec = world[req.ids[req.next]]
                   /\ req'.found[i].held = world[req'.found[i].held.event_id]
                   /\ "unreadable" \notin req'.found[i].altered
                   /\ world[req.ids[req.next]].event_id = req.ids[req.next]
<1> DEFINE e == req.ids[req.next]
<1>1. /\ req.next \in 1 .. Len(req.ids) /\ Len(req.found) \in Nat /\ e \in EventIds
  BY ReadRecordEffect, RequestFields DEF RequestInv
<1>2. CASE GetRecord(e) = <<>>
  BY <1>1, <1>2, ReadRecordEffect
<1>3. CASE GetRecord(e) # <<>>
  <2>1. /\ GetRecord(e)[1].rec = world[e] /\ "unreadable" \notin GetRecord(e)[1].altered
        /\ world[e].event_id = e
        /\ GetRecord(e)[1].held = world[GetRecord(e)[1].held.event_id]
    BY <1>1, <1>3, ReadIsLedger
  <2>2. /\ Len(req'.found) = Len(req.found) + 1
        /\ \A i \in 1 .. Len(req.found) : req'.found[i] = req.found[i]
        /\ req'.found[Len(req.found) + 1] = GetRecord(e)[1]
    BY <1>3, ReadRecordEffect
  <2>3. ASSUME NEW i \in 1 .. Len(req'.found), i \notin 1 .. Len(req.found)
        PROVE  i = Len(req.found) + 1
    BY <1>1, <2>2, <2>3
  <2>4. Len(req'.found) \in Nat /\ Len(req'.found) <= Len(req.found) + 1
    BY <1>1, <2>2
  <2>5. ASSUME NEW i \in 1 .. Len(req'.found)
        PROVE  \/ i \in 1 .. Len(req.found) /\ req'.found[i] = req.found[i]
               \/ /\ i = Len(req.found) + 1
                  /\ req'.found[i].rec = world[e]
                  /\ req'.found[i].held = world[req'.found[i].held.event_id]
                  /\ "unreadable" \notin req'.found[i].altered
                  /\ world[e].event_id = e
    <3>1. CASE i \in 1 .. Len(req.found)
      BY <2>2, <3>1
    <3>2. CASE i \notin 1 .. Len(req.found)
      <4>1. i = Len(req.found) + 1
        BY <2>3, <3>2
      <4>2. req'.found[i] = GetRecord(e)[1]
        BY <2>2, <4>1
      <4> QED
        BY <2>1, <4>1, <4>2
    <3> QED
      BY <3>1, <3>2
  <2> QED
    BY <2>4, <2>5
<1> QED
  BY <1>2, <1>3

\* Reading a record adds what Redis and so the ledger holds, and leaves the page.
LEMMA ReadRecordPage ==
    ASSUME StoreTypes, StoreInv, RequestInv, ReadRecord
    PROVE  FoundIsLedger' /\ PageState' /\ TodoState'
<1>1. /\ UNCHANGED world /\ Paged /\ req.next \in 1 .. Len(req.ids)
      /\ req'.op = req.op /\ req'.todo = req.todo /\ req'.key = req.key
      /\ req'.ids = req.ids
  BY ReadRecordEffect DEF Unread, store_vars
<1>2. FoundIsLedger'
  BY <1>1, ReadRecordFinds DEF RequestInv, FoundIsLedger
<1>3. PageState'
  BY <1>1 DEF RequestInv, PageState, Paged
<1>4. ~(req.op = "query" /\ req.todo # <<>>)
  <2>1. Len(req.ids) # 0
    BY <1>1
  <2> QED
    BY <2>1 DEF RequestInv, TodoState
<1>5. TodoState'
  BY <1>1, <1>4 DEF RequestInv, TodoState
<1> QED
  BY <1>2, <1>3, <1>5

\* The record that is read was not found before, and comes next in the order.
LEMMA ReadRecordFound ==
    ASSUME StoreTypes, StoreInv, RequestInv, ReadRecord
    PROVE  FoundOnce' /\ QueryState'
<1> DEFINE e == req.ids[req.next]
           n == Len(req.found)
<1>1. /\ UNCHANGED world /\ Paged /\ req.next \in 1 .. Len(req.ids) /\ req.next \in Rest
      /\ req'.op = req.op /\ req'.todo = req.todo /\ req'.key = req.key
      /\ req'.ids = req.ids /\ req'.next = req.next + 1 /\ req'.limit = req.limit
      /\ Len(req.ids) \in Nat /\ n \in Nat /\ req.next \in Nat
  BY ReadRecordEffect, RequestFields DEF Unread, store_vars, RequestInv
<1>2. \A j \in Rest' : j \in Rest /\ j \in 1 .. Len(req.ids) /\ req.next < j
  BY <1>1 DEF Rest
<1>3. \A i \in 1 .. Len(req'.found) :
        \/ i \in 1 .. n /\ req'.found[i] = req.found[i]
        \/ i = n + 1 /\ req'.found[i].rec = world[e] /\ world[e].event_id = e
  BY ReadRecordFinds
<1>4. \A i \in 1 .. n : /\ req.found[i].rec.event_id # e
                        /\ \A j \in Rest : req.found[i].rec.event_id # req.ids[j]
                        /\ \A t \in 1 .. Len(req.todo) :
                             req.todo[t] \notin Keys(req.found[i].rec)
  BY <1>1 DEF RequestInv, FoundOnce
<1>5. /\ \A j \in Rest' : /\ e # req.ids[j]
                          /\ world[e].timestamp >= world[req.ids[j]].timestamp
      /\ req.key \in Keys(world[e])
      /\ \A t \in 1 .. Len(req.todo) : req.todo[t] \notin Keys(world[e])
  BY <1>1, <1>2 DEF RequestInv, PageState
<1> HIDE DEF e, n
<1>6. FoundOnce'
  <2>1. \A i, j \in 1 .. Len(req'.found) : i # j => req'.found[i].rec # req'.found[j].rec
    <3>1. \A i, j \in 1 .. n : i # j => req.found[i].rec # req.found[j].rec
      BY <1>1 DEF RequestInv, FoundOnce, n
    <3> QED
      BY <1>3, <1>4, <3>1
  <2>2. \A i \in 1 .. Len(req'.found) :
          /\ \A j \in Rest' : req'.found[i].rec.event_id # req'.ids[j]
          /\ \A t \in 1 .. Len(req'.todo) : req'.todo[t] \notin Keys(req'.found[i].rec)
    BY <1>1, <1>2, <1>3, <1>4, <1>5
  <2> QED
    BY <2>1, <2>2 DEF FoundOnce
<1>7. QueryState'
  <2> SUFFICES ASSUME req.op = "query"
               PROVE  QueryState'
    BY <1>1 DEF QueryState
  <2>1. /\ \A i \in 1 .. n : req.key \in Keys(req.found[i].rec)
        /\ \A i, j \in 1 .. n : i < j => req.found[i].rec.timestamp >= req.found[j].rec.timestamp
        /\ \A i \in 1 .. n, j \in Rest :
             req.found[i].rec.timestamp >= world[req.ids[j]].timestamp
        /\ n < req.next
        /\ req.limit > 0 => Len(req.ids) <= req.limit
    BY DEF RequestInv, QueryState, n
  <2>2. \A i \in 1 .. Len(req'.found) : req'.key \in Keys(req'.found[i].rec)
    BY <1>1, <1>3, <1>5, <2>1
  <2>3. \A i, j \in 1 .. Len(req'.found) :
          i < j => req'.found[i].rec.timestamp >= req'.found[j].rec.timestamp
    <3>1. \A i \in 1 .. n : req.found[i].rec.timestamp >= world[e].timestamp
      BY <1>1, <2>1 DEF e
    <3> SUFFICES ASSUME NEW i \in 1 .. Len(req'.found), NEW j \in 1 .. Len(req'.found), i < j
                 PROVE  req'.found[i].rec.timestamp >= req'.found[j].rec.timestamp
      OBVIOUS
    <3>2. i \in 1 .. n /\ req'.found[i] = req.found[i]
      <4>1. j <= n + 1
        BY <1>1, <1>3
      <4>2. i # n + 1
        BY <1>1, <4>1
      <4> QED
        BY <1>3, <4>2
    <3>3. CASE j \in 1 .. n /\ req'.found[j] = req.found[j]
      BY <2>1, <3>2, <3>3
    <3>4. CASE req'.found[j].rec = world[e]
      BY <3>1, <3>2, <3>4
    <3> QED
      BY <1>3, <3>3, <3>4
  <2>4. \A i \in 1 .. Len(req'.found), j \in Rest' :
          req'.found[i].rec.timestamp >= world'[req'.ids[j]].timestamp
    BY <1>1, <1>2, <1>3, <1>5, <2>1
  <2>5. Len(req'.found) < req'.next
    BY <1>1, <2>1, ReadRecordFinds DEF n
  <2> QED
    BY <1>1, <2>1, <2>2, <2>3, <2>4, <2>5 DEF QueryState
<1> QED
  BY <1>6, <1>7

\* A record that was present is found when its turn comes.
LEMMA ReadRecordReaches ==
    ASSUME StoreTypes, StoreInv, RequestInv, ReadRecord
    PROVE  PresentIsReached'
<1> DEFINE f == req.ids[req.next]
<1>1. /\ Unread /\ Paged /\ req.next \in 1 .. Len(req.ids)
      /\ req'.op = req.op /\ req'.todo = req.todo /\ req'.key = req.key
      /\ req'.ids = req.ids /\ req'.next = req.next + 1 /\ req'.limit = req.limit
      /\ Len(req.ids) \in Nat /\ Len(req.found) \in Nat /\ req.next \in Nat
  BY ReadRecordEffect, RequestFields DEF RequestInv
<1>2. UNCHANGED <<world, present>> /\ \A e, k : Before(k, e)' = Before(k, e)
  BY <1>1, UnreadIndexes DEF Unread, store_vars
<1>3. Found \subseteq Found'
  <2>1. CASE GetRecord(f) = <<>>
    BY <2>1, ReadRecordEffect DEF Found
  <2>2. CASE GetRecord(f) # <<>>
    <3>1. /\ Len(req'.found) = Len(req.found) + 1
          /\ \A i \in 1 .. Len(req.found) : req'.found[i] = req.found[i]
      BY <2>2, ReadRecordEffect
    <3>2. \A i \in 1 .. Len(req.found) : i \in 1 .. Len(req'.found)
      BY <1>1, <3>1
    <3> QED
      BY <3>1, <3>2 DEF Found
  <2> QED
    BY <2>1, <2>2
<1>4. f \in present => world[f] \in Found'
  <2> SUFFICES ASSUME f \in present
               PROVE  world[f] \in Found'
    OBVIOUS
  <2>1. GetRecord(f) # <<>>
    BY PresentIsRead
  <2>2. f \in EventIds
    BY DEF StoreTypes
  <2>3. GetRecord(f)[1].rec = world[f]
    BY <2>1, <2>2, ReadIsLedger
  <2>4. /\ Len(req'.found) = Len(req.found) + 1
        /\ req'.found[Len(req.found) + 1] = GetRecord(f)[1]
    BY <2>1, ReadRecordEffect
  <2>5. Len(req.found) + 1 \in 1 .. Len(req'.found)
    BY <1>1, <2>4
  <2> QED
    BY <2>3, <2>4, <2>5 DEF Found
<1>5. \A j \in Rest : j = req.next \/ j \in Rest'
  BY <1>1 DEF Rest
<1> SUFFICES ASSUME NEW e \in present, NEW k \in ReadFor(world[e])'
             PROVE  Reached(e, k)'
  BY <1>2 DEF PresentIsReached
<1>6. k \in ReadFor(world[e])
  BY <1>1, <1>2 DEF ReadFor
<1>7. Reached(e, k)
  BY <1>1, <1>6 DEF RequestInv, PresentIsReached
<1>8. CASE world[e] \in Found
  BY <1>2, <1>3, <1>8 DEF Reached
<1>9. ASSUME NEW j \in Rest, req.ids[j] = e
      PROVE  Reached(e, k)'
  BY <1>1, <1>2, <1>4, <1>5, <1>9 DEF Reached
<1>10. CASE \E t \in 1 .. Len(req.todo) : req.todo[t] = k
  BY <1>1, <1>10 DEF Reached
<1>11. CASE Displaced(k, e)
  BY <1>1, <1>2, <1>11 DEF Reached, Displaced
<1> QED
  BY <1>7, <1>8, <1>9, <1>10, <1>11 DEF Reached

\* Reading a record keeps the whole invariant.
LEMMA ReadRecordStep ==
    ASSUME StoreTypes, StoreInv, RequestInv, ReadRecord
    PROVE  StoreTypes' /\ StoreInv' /\ RequestInv'
<1>1. RequestType' /\ Control' /\ Verified' /\ Unread
  BY ReadRecordEffect
<1>2. StoreTypes' /\ StoreInv'
  BY <1>1, UnreadStores
<1> QED
  BY <1>1, <1>2, ReadRecordPage, ReadRecordFound, ReadRecordReaches DEF RequestInv

-----------------------------------------------------------------------------
(* A request ends, or goes on to its next check.                           *)

\* A step that only changes where the request is, and its status.
LEMMA MoveEffect ==
    ASSUME RequestType, Unread, NEW status \in Statuses,
           NEW pc \in {"idle", "index", "record", "get", "load", "fetch", "signature", "done"},
           req' = [req EXCEPT !.pc = pc, !.status = status]
    PROVE  RequestType' /\ SameAnswer /\ req'.pc = pc /\ req'.status = status
<1>1. req \in Requests
  BY DEF RequestType
<1>2. RequestType'
  BY <1>1 DEF RequestType, Requests
<1>3. /\ req'.op = req.op /\ req'.todo = req.todo /\ req'.limit = req.limit
      /\ req'.key = req.key /\ req'.ids = req.ids /\ req'.next = req.next
      /\ req'.found = req.found /\ req'.pc = pc /\ req'.status = status
  BY <1>1 DEF Requests
<1> QED
  BY <1>2, <1>3 DEF SameAnswer

\* A request that is answered keeps what it has found.
LEMMA AnswerEffect ==
    ASSUME RequestType, Unread, NEW status \in Statuses, Answer(status)
    PROVE  RequestType' /\ SameAnswer /\ req'.pc = "done" /\ req'.status = status
BY MoveEffect DEF Answer

\* Redis may be unreachable at any read: the answer is an error.
LEMMA UnreachableStep ==
    ASSUME StoreTypes, StoreInv, RequestInv, Unreachable
    PROVE  StoreTypes' /\ StoreInv' /\ RequestInv'
<1>1. Unread /\ Answer("error") /\ req.pc \in {"index", "record", "get", "load"}
  BY DEF Unreachable, Unread
<1>2. RequestType' /\ SameAnswer /\ req'.pc = "done" /\ req'.status = "error"
  BY <1>1, AnswerEffect DEF RequestInv, Statuses
<1>3. Control'
  BY <1>1, <1>2 DEF RequestInv, Control, SameAnswer, Paged
<1>4. Verified'
  BY <1>2 DEF Verified, ValidIsGenuine
<1> QED
  BY <1>1, <1>2, <1>3, <1>4, UnreadStores, SameAnswerKeeps DEF RequestInv

\* A payload that cannot be fetched ends a verification.
LEMMA FetchFailsStep ==
    ASSUME StoreTypes, StoreInv, RequestInv, FetchFails
    PROVE  StoreTypes' /\ StoreInv' /\ RequestInv'
<1>1. Unread /\ Answer("CID_NOT_FOUND") /\ req.pc = "fetch"
  BY DEF FetchFails, Unread
<1>2. RequestType' /\ SameAnswer /\ req'.pc = "done" /\ req'.status = "CID_NOT_FOUND"
  BY <1>1, AnswerEffect DEF RequestInv, Statuses
<1>3. Control'
  BY <1>1, <1>2 DEF RequestInv, Control, SameAnswer, Paged
<1>4. Verified'
  BY <1>2 DEF Verified, ValidIsGenuine
<1> QED
  BY <1>1, <1>2, <1>3, <1>4, UnreadStores, SameAnswerKeeps DEF RequestInv

\* A payload that is another's is refused only if the CID or the hash was altered.
LEMMA FetchPayloadStep ==
    ASSUME StoreTypes, StoreInv, RequestInv, FetchPayload
    PROVE  StoreTypes' /\ StoreInv' /\ RequestInv'
<1> DEFINE parts == req.found[1].altered
<1>1. Unread /\ req.pc = "fetch"
  BY DEF FetchPayload, Unread
<1>2. req.status = "none" /\ req.op = "verify" /\ Len(req.found) = 1 /\ req \in Requests
  BY <1>1 DEF RequestInv, Control, RequestType
<1>3. "missing" \notin parts /\ HashMatches(parts)
  BY <1>1 DEF RequestInv, Verified
<1>4. CASE ("ipfs_cid" \in parts) = ("sha256" \in parts)
  <2>1. req' = [req EXCEPT !.pc = "signature"]
    BY <1>4 DEF FetchPayload
  <2>2. req' = [req EXCEPT !.pc = "signature", !.status = "none"]
    BY <1>2, <2>1 DEF Requests
  <2>3. RequestType' /\ SameAnswer /\ req'.pc = "signature" /\ req'.status = "none"
    BY <1>1, <2>2, MoveEffect DEF RequestInv, Statuses
  <2>4. Control'
    BY <1>1, <2>3 DEF RequestInv, Control, SameAnswer, Paged
  <2>5. Verified'
    BY <1>3, <1>4, <2>3 DEF Verified, ValidIsGenuine, SameAnswer
  <2> QED
    BY <1>1, <2>3, <2>4, <2>5, UnreadStores, SameAnswerKeeps DEF RequestInv
<1>5. CASE ("ipfs_cid" \in parts) # ("sha256" \in parts)
  <2>1. Answer("IPFS_HASH_MISMATCH")
    BY <1>5 DEF FetchPayload
  <2>2. /\ RequestType' /\ SameAnswer /\ req'.pc = "done"
        /\ req'.status = "IPFS_HASH_MISMATCH"
    BY <1>1, <2>1, AnswerEffect DEF RequestInv, Statuses
  <2>3. Control'
    BY <1>1, <2>2 DEF RequestInv, Control, SameAnswer, Paged
  <2>4. ~(parts \subseteq {"unsigned"})
    BY <1>5
  <2>5. Verified'
    BY <2>2, <2>4 DEF Verified, ValidIsGenuine, SameAnswer
  <2> QED
    BY <1>1, <2>2, <2>3, <2>5, UnreadStores, SameAnswerKeeps DEF RequestInv
<1> QED
  BY <1>4, <1>5

\* All but the unsigned part is checked by the time a record is VALID: a copy that
\* parses, with its hash its event's, its CID its hash's, and a signature of its event.
LEMMA CheckedIsUnaltered ==
    ASSUME NEW parts \in SUBSET Parts, "unreadable" \notin parts, "missing" \notin parts,
           HashMatches(parts), "ipfs_cid" \in parts <=> "sha256" \in parts,
           {"content", "agent_signature"} \cap parts = {}
    PROVE  parts \subseteq {"unsigned"}
BY DEF Parts, HashMatches

\* The last check of a verification, with either outcome.
LEMMA VerifySignatureStep ==
    ASSUME StoreTypes, StoreInv, RequestInv, VerifySignature
    PROVE  StoreTypes' /\ StoreInv' /\ RequestInv'
<1> DEFINE copy == req.found[1]
<1>1. Unread /\ req.pc = "signature"
  BY DEF VerifySignature, Unread
<1>2. Len(req.found) = 1 /\ 1 \in 1 .. Len(req.found)
  <2>1. Len(req.found) = 1
    BY <1>1 DEF RequestInv, Control
  <2> QED
    BY <2>1
<1>3. /\ copy.altered \in SUBSET Parts /\ "unreadable" \notin copy.altered
      /\ copy.held = world[copy.held.event_id]
  BY <1>2, RequestFields DEF RequestInv, FoundIsLedger
<1>4. /\ "missing" \notin copy.altered /\ HashMatches(copy.altered)
      /\ "ipfs_cid" \in copy.altered <=> "sha256" \in copy.altered
  BY <1>1 DEF RequestInv, Verified
<1>5. CASE SignatureValid(copy) /\ Answer("VALID")
  <2>1. RequestType' /\ SameAnswer /\ req'.pc = "done" /\ req'.status = "VALID"
    BY <1>1, <1>5, AnswerEffect DEF RequestInv, Statuses
  <2>2. Control'
    BY <1>1, <2>1 DEF RequestInv, Control, SameAnswer, Paged
  <2>3. copy.altered \subseteq {"unsigned"}
    BY <1>3, <1>4, <1>5, CheckedIsUnaltered DEF SignatureValid
  <2>4. req'.found = req.found /\ world' = world
    BY <2>1 DEF SameAnswer, Unread, store_vars
  <2>5. Verified'
    BY <1>3, <2>1, <2>3, <2>4 DEF Verified, ValidIsGenuine
  <2> QED
    BY <1>1, <2>1, <2>2, <2>5, UnreadStores, SameAnswerKeeps DEF RequestInv
<1>6. CASE Answer("SIGNATURE_INVALID")
  <2>1. /\ RequestType' /\ SameAnswer /\ req'.pc = "done"
        /\ req'.status = "SIGNATURE_INVALID"
    BY <1>1, <1>6, AnswerEffect DEF RequestInv, Statuses
  <2>2. Control'
    BY <1>1, <2>1 DEF RequestInv, Control, SameAnswer, Paged
  <2>3. Verified'
    BY <2>1 DEF Verified, ValidIsGenuine
  <2> QED
    BY <1>1, <2>1, <2>2, <2>3, UnreadStores, SameAnswerKeeps DEF RequestInv
<1> QED
  BY <1>5, <1>6 DEF VerifySignature

-----------------------------------------------------------------------------
(* A single record is read.                                                *)

\* One record is read by its id, for an event or a verification.
LEMMA CopyEffect ==
    ASSUME StoreTypes, StoreInv, RequestInv, Unread, req.pc \in {"get", "load"},
           NEW status \in Statuses, NEW pc \in {"fetch", "done"},
           req' = [req EXCEPT !.pc = pc, !.status = status, !.found = GetRecord(req.ids[1])]
    PROVE  /\ RequestType' /\ req'.pc = pc /\ req'.status = status
           /\ req'.op = req.op /\ req'.todo = req.todo /\ req'.ids = req.ids
           /\ req'.next = req.next /\ req'.found = GetRecord(req.ids[1])
           /\ req.op = IF req.pc = "get" THEN "event" ELSE "verify"
           /\ Len(req'.found) <= 1 /\ (req'.found # <<>> => Len(req'.found) = 1)
           /\ FoundIsLedger' /\ PageState' /\ TodoState' /\ FoundOnce' /\ QueryState'
           /\ PresentIsReached'
<1> DEFINE e == req.ids[1]
           copy == GetRecord(e)
<1>1. req \in Requests /\ Len(req.ids) = 1 /\ req.op = IF req.pc = "get" THEN "event" ELSE "verify"
  BY DEF RequestInv, RequestType, Control
<1>2. e \in EventIds
  <2>1. 1 \in 1 .. Len(req.ids)
    BY <1>1
  <2> QED
    BY <2>1, RequestFields DEF RequestInv
<1>3. copy # <<>> =>
        /\ copy \in Seq(Copies) /\ Len(copy) = 1
        /\ copy[1].rec = world[e] /\ world[e].event_id = e
        /\ copy[1].held = world[copy[1].held.event_id]
        /\ "unreadable" \notin copy[1].altered
  BY <1>2, ReadIsLedger
<1> HIDE DEF copy, e
<1>4. req' = [req EXCEPT !.pc = pc, !.status = status, !.found = copy]
  BY DEF copy, e
<1>5. copy \in Seq(Copies) /\ Len(copy) <= 1
  <2>1. CASE copy = <<>>
    <3>1. <<>> \in Seq(Copies) /\ Len(<<>>) = 0
      OBVIOUS
    <3> QED
      BY <2>1, <3>1
  <2>2. CASE copy # <<>>
    <3>1. copy \in Seq(Copies)
      BY <1>3, <2>2
    <3>2. Len(copy) = 1
      BY <1>3, <2>2
    <3> QED
      BY <3>1, <3>2
  <2> QED
    BY <2>1, <2>2
<1>6. RequestType'
  BY <1>1, <1>4, <1>5 DEF RequestType, Requests
<1>7. /\ req'.pc = pc /\ req'.status = status
      /\ req'.op = req.op /\ req'.todo = req.todo /\ req'.ids = req.ids
      /\ req'.next = req.next /\ req'.found = copy
  BY <1>1, <1>4 DEF Requests
<1>8. FoundIsLedger'
  <2>1. UNCHANGED world
    BY DEF Unread, store_vars
  <2>2. CASE copy = <<>>
    BY <1>7, <2>2 DEF FoundIsLedger
  <2>3. CASE copy # <<>>
    BY <1>3, <1>7, <2>1, <2>3 DEF FoundIsLedger
  <2> QED
    BY <2>2, <2>3
<1>9. req'.op \notin {"query", "report"}
  BY <1>1, <1>7
<1> QED
  BY <1>1, <1>3, <1>6, <1>7, <1>8, <1>9, UnpagedKeeps DEF copy, e

\* An event query ends with the record or without one.
LEMMA GetEventStep ==
    ASSUME StoreTypes, StoreInv, RequestInv, GetEvent
    PROVE  StoreTypes' /\ StoreInv' /\ RequestInv'
<1> DEFINE copy == GetRecord(req.ids[1])
           status == IF copy = <<>> THEN "not_found" ELSE "ok"
<1>1. /\ Unread /\ req.pc = "get"
      /\ req' = [req EXCEPT !.pc = "done", !.status = status, !.found = copy]
  BY DEF GetEvent, Unread
<1>2. status \in Statuses /\ status \notin {"none", "VALID"}
  BY DEF Statuses
<1> HIDE DEF status
<1>3. /\ RequestType' /\ req'.pc = "done" /\ req'.status = status
      /\ req'.op = "event" /\ req'.todo = req.todo /\ req'.ids = req.ids
      /\ req'.next = req.next
      /\ Len(req'.found) <= 1 /\ (req'.found # <<>> => Len(req'.found) = 1)
      /\ FoundIsLedger' /\ PageState' /\ TodoState' /\ FoundOnce' /\ QueryState'
      /\ PresentIsReached' /\ req.op = "event"
  BY <1>1, <1>2, CopyEffect
<1>4. Control'
  BY <1>2, <1>3 DEF RequestInv, Control, Paged
<1>5. Verified'
  BY <1>2, <1>3 DEF Verified, ValidIsGenuine
<1> QED
  BY <1>1, <1>3, <1>4, <1>5, UnreadStores DEF RequestInv

\* A copy whose signed part is as logged passes the checks on the record alone.
LEMMA LoadRecordStep ==
    ASSUME StoreTypes, StoreInv, RequestInv, LoadRecord
    PROVE  StoreTypes' /\ StoreInv' /\ RequestInv'
<1> DEFINE copy == GetRecord(req.ids[1])
           verdict == IF copy = <<>> THEN "CID_NOT_FOUND"
                      ELSE IF "missing" \in copy[1].altered THEN "MISSING_FIELDS"
                      ELSE IF ~HashMatches(copy[1].altered) THEN "HASH_MISMATCH"
                      ELSE "none"
           pc == IF verdict = "none" THEN "fetch" ELSE "done"
<1>1. /\ Unread /\ req.pc = "load"
      /\ req' = [req EXCEPT !.pc = pc, !.status = verdict, !.found = copy]
  BY DEF LoadRecord, Unread
<1>2. /\ verdict \in Statuses /\ verdict \notin {"ok", "VALID", "IPFS_HASH_MISMATCH"}
      /\ pc \in {"fetch", "done"}
  BY DEF Statuses
<1>3. verdict = "none" =>
        copy # <<>> /\ "missing" \notin copy[1].altered /\ HashMatches(copy[1].altered)
  OBVIOUS
<1>4. copy # <<>> /\ copy[1].altered \subseteq {"unsigned"} => verdict = "none"
  BY DEF HashMatches
<1>5. pc = "fetch" <=> verdict = "none"
  OBVIOUS
<1> HIDE DEF verdict, pc
<1>6. /\ RequestType' /\ req'.pc = pc /\ req'.status = verdict
      /\ req'.op = "verify" /\ req'.todo = req.todo /\ req'.ids = req.ids
      /\ req'.next = req.next /\ req'.found = copy
      /\ Len(req'.found) <= 1 /\ (req'.found # <<>> => Len(req'.found) = 1)
      /\ FoundIsLedger' /\ PageState' /\ TodoState' /\ FoundOnce' /\ QueryState'
      /\ PresentIsReached' /\ req.op = "verify"
  BY <1>1, <1>2, CopyEffect
<1> HIDE DEF copy
<1>7. Control'
  <2>1. pc = "fetch" => Len(req'.found) = 1
    BY <1>3, <1>5, <1>6
  <2> QED
    BY <1>2, <1>5, <1>6, <2>1 DEF RequestInv, Control, Paged
<1>8. Verified'
  <2>1. ValidIsGenuine'
    BY <1>2, <1>6 DEF ValidIsGenuine
  <2>2. req'.pc # "signature"
    BY <1>2, <1>6
  <2> QED
    BY <1>2, <1>3, <1>4, <1>5, <1>6, <2>1, <2>2 DEF Verified
<1> QED
  BY <1>1, <1>6, <1>7, <1>8, UnreadStores DEF RequestInv

-----------------------------------------------------------------------------
(* A request begins.                                                       *)

\* It may rely on what can be read at that moment.
LEMMA BeginStores ==
    ASSUME StoreTypes, StoreInv, Begin
    PROVE  /\ StoreTypes' /\ StoreInv' /\ UNCHANGED world
           /\ \A e \in present' : e \in EventIds /\ world[e] \in Records
<1> USE DEF Begin, store_vars
<1>1. StoreTypes'
  BY DEF StoreTypes
<1>2. StoresAgree' /\ HeldIsLogged' /\ PayloadsStay'
  BY DEF StoreInv, StoresAgree, HeldIsLogged, PayloadsStay
<1>3. IndexIsFinite'
  BY DEF StoreInv, IndexIsFinite, Indexed
<1>4. \A e \in present' :
        e \in EventIds /\ redis[e] # NoRecord /\ "unreadable" \notin altered[e]
  BY DEF GetRecord
<1>5. PresentIsLegible'
  BY <1>4 DEF PresentIsLegible
<1>6. \A e \in present' : world[e] \in Records
  BY <1>4 DEF StoreInv, StoresAgree, StoreTypes
<1> QED
  BY <1>1, <1>2, <1>3, <1>4, <1>5, <1>6 DEF StoreInv

\* No request is a request.
LEMMA IdleIsRequest == Idle \in Requests
<1>1. /\ <<>> \in Seq(IndexKeys) /\ <<>> \in Seq(EventIds) /\ <<>> \in Seq(Copies)
      /\ 0 \in Int /\ 1 \in Nat \ {0} /\ "none" \in Statuses
  BY DEF Statuses
<1> QED
  BY <1>1 DEF Idle, Requests

\* Nothing has been read.
LEMMA NothingFound ==
    ASSUME req'.found = <<>>, req'.ids = <<>>, req'.next = 1, req'.limit \in Int
    PROVE  FoundIsLedger' /\ PageState' /\ FoundOnce' /\ QueryState'
<1>1. Len(req'.found) = 0 /\ Len(req'.ids) = 0
  OBVIOUS
<1>2. FoundIsLedger' /\ PageState'
  BY <1>1 DEF FoundIsLedger, PageState
<1>3. FoundOnce'
  BY <1>1 DEF FoundOnce
<1>4. QueryState'
  BY <1>1 DEF QueryState
<1> QED
  BY <1>2, <1>3, <1>4

\* A query begins with the one index it reads.
LEMMA QueryStep ==
    ASSUME StoreTypes, StoreInv, RequestInv, NEW k \in IndexKeys, NEW limit \in PageSizes,
           Query(k, limit)
    PROVE  StoreTypes' /\ StoreInv' /\ RequestInv'
<1> DEFINE todo == <<k>>
<1>1. /\ req' = [Idle EXCEPT !.pc = "index", !.op = "query", !.todo = todo, !.limit = limit]
      /\ Begin
  BY DEF Query
<1>2. todo \in Seq(IndexKeys) /\ Len(todo) = 1 /\ todo # <<>>
  OBVIOUS
<1> HIDE DEF todo
<1>3. RequestType'
  BY <1>1, <1>2, IdleIsRequest DEF RequestType, Requests
<1>4. /\ req'.pc = "index" /\ req'.op = "query" /\ req'.todo = todo /\ req'.limit = limit
      /\ req'.key = <<>> /\ req'.ids = <<>> /\ req'.next = 1 /\ req'.found = <<>>
      /\ req'.status = "none" /\ limit \in Int
  BY <1>1 DEF Idle
<1>5. Control' /\ Verified' /\ TodoState'
  <2>1. Len(req'.ids) = 0 /\ Len(req'.found) = 0
    BY <1>4
  <2>2. Control'
    BY <1>2, <1>4, <2>1 DEF Control, Paged
  <2>3. Verified'
    BY <1>4 DEF Verified, ValidIsGenuine
  <2>4. TodoState'
    BY <1>2, <1>4 DEF TodoState
  <2> QED
    BY <2>2, <2>3, <2>4
<1>6. PresentIsReached'
  <2>1. \A r : <<>> \notin Keys(r)
    BY DEF Keys
  <2> QED
    BY <1>4, <2>1 DEF PresentIsReached, ReadFor
<1> QED
  BY <1>1, <1>3, <1>4, <1>5, <1>6, BeginStores, NothingFound DEF RequestInv

\* Every record is of a severity the report asks for, and it asks for each once.
LEMMA ReportStep ==
    ASSUME StoreTypes, StoreInv, RequestInv, NEW window \in Windows, Report(window)
    PROVE  StoreTypes' /\ StoreInv' /\ RequestInv'
<1> DEFINE todo == [i \in 1 .. 4 |-> <<"severity", ReportSeverities[i]>>]
<1>1. /\ req' = [Idle EXCEPT !.pc = "index", !.op = "report", !.limit = ReportLimit,
                             !.window = window, !.todo = todo]
      /\ Begin
  BY DEF Report
<1>2. /\ todo \in Seq(IndexKeys) /\ Len(todo) = 4
      /\ \A i \in 1 .. 4 : todo[i] = <<"severity", ReportSeverities[i]>>
  <2>1. todo \in [1 .. 4 -> IndexKeys]
    OBVIOUS
  <2>2. \A i \in 1 .. 4 : todo[i] = <<"severity", ReportSeverities[i]>>
    OBVIOUS
  <2> HIDE DEF todo
  <2>3. todo \in Seq(IndexKeys) /\ Len(todo) = IF 4 >= 0 THEN 4 ELSE 0
    <3>1. 4 \in Int
      OBVIOUS
    <3> QED
      BY <2>1, <3>1, FunctionIsSequence
  <2> QED
    BY <2>2, <2>3
<1>3. todo # <<>>
  BY <1>2
<1> HIDE DEF todo
<1>4. RequestType'
  <2>1. todo \in Seq(IndexKeys) /\ ReportLimit \in Int
    BY <1>2
  <2> QED
    BY <1>1, <2>1, IdleIsRequest DEF RequestType, Requests
<1>5. /\ req'.pc = "index" /\ req'.op = "report" /\ req'.todo = todo
      /\ req'.limit = ReportLimit /\ req'.key = <<>> /\ req'.ids = <<>>
      /\ req'.next = 1 /\ req'.found = <<>> /\ req'.status = "none"
      /\ ReportLimit \in Int
  BY <1>1 DEF Idle
<1>6. Control' /\ Verified'
  <2>1. Len(req'.ids) = 0 /\ Len(req'.found) = 0
    BY <1>5
  <2>2. Control'
    BY <1>3, <1>5, <2>1 DEF Control, Paged
  <2>3. Verified'
    BY <1>5 DEF Verified, ValidIsGenuine
  <2> QED
    BY <2>2, <2>3
<1>7. TodoState'
  <2>1. \A i, j \in 1 .. 4 : i # j => ReportSeverities[i] # ReportSeverities[j]
    BY DEF ReportSeverities
  <2>2. \A i, j \in 1 .. 4 : i # j => todo[i] # todo[j]
    BY <1>2, <2>1
  <2>3. \A i \in 1 .. 4 : todo[i][1] = "severity"
    BY <1>2
  <2> QED
    BY <1>2, <1>5, <2>2, <2>3 DEF TodoState
<1>8. PresentIsReached'
  <2> SUFFICES ASSUME NEW e \in present', NEW k \in ReadFor(world[e])'
               PROVE  Reached(e, k)'
    BY DEF PresentIsReached
  <2>1. UNCHANGED world /\ world[e] \in Records
    BY <1>1, BeginStores
  <2>2. k = <<"severity", world[e].severity>>
    BY <1>5, <2>1 DEF ReadFor
  <2>3. PICK i \in 1 .. 4 : world[e].severity = ReportSeverities[i]
    BY <2>1
  <2>4. i \in 1 .. Len(req'.todo) /\ req'.todo[i] = k
    BY <1>2, <1>5, <2>2, <2>3
  <2> QED
    BY <2>4 DEF Reached
<1> QED
  BY <1>1, <1>4, <1>5, <1>6, <1>7, <1>8, BeginStores, NothingFound DEF RequestInv

\* A query for one event, or a verification, begins with the one id.
LEMMA EventStep ==
    ASSUME StoreTypes, StoreInv, RequestInv, NEW op \in {"event", "verify"},
           NEW e \in EventIds, Event(op, e)
    PROVE  StoreTypes' /\ StoreInv' /\ RequestInv'
<1> DEFINE ids == <<e>>
           pc == IF op = "event" THEN "get" ELSE "load"
<1>1. req' = [Idle EXCEPT !.op = op, !.ids = ids, !.pc = pc] /\ Begin
  BY DEF Event
<1>2. ids \in Seq(EventIds) /\ Len(ids) = 1
  OBVIOUS
<1>3. /\ pc \in {"get", "load"}
      /\ pc = "get" => op = "event"
      /\ pc = "load" => op = "verify"
  OBVIOUS
<1> HIDE DEF ids, pc
<1>4. RequestType'
  BY <1>1, <1>2, <1>3, IdleIsRequest DEF RequestType, Requests
<1>5. /\ req'.pc = pc /\ req'.op = op /\ req'.todo = <<>> /\ req'.ids = ids
      /\ req'.next = 1 /\ req'.found = <<>> /\ req'.status = "none"
  BY <1>1 DEF Idle
<1>6. Len(req'.found) = 0
  BY <1>5
<1>7. Control'
  BY <1>2, <1>3, <1>5, <1>6 DEF Control, Paged
<1>8. Verified'
  BY <1>3, <1>5 DEF Verified, ValidIsGenuine
<1>9. FoundIsLedger'
  BY <1>6 DEF FoundIsLedger
<1>10. req'.op \notin {"query", "report"}
  BY <1>5
<1> QED
  BY <1>1, <1>4, <1>7, <1>8, <1>9, <1>10, BeginStores, UnpagedKeeps DEF RequestInv

\* Of no request everything holds.
LEMMA IdleRequest ==
    ASSUME req' = Idle
    PROVE  RequestInv'
<1>1. RequestType'
  BY IdleIsRequest DEF RequestType
<1>2. /\ req'.pc = "idle" /\ req'.op = "none" /\ req'.todo = <<>> /\ req'.ids = <<>>
      /\ req'.next = 1 /\ req'.found = <<>> /\ req'.status = "none"
      /\ req'.limit = 0 /\ Len(req'.found) = 0 /\ Len(req'.ids) = 0
  BY DEF Idle
<1>3. Control'
  BY <1>2 DEF Control, Paged
<1>4. Verified'
  BY <1>2 DEF Verified, ValidIsGenuine
<1>5. req'.op \notin {"query", "report"}
  BY <1>2
<1> QED
  BY <1>1, <1>2, <1>3, <1>4, <1>5, NothingFound, UnpagedKeeps DEF RequestInv

\* After the answer the api is idle again.
LEMMA AnsweredStep ==
    ASSUME StoreTypes, StoreInv, Answered
    PROVE  StoreTypes' /\ StoreInv' /\ RequestInv'
BY UnreadStores, IdleRequest DEF Answered, Unread

-----------------------------------------------------------------------------
(* The inductive invariant.                                                *)

\* The invariant holds at the start.
LEMMA InitIInv ==
    ASSUME Init
    PROVE  IInv
<1> USE DEF Init, StoreInit
<1>1. StoreTypes
  BY DEF StoreTypes
<1>2. StoresAgree /\ HeldIsLogged
  BY DEF StoresAgree, HeldIsLogged
<1>3. IndexIsFinite
  <2>1. \A k \in IndexKeys : Indexed(k) = {}
    BY DEF Indexed
  <2> QED
    BY <2>1, FS_EmptySet DEF IndexIsFinite
<1>4. PayloadsStay /\ PresentIsLegible
  BY DEF PayloadsStay, PresentIsLegible
<1>5. RequestType
  BY IdleIsRequest DEF RequestType
<1>6. /\ req.pc = "idle" /\ req.op = "none" /\ req.todo = <<>> /\ req.ids = <<>>
      /\ req.next = 1 /\ req.found = <<>> /\ req.status = "none"
      /\ Len(req.found) = 0 /\ Len(req.ids) = 0
  BY DEF Idle
<1>7. Control /\ FoundIsLedger /\ Verified
  BY <1>6 DEF Control, Paged, FoundIsLedger, Verified, ValidIsGenuine
<1>8. PageState /\ TodoState /\ FoundOnce /\ QueryState /\ PresentIsReached
  BY <1>6 DEF PageState, TodoState, FoundOnce, QueryState, PresentIsReached, Paged
<1> QED
  BY <1>1, <1>2, <1>3, <1>4, <1>5, <1>7, <1>8 DEF IInv, StoreInv, RequestInv

\* A step that changes nothing keeps the invariant.
LEMMA StutterIInv ==
    ASSUME IInv, UNCHANGED vars
    PROVE  IInv'
<1>1. Unread /\ req' = req
  BY DEF vars, Unread
<1>2. SameAnswer
  BY <1>1 DEF SameAnswer
<1>3. RequestType' /\ Control'
  BY <1>1 DEF IInv, RequestInv, RequestType, Control, Paged
<1>4. Verified'
  BY <1>1 DEF IInv, RequestInv, Verified, ValidIsGenuine, Unread, store_vars
<1> QED
  BY <1>1, <1>2, <1>3, <1>4, UnreadStores, SameAnswerKeeps DEF IInv, RequestInv

\* Every step keeps the invariant: one case for each action.
LEMMA NextIInv ==
    ASSUME IInv, Next
    PROVE  IInv'
<1> USE DEF IInv
<1>1. ASSUME NEW k \in IndexKeys, ReadIndex(k)
      PROVE  IInv'
  BY <1>1, ReadIndexStep
<1>2. ASSUME NEW k \in IndexKeys, NEW limit \in PageSizes, Query(k, limit)
      PROVE  IInv'
  BY <1>2, QueryStep
<1>3. ASSUME NEW window \in Windows, Report(window)
      PROVE  IInv'
  BY <1>3, ReportStep
<1>4. ASSUME NEW e \in EventIds, NEW op \in {"event", "verify"}, Event(op, e)
      PROVE  IInv'
  BY <1>4, EventStep
<1>5. CASE ReadRecord
  BY <1>5, ReadRecordStep
<1>6. CASE GetEvent
  BY <1>6, GetEventStep
<1>7. CASE Unreachable
  BY <1>7, UnreachableStep
<1>8. CASE Answered
  BY <1>8, AnsweredStep
<1>9. CASE LoadRecord
  BY <1>9, LoadRecordStep
<1>10. CASE FetchPayload
  BY <1>10, FetchPayloadStep
<1>11. CASE FetchFails
  BY <1>11, FetchFailsStep
<1>12. CASE VerifySignature
  BY <1>12, VerifySignatureStep
<1>13. CASE Stored
  <2>1. StoreTypes' /\ StoreInv' /\ Grown /\ UNCHANGED req
    BY <1>13, StoredStep
  <2>2. IndexIsFinite'
    BY <2>1 DEF StoreInv
  <2> QED
    BY <2>1, <2>2, GrownRequest
<1> QED
  BY <1>1, <1>2, <1>3, <1>4, <1>5, <1>6, <1>7, <1>8, <1>9, <1>10, <1>11, <1>12, <1>13
     DEF Next, Stored

\* The stores agree, what was read of them stays true, and every request has read
\* what it should have by now.
THEOREM Invariance == Spec => []IInv
<1>1. Init => IInv
  BY InitIInv
<1>2. IInv /\ [Next]_vars => IInv'
  BY NextIInv, StutterIInv
<1> QED
  BY <1>1, <1>2, PTL DEF Spec

-----------------------------------------------------------------------------
(* What the audit-api answers.                                             *)

\* Every variable keeps its type.
THEOREM TypeCorrect == Spec => []TypeOK
<1>1. IInv => TypeOK
  <2> SUFFICES ASSUME IInv
               PROVE  TypeOK
    OBVIOUS
  <2>1. req \in Requests /\ req.next <= Len(req.ids) + 1
    BY DEF IInv, RequestInv, RequestType, Control
  <2>2. req.next \in 1 .. Len(req.ids) + 1
    BY <2>1, RequestFields DEF IInv, RequestInv
  <2>3. /\ req.pc \in {"idle", "index", "record", "get", "load", "fetch", "signature", "done"}
        /\ req.op \in {"none", "query", "report", "event", "verify"}
        /\ req.todo \in Seq(IndexKeys) /\ req.ids \in Seq(EventIds)
        /\ req.found \in Seq(Copies) /\ req.status \in Statuses
    BY <2>1 DEF Requests
  <2> QED
    BY <2>2, <2>3 DEF TypeOK, IInv, StoreTypes
<1> QED
  BY <1>1, Invariance, PTL

\* The records found are as many as the places they were found in.
LEMMA FoundAreAsMany ==
    ASSUME IInv
    PROVE  Cardinality(Found) = Len(req.found)
<1> DEFINE n == Len(req.found)
           rec == [i \in 1 .. n |-> req.found[i].rec]
<1>1. n \in Nat
  BY RequestFields DEF IInv, RequestInv
<1>2. \A i, j \in 1 .. n : i # j => req.found[i].rec # req.found[j].rec
  <2>1. CASE Paged
    BY <2>1 DEF IInv, RequestInv, FoundOnce
  <2>2. CASE ~Paged
    <3>1. n <= 1
      BY <2>2 DEF IInv, RequestInv, Control
    <3> QED
      BY <1>1, <3>1
  <2> QED
    BY <2>1, <2>2
<1>3. rec \in Bijection(1 .. n, Found)
  <2>1. rec \in [1 .. n -> Found]
    BY DEF Found
  <2>2. \A i, j \in 1 .. n : rec[i] = rec[j] => i = j
    BY <1>2
  <2>3. \A r \in Found : \E i \in 1 .. n : rec[i] = r
    BY DEF Found
  <2> HIDE DEF rec
  <2> QED
    BY <2>1, <2>2, <2>3 DEF Bijection, Injection, Surjection, IsInjective
<1>4. IsFiniteSet(1 .. n) /\ Cardinality(1 .. n) = n
  <2> HIDE DEF n
  <2>1. n \in Int /\ 1 \in Int
    BY <1>1
  <2>2. IsFiniteSet(1 .. n) /\ Cardinality(1 .. n) = IF 1 > n THEN 0 ELSE n - 1 + 1
    BY <2>1, FS_Interval
  <2> QED
    BY <1>1, <2>2
<1> HIDE DEF rec, n
<1>5. ExistsBijection(1 .. n, Found)
  BY <1>3 DEF ExistsBijection
<1> QED
  BY <1>4, <1>5, FS_Bijection DEF n

\* However the stores change while it runs, a query answers with ledger records of what
\* was asked, each once, newest first and no more than a page; a report with ledger
\* records, none of them twice (query_by_asset, query_by_severity, compliance_report).
THEOREM AnswersAreSound == Spec => []AnswerIsSound
<1>1. IInv => AnswerIsSound
  <2> SUFFICES ASSUME IInv
               PROVE  AnswerIsSound
    OBVIOUS
  <2> USE DEF IInv, RequestInv
  <2>1. \A r \in Found : r = world[r.event_id]
    BY DEF FoundIsLedger, Found
  <2>2. Cardinality(Found) = Len(req.found)
    BY FoundAreAsMany
  <2>3. ASSUME req.op = "query"
        PROVE  /\ \A r \in Found : req.key \in Keys(r)
               /\ \A i, j \in 1 .. Len(req.found) :
                     i < j => req.found[i].rec.timestamp >= req.found[j].rec.timestamp
               /\ req.limit > 0 => Len(req.found) <= req.limit
    <3>1. \A r \in Found : req.key \in Keys(r)
      BY <2>3 DEF QueryState, Found
    <3>2. /\ Len(req.found) < req.next /\ req.next <= Len(req.ids) + 1
          /\ req.limit > 0 => Len(req.ids) <= req.limit
      BY <2>3 DEF QueryState, Control
    <3>3. req.limit > 0 => Len(req.found) <= req.limit
      BY <3>2, RequestFields
    <3> QED
      BY <2>3, <3>1, <3>3 DEF QueryState
  <2> QED
    BY <2>1, <2>2, <2>3 DEF AnswerIsSound
<1> QED
  BY <1>1, Invariance, PTL

\* And a record that was cached and legible during the whole request is in the answer,
\* unless as many newer entries of its index fill the page (none does when all are asked
\* for, with a page_size of 0).
THEOREM AnswersAreComplete == Spec => []AnswerIsComplete
<1>1. IInv => AnswerIsComplete
  <2> SUFFICES ASSUME IInv, req.op \in {"query", "report"}, req.status = "ok",
                      NEW e \in present, NEW k \in ReadFor(world[e])
               PROVE  world[e] \in Found \/ Displaced(k, e)
    BY DEF AnswerIsComplete
  <2> USE DEF IInv, RequestInv
  <2>1. Reached(e, k)
    BY DEF PresentIsReached, Paged
  <2>2. req.next > Len(req.ids) /\ req.todo = <<>>
    BY DEF Control, Paged
  <2>3. Rest = {} /\ Len(req.todo) = 0
    BY <2>2, RequestFields DEF Rest
  <2> QED
    BY <2>1, <2>3 DEF Reached
<1> QED
  BY <1>1, Invariance, PTL

\* VALID is said only of an event that was logged, as it was logged and signed, with its
\* hash and CID, though not necessarily of the one asked for (verify_record).
THEOREM ValidRecordsAreGenuine == Spec => []ValidIsGenuine
<1>1. IInv => ValidIsGenuine
  BY DEF IInv, RequestInv, Verified
<1> QED
  BY <1>1, Invariance, PTL

\* A record whose signed part is as logged is never said to be altered, and with IPFS_PIN
\* its payload is on the node whenever it is fetched, though it may have expired itself.
THEOREM GenuineRecordsStand == Spec => []GenuineIsNotRefuted
<1>1. IInv => GenuineIsNotRefuted
  <2> SUFFICES ASSUME IInv, req.op = "verify", req.found # <<>>,
                      req.found[1].altered \subseteq {"unsigned"}
               PROVE  /\ req.status \notin {"MISSING_FIELDS", "HASH_MISMATCH",
                                            "IPFS_HASH_MISMATCH"}
                      /\ PinEnabled => ipfs[req.found[1].held.payload.ipfs_cid] # "absent"
    BY DEF GenuineIsNotRefuted
  <2> USE DEF IInv, RequestInv
  <2>1. req.status \notin {"MISSING_FIELDS", "HASH_MISMATCH", "IPFS_HASH_MISMATCH"}
    BY DEF Verified
  <2>2. 1 \in 1 .. Len(req.found)
    BY RequestFields
  <2>3. /\ req.found[1].held \in Records /\ req.found[1].held.event_id \in EventIds
        /\ req.found[1].held = world[req.found[1].held.event_id]
    BY <2>2, RequestFields DEF FoundIsLedger
  <2>4. world[req.found[1].held.event_id] # NoRecord
    BY <2>3
  <2>5. PinEnabled => ipfs[world[req.found[1].held.event_id].payload.ipfs_cid] = "pinned"
    BY <2>3, <2>4 DEF StoreInv, PayloadsStay
  <2>6. PinEnabled => ipfs[req.found[1].held.payload.ipfs_cid] = "pinned"
    BY <2>3, <2>5
  <2> QED
    BY <2>1, <2>6
<1> QED
  BY <1>1, Invariance, PTL
=============================================================================

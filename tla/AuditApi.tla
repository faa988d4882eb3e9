------------------------------ MODULE AuditApi ------------------------------
(***************************************************************************)
(* services/audit-api: queries, verification and compliance reports over   *)
(* what the blockchain-logger left in Redis and on IPFS, with the logger   *)
(* and the stores' own clocks running between any two reads of a request.  *)
(*                                                                         *)
(* Requests share nothing but the stores, so one at a time is modelled, for*)
(* any of those in progress.  A cached record may be altered, or give way  *)
(* to another event's: that is what verify_record is for.                  *)
(***************************************************************************)
EXTENDS AuditStore, Integers, Sequences, FiniteSets

CONSTANTS
    PageSizes,     \* page_size of a request: any integer
    ReportLimit,   \* the page size of the report's queries (10 000)
    Windows,       \* start and end of a report: [from, to]
    Alterable,     \* bound: events whose cached record may be altered
    MaxAlterations \* bound: alterations of one record, replacing it among them

\* Which part of a cached record was altered: it no longer parses, a ledger field
\* is missing, an event field, the hash, the CID or the signature is another, or one
\* of the fields nobody signs (tx_id, block_number, org_msp, agent_identity) is.
\* An altered hash is the altered event's hash, an altered CID its payload's, an
\* altered signature not the agent's for the event: a record whose parts fit each
\* other is not this one altered but another, see Replace.
Parts == {"unreadable", "missing", "content", "sha256", "ipfs_cid", "agent_signature",
          "unsigned"}

ReportSeverities == <<"CRITICAL", "HIGH", "MEDIUM", "LOW">>

Statuses == {"none", "ok", "error", "not_found", "VALID", "HASH_MISMATCH",
             "SIGNATURE_INVALID", "CID_NOT_FOUND", "IPFS_HASH_MISMATCH", "MISSING_FIELDS"}

ASSUME IdsAreOrdered == EventIds \subseteq Nat /\ Alterable \subseteq EventIds

ASSUME LimitIsPositive == ReportLimit \in Nat \ {0} /\ MaxAlterations \in Nat

ASSUME PagesAreIntegers == PageSizes \subseteq Int

\* The report asks for every value of the event schema's Severity.
ASSUME SeveritiesAreReported ==
    /\ \A i \in 1 .. 4 : <<"severity", ReportSeverities[i]>> \in IndexKeys
    /\ \A r \in Records : \E i \in 1 .. 4 : r.severity = ReportSeverities[i]

VARIABLES
    held,      \* what stands under audit:event:<id>: the record the logger cached
               \*   there, which is redis's, or another in its place
    altered,   \* event id -> the parts of what stands there that were altered
    req,       \* the request
    present    \* history: events cached and legible ever since it began

vars == <<store_vars, held, altered, req, present>>

\* The request between two reads: pc is what it does next; todo the indexes still
\* to read; key the index read last; ids its page, of which next is to be fetched; found the
\* records read so far.
Idle == [pc |-> "idle", op |-> "none", todo |-> <<>>, limit |-> 0, window |-> <<0, 0>>,
         key |-> <<>>, ids |-> <<>>, next |-> 1, found |-> <<>>, status |-> "none"]

\* A record as it was read: the one the logger cached under the key (rec), the one
\* that stood there, and what was altered in that.
Copies == [rec : Records, held : Records, altered : SUBSET Parts]

TypeOK ==
    /\ world \in [EventIds -> Records \cup {NoRecord}]
    /\ redis \in [EventIds -> Records \cup {NoRecord}]
    /\ \A k \in IndexKeys : index[k] \in [EventIds -> Nat]
    /\ ipfs \in [Cids -> {"absent", "stored", "pinned"}]
    /\ held \in [EventIds -> Records \cup {NoRecord}]
    /\ altered \in [EventIds -> SUBSET Parts]
    /\ req.pc \in {"idle", "index", "record", "get", "load", "fetch", "signature", "done"}
    /\ req.op \in {"none", "query", "report", "event", "verify"}
    /\ req.todo \in Seq(IndexKeys) /\ req.ids \in Seq(EventIds)
    /\ req.found \in Seq(Copies)
    /\ req.next \in 1 .. Len(req.ids) + 1
    /\ req.status \in Statuses
    /\ present \subseteq EventIds

Init ==
    /\ StoreInit
    /\ held = [e \in EventIds |-> NoRecord]
    /\ altered = [e \in EventIds |-> {}]
    /\ req = Idle
    /\ present = {}

-----------------------------------------------------------------------------
(* Redis.                                                                  *)

Indexed(k) == {e \in EventIds : index[k][e] # 0}

\* The members of index k that come before e, newest first.
Before(k, e) ==
    {f \in Indexed(k) : index[k][f] > index[k][e] \/ (index[k][f] = index[k][e] /\ f > e)}

ZRevRange_Oldest(k, stop) ==
    LET size == Cardinality(Indexed(k))
        last == IF stop < 0 THEN size + stop ELSE IF stop < size THEN stop ELSE size - 1
    IN  [i \in 1 .. last + 1 |->
           CHOOSE e \in Indexed(k) : Cardinality(Before(k, e)) = size - i]

\* ZREVRANGE k 0 stop: a negative stop counts from the end.
ZRevRange(k, stop) ==
    LET size == Cardinality(Indexed(k))
        last == IF stop < 0 THEN size + stop ELSE IF stop < size THEN stop ELSE size - 1
    IN  [i \in 1 .. last + 1 |->
           CHOOSE e \in Indexed(k) : Cardinality(Before(k, e)) = i - 1]

\* _get_record: what GET returns and can be parsed, as a sequence of at most one.
GetRecord(e) ==
    IF redis[e] = NoRecord \/ "unreadable" \in altered[e]
    THEN <<>>
    ELSE <<[rec |-> redis[e], held |-> held[e], altered |-> altered[e]]>>

-----------------------------------------------------------------------------
(* Requests.                                                               *)

\* What is left of a query's loop, or of the report's queries.
Resume(r) ==
    [r EXCEPT !.pc = IF r.next <= Len(r.ids) THEN "record"
                     ELSE IF r.todo # <<>> THEN "index" ELSE "done",
              !.status = IF r.next > Len(r.ids) /\ r.todo = <<>> THEN "ok" ELSE @]

\* A request begins: what it may rely on finding.
Begin ==
    /\ present' = {e \in EventIds : GetRecord(e) # <<>>}
    /\ UNCHANGED <<store_vars, held, altered>>

Answer(status) == req' = [req EXCEPT !.pc = "done", !.status = status]

\* audit_trail and by_severity.
Query(k, limit) ==
    /\ req.pc = "idle"
    /\ req' = [Idle EXCEPT !.pc = "index", !.op = "query", !.todo = <<k>>, !.limit = limit]
    /\ Begin

\* compliance_report: one query for each severity.
Report(window) ==
    /\ req.pc = "idle"
    /\ req' = [Idle EXCEPT !.pc = "index", !.op = "report", !.limit = ReportLimit,
                           !.window = window,
                           !.todo = [i \in 1 .. 4 |-> <<"severity", ReportSeverities[i]>>]]
    /\ Begin

\* get_event and verify.
Event(op, e) ==
    /\ req.pc = "idle"
    /\ req' = [Idle EXCEPT !.op = op, !.ids = <<e>>,
                           !.pc = IF op = "event" THEN "get" ELSE "load"]
    /\ Begin

ReadIndex_KeepsPosition(k) ==
    /\ req.pc = "index" /\ k = Head(req.todo)
    /\ req' = Resume([req EXCEPT !.todo = Tail(@), !.key = k,
                                 !.ids = ZRevRange(k, req.limit - 1)])
    /\ UNCHANGED <<store_vars, held, altered, present>>

\* _get_event_ids_for_asset and _get_event_ids_for_severity.
ReadIndex(k) ==
    /\ req.pc = "index" /\ k = Head(req.todo)
    /\ req' = Resume([req EXCEPT !.todo = Tail(@), !.next = 1, !.key = k,
                                 !.ids = ZRevRange(k, req.limit - 1)])
    /\ UNCHANGED <<store_vars, held, altered, present>>

ReadRecord_StopsAtMissing ==
    /\ req.pc = "record"
    /\ req' = IF GetRecord(req.ids[req.next]) = <<>>
              THEN Resume([req EXCEPT !.next = Len(req.ids) + 1])
              ELSE Resume([req EXCEPT !.next = @ + 1,
                                      !.found = @ \o GetRecord(req.ids[req.next])])
    /\ UNCHANGED <<store_vars, held, altered, present>>

\* One turn of the loop of query_by_asset and query_by_severity.
ReadRecord ==
    /\ req.pc = "record"
    /\ req' = Resume([req EXCEPT !.next = @ + 1,
                                 !.found = @ \o GetRecord(req.ids[req.next])])
    /\ UNCHANGED <<store_vars, held, altered, present>>

GetEvent ==
    /\ req.pc = "get"
    /\ LET copy == GetRecord(req.ids[1]) IN
         req' = [req EXCEPT !.pc = "done", !.found = copy,
                            !.status = IF copy = <<>> THEN "not_found" ELSE "ok"]
    /\ UNCHANGED <<store_vars, held, altered, present>>

\* Redis is unreachable: the endpoints answer 500.
Unreachable ==
    /\ req.pc \in {"index", "record", "get", "load"}
    /\ Answer("error")
    /\ UNCHANGED <<store_vars, held, altered, present>>

Answered ==
    /\ req.pc = "done"
    /\ req' = Idle
    /\ UNCHANGED <<store_vars, held, altered, present>>

-----------------------------------------------------------------------------
(* verify_record.                                                          *)

HashMatches_Unchecked(parts) == TRUE

\* sha256 is the hash of the event fields.
HashMatches(parts) == ("content" \in parts) = ("sha256" \in parts)

\* The first checks, on the record alone.
LoadRecord ==
    /\ req.pc = "load"
    /\ LET copy == GetRecord(req.ids[1])
           verdict == IF copy = <<>> THEN "CID_NOT_FOUND"
                      ELSE IF "missing" \in copy[1].altered THEN "MISSING_FIELDS"
                      ELSE IF ~HashMatches(copy[1].altered) THEN "HASH_MISMATCH"
                      ELSE "none"
       IN  req' = [req EXCEPT !.found = copy, !.status = verdict,
                              !.pc = IF verdict = "none" THEN "fetch" ELSE "done"]
    /\ UNCHANGED <<store_vars, held, altered, present>>

\* fetch_and_verify: the payload the CID names is on the node.
FetchPayload ==
    /\ req.pc = "fetch"
    /\ LET copy == req.found[1] IN
         /\ "ipfs_cid" \notin copy.altered => ipfs[copy.held.payload.ipfs_cid] # "absent"
         /\ IF ("ipfs_cid" \in copy.altered) = ("sha256" \in copy.altered)
            THEN req' = [req EXCEPT !.pc = "signature"]
            ELSE Answer("IPFS_HASH_MISMATCH")
    /\ UNCHANGED <<store_vars, held, altered, present>>

\* It is not, or the node cannot be reached.
FetchFails ==
    /\ req.pc = "fetch"
    /\ Answer("CID_NOT_FOUND")
    /\ UNCHANGED <<store_vars, held, altered, present>>

\* The agent signed the event fields that stand there, and some agent is named.  Of
\* which event they are is not asked.
SignatureValid(copy) ==
    /\ copy.held.payload.agent_identity \/ "unsigned" \in copy.altered
    /\ {"content", "agent_signature"} \cap copy.altered = {}

\* _verify_signature, with a certificate file that can be read or not.
VerifySignature ==
    /\ req.pc = "signature"
    /\ \/ SignatureValid(req.found[1]) /\ Answer("VALID")
       \/ Answer("SIGNATURE_INVALID")
    /\ UNCHANGED <<store_vars, held, altered, present>>

-----------------------------------------------------------------------------
(* The stores.                                                             *)

\* The logger writes, records expire, the node collects; a new or expired cached
\* record is not an altered one.
StoreStep ==
    /\ \/ \E c \in Cids : Upload(c) \/ Collect(c)
       \/ \E e \in EventIds : CacheRecord(e) \/ ExpireRecord(e)
       \/ \E r \in Records : Log(r)
    /\ held' = [e \in EventIds |-> IF redis'[e] = redis[e] THEN held[e] ELSE redis'[e]]
    /\ altered' = [e \in EventIds |-> IF redis'[e] = NoRecord THEN {} ELSE altered[e]]
    /\ present' = {e \in present : redis'[e] # NoRecord}
    /\ UNCHANGED req

\* What was done to e's record; its replacement counts as well.
Alterations(e) == Cardinality(altered[e]) + IF held[e] = redis[e] THEN 0 ELSE 1

Alter(e, part) ==
    /\ redis[e] # NoRecord
    /\ part \notin altered[e] /\ Alterations(e) < MaxAlterations
    /\ altered' = [altered EXCEPT ![e] = @ \cup {part}]
    /\ present' = IF part = "unreadable" THEN present \ {e} ELSE present
    /\ UNCHANGED <<store_vars, held, req>>

\* The whole record of a logged event f is put in the place of e's (bound: once,
\* before anything in it is altered).
Replace(e, f) ==
    /\ redis[e] # NoRecord /\ world[f] # NoRecord
    /\ Alterations(e) = 0 /\ MaxAlterations > 0
    /\ held' = [held EXCEPT ![e] = world[f]]
    /\ UNCHANGED <<store_vars, altered, req, present>>

Next ==
    \/ \E k \in IndexKeys : ReadIndex(k) \/ \E limit \in PageSizes : Query(k, limit)
    \/ \E window \in Windows : Report(window)
    \/ \E e \in EventIds, op \in {"event", "verify"} : Event(op, e)
    \/ ReadRecord \/ GetEvent \/ Unreachable \/ Answered
    \/ LoadRecord \/ FetchPayload \/ FetchFails \/ VerifySignature
    \/ StoreStep
    \/ \E e \in Alterable : \/ \E part \in Parts : Alter(e, part)
                          \/ \E f \in EventIds : Replace(e, f)

Spec == Init /\ [][Next]_vars

-----------------------------------------------------------------------------
(* Properties.                                                             *)

Found == {req.found[i].rec : i \in 1 .. Len(req.found)}

\* Whatever is logged and expires while it runs, a query answers with ledger
\* records of the asked asset or severity, each once, newest first and no more
\* than a positive page_size (query_by_asset, query_by_severity); and the report
\* counts ledger records, none of them twice (compliance_report's four queries).
\* No answer is checked against anything: an altered or replaced record is shown as
\* it stands, and counts here as the one the logger cached in its place.
AnswerIsSound ==
    /\ \A r \in Found : r = world[r.event_id]
    /\ Cardinality(Found) = Len(req.found)
    /\ req.op = "query" =>
         /\ \A r \in Found : req.key \in Keys(r)
         /\ \A i, j \in 1 .. Len(req.found) :
               i < j => req.found[i].rec.timestamp >= req.found[j].rec.timestamp
         /\ req.limit > 0 => Len(req.found) <= req.limit

\* A page of the limit is full before e's entry.
Displaced(k, e) == req.limit # 0 /\ Cardinality(Before(k, e)) >= req.limit

\* The index entries a query or a report reads for a record.
ReadFor(r) ==
    IF req.op = "query" THEN Keys(r) \cap {req.key} ELSE {<<"severity", r.severity>>}

\* A record that was cached and legible during the whole request is in the answer,
\* unless as many newer entries of its index fill the page; a page_size of 0 asks for
\* the whole index, and a negative one leaves out the oldest.
AnswerIsComplete ==
    req.op \in {"query", "report"} /\ req.status = "ok" =>
        \A e \in present : \A k \in ReadFor(world[e]) :
            world[e] \in Found \/ Displaced(k, e)

\* VALID is the verdict on event fields that were logged and signed as they stand,
\* with the hash and the CID they were logged under, although verify_record never
\* asks the ledger and the signature covers neither.  It says nothing of the fields
\* nobody signs, nor that the event is the one asked for.
ValidIsGenuine ==
    req.status = "VALID" =>
        LET copy == req.found[1] IN
          /\ copy.held = world[copy.held.event_id]
          /\ copy.altered \subseteq {"unsigned"}

\* A record whose signed part is as logged never counts as altered, whatever happens
\* to the stores while verify_record runs; and with IPFS_PIN its payload is still on
\* the node when it is fetched, even if the cached record expired meanwhile.
GenuineIsNotRefuted ==
    req.op = "verify" /\ req.found # <<>> /\ req.found[1].altered \subseteq {"unsigned"} =>
        /\ req.status \notin {"MISSING_FIELDS", "HASH_MISMATCH", "IPFS_HASH_MISMATCH"}
        /\ PinEnabled => ipfs[req.found[1].held.payload.ipfs_cid] # "absent"

-----------------------------------------------------------------------------
(* What the code does not keep.                                            *)

\* What VALID may be taken for by who asked verify_record for an id: that the record
\* is of that event.  It does not hold where records can be put in each other's place.
ValidIsOfTheEvent ==
    req.status = "VALID" => req.found[1].held.event_id = req.ids[1]

\* "Generate compliance reports for the past 24 hours" (compliance-scheduler's
\* jobs.py), which asks for a report from start_time to end_time.
ReportIsOfItsPeriod ==
    req.op = "report" /\ req.status = "ok" =>
        \A r \in Found : req.window[1] <= r.timestamp /\ r.timestamp <= req.window[2]
=============================================================================

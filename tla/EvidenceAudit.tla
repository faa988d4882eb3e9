---------------------------- MODULE EvidenceAudit ----------------------------
(***************************************************************************)
(* audit_query.py beside LivePipeline: the command line queries records    *)
(* and checks their payloads on IPFS, as run_integrity_verification_test   *)
(* of benchmark.py does for all of the asset once its own events are       *)
(* logged.  All events are of one asset, severity and period.              *)
(*                                                                         *)
(* An audit reads the ledger once and then fetches payload after payload,  *)
(* while runs go on.  The REST gateway it queries is not in the            *)
(* repository; it is taken to answer with what the contract returns.       *)
(***************************************************************************)
EXTENDS LivePipeline

VARIABLES
    audit,    \* one audit: what it read and found
    reported  \* history: those it asked for whose run had reported success by then

audit_vars == <<vars, audit, reported>>

NoAudit == [pc |-> "idle", answered |-> FALSE, left |-> {},
            passed |-> {}, failed |-> {}, unreachable |-> {}]

AuditInit == Init /\ audit = NoAudit /\ reported = {}

Reported == {run[n].event : n \in {m \in Runs : run[m].pc = "ok"}}

-----------------------------------------------------------------------------
(* Actions.  _AlwaysFetches is a plausible mistake.                        *)

Ask(asked, answered, found) ==
    /\ audit.pc = "idle"
    /\ audit' = [NoAudit EXCEPT !.pc = IF found = {} THEN "ended" ELSE "verify",
                                !.answered = answered, !.left = found]
    /\ reported' = Reported \cap asked

QueryLedger(asked) ==
    /\ Ask(asked, TRUE, {r \in Logged : r.event_id \in asked})
    /\ UNCHANGED vars

\* _query makes any failure of the gateway an empty answer.
QueryFails(asked) ==
    /\ Fault("gateway")
    /\ Ask(asked, FALSE, {})
    /\ UNCHANGED <<key_vars, run, ipfs, fabric_vars>>

Verified(r, result, unreachable) ==
    audit' = [audit EXCEPT !.pc = IF audit.left = {r} THEN "ended" ELSE "verify",
                           !.left = @ \ {r},
                           !.passed = IF result THEN @ \cup {r.event_id} ELSE @,
                           !.failed = IF result THEN @ ELSE @ \cup {r.event_id},
                           !.unreachable = @ \cup unreachable]

VerifyIntegrity_AlwaysFetches(r) ==
    /\ Verified(r, r.payload.ipfs_cid.package \in ipfs, {})
    /\ UNCHANGED <<vars, reported>>

\* verify_ipfs_integrity, for the next record, while the node answers...
VerifyIntegrity(r) ==
    /\ Verified(r, IpfsIntegrity(r.payload), {})
    /\ UNCHANGED <<vars, reported>>

\* ... and when it does not: a payload that has to be fetched counts as corrupted.
VerifyIntegrityFails(r) ==
    /\ ~r.payload.ipfs_cid.hash_only
    /\ Fault("ipfs")
    /\ Verified(r, FALSE, {r.event_id})
    /\ UNCHANGED <<key_vars, run, ipfs, fabric_vars, reported>>

\* --asset and --severity find every record, --event-id the one.
AuditNext ==
    \/ Next /\ UNCHANGED <<audit, reported>>
    \/ \E asked \in {Events} \cup {{e} : e \in Events} :
           QueryLedger(asked) \/ QueryFails(asked)
    \/ \E r \in audit.left : VerifyIntegrity(r) \/ VerifyIntegrityFails(r)

AuditSpec == AuditInit /\ [][AuditNext]_audit_vars

-----------------------------------------------------------------------------
(* Properties.                                                             *)

\* failure_rate == 0.0, which it also is of no record at all.
KpiPass == audit.pc = "ended" /\ audit.failed = {}

\* What the runs say and what an audit finds agree: every event whose run had reported
\* success when the ledger was read is verified, and no record is reported as corrupted,
\* whichever attempt or failed upload it comes from, unless the node did not answer.
AuditAgreesWithRuns ==
    audit.pc = "ended" =>
        /\ audit.unreachable = {} => KpiPass
        /\ audit.answered => reported \subseteq audit.passed \cup audit.unreachable

\* Not so when the query itself failed: a pass then says nothing of what was logged.
PassCoversReported == KpiPass => reported \subseteq audit.passed
=============================================================================

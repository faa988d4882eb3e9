------------------------ MODULE SecurityLoggerProofs ------------------------
(***************************************************************************)
(* The chaincode's guarantees, for any sets of ids, assets, records and    *)
(* transactions.  The argument: a transaction is endorsed only against an  *)
(* id that was never written (version 0), so once a transaction for the id *)
(* commits (version 1) every other one in flight is stale and fails        *)
(* validation.                                                             *)
(***************************************************************************)
EXTENDS SecurityLogger, TLAPS

USE NoRecordIsNoRecord, TimesAreOrdered, AuthorizedIsAnMsp

-----------------------------------------------------------------------------
(* The inductive invariant.                                                *)

\* Every transaction that was proposed carries a record, was proposed by the
\* authorised organisation and read version 0 of its key.
ProposedAgainstAbsent ==
    \A t \in TxIds : txs[t].status # "none" =>
        /\ txs[t].rec # NoRecord
        /\ txs[t].msp = AuthorizedMsp
        /\ txs[t].read = 0

\* A key holds a record exactly if it was written, and holds it under its id.
WrittenIffPresent ==
    \A e \in EventIds : /\ world[e] = NoRecord <=> version[e] = 0
                        /\ world[e] # NoRecord => world[e].event_id = e

ValidIsStored ==
    \A t \in TxIds : txs[t].status = "valid" => world[txs[t].rec.event_id] = txs[t].rec

StoredByOne ==
    \A e \in EventIds : world[e] # NoRecord =>
        \E t \in TxIds :
            /\ txs[t].status = "valid"
            /\ txs[t].rec = world[e]
            /\ \A u \in TxIds \ {t} : ~(txs[u].status = "valid" /\ txs[u].rec.event_id = e)

InvalidIsTaken ==
    \A t \in TxIds : txs[t].status = "invalid" => world[txs[t].rec.event_id] # NoRecord

IInv ==
    /\ TypeOK
    /\ ProposedAgainstAbsent
    /\ WrittenIffPresent
    /\ ValidIsStored
    /\ StoredByOne
    /\ InvalidIsTaken

-----------------------------------------------------------------------------
\* The timestamp default keeps the event's other fields and yields a record
\* that may be stored.
LEMMA TimestampedRecord ==
    ASSUME NEW r \in Records, NEW now \in Times
    PROVE  /\ Timestamped(r, now) \in StoredRecords
           /\ Timestamped(r, now) \in Records
           /\ Timestamped(r, now).event_id = r.event_id
BY DEF Timestamped, StoredRecords, Records

\* A stored record is a record, of a known event id.
LEMMA StoredRecordsAreRecords ==
    ASSUME NEW r \in StoredRecords
    PROVE  r # NoRecord /\ r \in Records /\ r.event_id \in EventIds
BY DEF StoredRecords, Records

\* The invariant holds at the start.
LEMMA InitIInv == Init => IInv
BY DEF Init, IInv, TypeOK, ProposedAgainstAbsent, WrittenIffPresent, ValidIsStored,
       StoredByOne, InvalidIsTaken, NoTx, Tx, Statuses

\* Endorsing a proposal preserves the invariant: the contract read version 0.
LEMMA EndorseIInv ==
    ASSUME IInv, NEW t \in TxIds, NEW msp \in Msps, NEW r \in Records, NEW now \in Times,
           LogSecurityEvent(t, msp, r, now)
    PROVE  IInv'
<1> DEFINE tx == [status |-> "endorsed", msp |-> msp, rec |-> Timestamped(r, now),
                  read |-> version[r.event_id]]
<1>1. /\ txs' = [txs EXCEPT ![t] = tx]
      /\ UNCHANGED <<world, version>>
      /\ txs[t].status = "none"
      /\ msp = AuthorizedMsp
      /\ world[r.event_id] = NoRecord
  BY DEF LogSecurityEvent, EventExists
<1>2. /\ r.event_id \in EventIds
      /\ version[r.event_id] = 0
  BY <1>1 DEF IInv, WrittenIffPresent, Records
<1>3. tx \in Tx /\ tx.rec # NoRecord
  BY <1>2, TimestampedRecord, StoredRecordsAreRecords DEF Tx, Statuses
<1>4. txs \in [TxIds -> Tx]
  BY DEF IInv, TypeOK
<1>5. \A u \in TxIds : txs'[u] = IF u = t THEN tx ELSE txs[u]
  BY <1>1, <1>4
<1>6. TypeOK'
  BY <1>1, <1>3, <1>4 DEF IInv, TypeOK
<1>7. ProposedAgainstAbsent'
  BY <1>1, <1>2, <1>3, <1>5 DEF IInv, ProposedAgainstAbsent
<1>8. WrittenIffPresent'
  BY <1>1 DEF IInv, WrittenIffPresent
<1>9. ValidIsStored' /\ InvalidIsTaken'
  BY <1>1, <1>5 DEF IInv, ValidIsStored, InvalidIsTaken
<1>10. StoredByOne'
  <2> SUFFICES ASSUME NEW e \in EventIds, world[e] # NoRecord
               PROVE  \E s \in TxIds :
                        /\ txs'[s].status = "valid"
                        /\ txs'[s].rec = world[e]
                        /\ \A u \in TxIds \ {s} :
                             ~(txs'[u].status = "valid" /\ txs'[u].rec.event_id = e)
    BY <1>1 DEF StoredByOne
  <2>1. PICK s \in TxIds :
            /\ txs[s].status = "valid"
            /\ txs[s].rec = world[e]
            /\ \A u \in TxIds \ {s} : ~(txs[u].status = "valid" /\ txs[u].rec.event_id = e)
    BY DEF IInv, StoredByOne
  <2>2. s # t
    BY <2>1, <1>1
  <2> QED
    BY <2>1, <2>2, <1>5
<1> QED
  BY <1>6, <1>7, <1>8, <1>9, <1>10 DEF IInv

\* A transaction commits as valid only while its id has no record, and then is
\* the one that wrote it.
LEMMA CommitValidIInv ==
    ASSUME IInv, NEW t \in TxIds, CommitValid(t)
    PROVE  /\ IInv'
           /\ world[txs[t].rec.event_id] = NoRecord
           /\ txs[t].rec \in StoredRecords
           /\ txs[t].rec.event_id \in EventIds
<1> DEFINE r == txs[t].rec
           e == txs[t].rec.event_id
<1>1. /\ txs[t].status = "endorsed"
      /\ version[e] = txs[t].read
      /\ world' = [world EXCEPT ![e] = r]
      /\ version' = [version EXCEPT ![e] = @ + 1]
      /\ txs' = [txs EXCEPT ![t].status = "valid"]
  BY DEF CommitValid, ReadSetCurrent
<1>2. /\ txs \in [TxIds -> Tx]
      /\ world \in [EventIds -> StoredRecords \cup {NoRecord}]
      /\ version \in [EventIds -> Nat]
  BY DEF IInv, TypeOK
<1>3. /\ r \in StoredRecords /\ r # NoRecord
      /\ e \in EventIds
      /\ txs[t].read = 0
      /\ txs[t].msp = AuthorizedMsp
  BY <1>1, <1>2, StoredRecordsAreRecords DEF IInv, ProposedAgainstAbsent, Tx
<1>4. world[e] = NoRecord /\ version[e] = 0
  BY <1>1, <1>3 DEF IInv, WrittenIffPresent
<1>5. /\ \A f \in EventIds : world'[f] = IF f = e THEN r ELSE world[f]
      /\ \A f \in EventIds : version'[f] = IF f = e THEN 1 ELSE version[f]
  BY <1>1, <1>2, <1>3, <1>4
<1>6. \A u \in TxIds : /\ txs'[u].rec = txs[u].rec
                       /\ txs'[u].msp = txs[u].msp
                       /\ txs'[u].read = txs[u].read
                       /\ txs'[u].status = IF u = t THEN "valid" ELSE txs[u].status
  BY <1>1, <1>2 DEF Tx
<1>7. \A u \in TxIds : txs[u].status = "valid" => txs[u].rec.event_id # e
  BY <1>3, <1>4 DEF IInv, ValidIsStored, ProposedAgainstAbsent
<1>8. TypeOK'
  <2>1. txs' \in [TxIds -> Tx]
    BY <1>1, <1>2 DEF Tx, Statuses
  <2>2. world' \in [EventIds -> StoredRecords \cup {NoRecord}]
    BY <1>1, <1>2, <1>3
  <2>3. version' \in [EventIds -> Nat]
    BY <1>1, <1>2, <1>3
  <2> QED
    BY <2>1, <2>2, <2>3 DEF TypeOK
<1>9. ProposedAgainstAbsent'
  BY <1>1, <1>6 DEF IInv, ProposedAgainstAbsent
<1>10. WrittenIffPresent'
  BY <1>3, <1>5 DEF IInv, WrittenIffPresent
<1>11. ValidIsStored'
  <2> SUFFICES ASSUME NEW u \in TxIds, txs'[u].status = "valid"
               PROVE  world'[txs'[u].rec.event_id] = txs'[u].rec
    BY DEF ValidIsStored
  <2>1. CASE u = t
    BY <2>1, <1>3, <1>5, <1>6
  <2>2. CASE u # t
    <3>1. txs[u].status = "valid" /\ txs[u].rec.event_id # e
      BY <2>2, <1>6, <1>7
    <3>2. txs[u].rec \in StoredRecords /\ txs[u].rec.event_id \in EventIds
      BY <3>1, <1>2, StoredRecordsAreRecords DEF IInv, ProposedAgainstAbsent, Tx
    <3> QED
      BY <3>1, <3>2, <1>5, <1>6 DEF IInv, ValidIsStored
  <2> QED
    BY <2>1, <2>2
<1>12. StoredByOne'
  <2> SUFFICES ASSUME NEW f \in EventIds, world'[f] # NoRecord
               PROVE  \E s \in TxIds :
                        /\ txs'[s].status = "valid"
                        /\ txs'[s].rec = world'[f]
                        /\ \A u \in TxIds \ {s} :
                             ~(txs'[u].status = "valid" /\ txs'[u].rec.event_id = f)
    BY DEF StoredByOne
  <2>1. CASE f = e
    BY <2>1, <1>3, <1>5, <1>6, <1>7
  <2>2. CASE f # e
    <3>1. world[f] # NoRecord /\ world'[f] = world[f]
      BY <2>2, <1>5
    <3>2. PICK s \in TxIds :
            /\ txs[s].status = "valid"
            /\ txs[s].rec = world[f]
            /\ \A u \in TxIds \ {s} : ~(txs[u].status = "valid" /\ txs[u].rec.event_id = f)
      BY <3>1 DEF IInv, StoredByOne
    <3> QED
      BY <3>1, <3>2, <2>2, <1>1, <1>6
  <2> QED
    BY <2>1, <2>2
<1>13. InvalidIsTaken'
  <2> SUFFICES ASSUME NEW u \in TxIds, txs'[u].status = "invalid"
               PROVE  world'[txs'[u].rec.event_id] # NoRecord
    BY DEF InvalidIsTaken
  <2>1. txs[u].status = "invalid" /\ txs'[u].rec = txs[u].rec
    BY <1>6
  <2>2. txs[u].rec.event_id \in EventIds
    BY <2>1, <1>2, StoredRecordsAreRecords DEF IInv, ProposedAgainstAbsent, Tx
  <2> QED
    BY <2>1, <2>2, <1>3, <1>5 DEF IInv, InvalidIsTaken
<1> QED
  BY <1>3, <1>4, <1>8, <1>9, <1>10, <1>11, <1>12, <1>13 DEF IInv

\* A stale transaction leaves the ledger alone: its id has been written.
LEMMA CommitInvalidIInv ==
    ASSUME IInv, NEW t \in TxIds, CommitInvalid(t)
    PROVE  IInv'
<1>1. /\ txs[t].status = "endorsed"
      /\ version[txs[t].rec.event_id] # txs[t].read
      /\ txs' = [txs EXCEPT ![t].status = "invalid"]
      /\ UNCHANGED <<world, version>>
  BY DEF CommitInvalid, ReadSetCurrent
<1>2. txs \in [TxIds -> Tx]
  BY DEF IInv, TypeOK
<1>3. txs[t].rec.event_id \in EventIds /\ txs[t].read = 0
  BY <1>1, <1>2, StoredRecordsAreRecords DEF IInv, ProposedAgainstAbsent, Tx
<1>4. world[txs[t].rec.event_id] # NoRecord
  BY <1>1, <1>3 DEF IInv, WrittenIffPresent
<1>5. \A u \in TxIds : /\ txs'[u].rec = txs[u].rec
                       /\ txs'[u].msp = txs[u].msp
                       /\ txs'[u].read = txs[u].read
                       /\ txs'[u].status = IF u = t THEN "invalid" ELSE txs[u].status
  BY <1>1, <1>2 DEF Tx
<1>6. TypeOK'
  <2>1. txs' \in [TxIds -> Tx]
    BY <1>1, <1>2 DEF Tx, Statuses
  <2> QED
    BY <2>1, <1>1 DEF IInv, TypeOK
<1>7. ProposedAgainstAbsent'
  BY <1>1, <1>5 DEF IInv, ProposedAgainstAbsent
<1>8. WrittenIffPresent'
  BY <1>1 DEF IInv, WrittenIffPresent
<1>9. ValidIsStored'
  BY <1>1, <1>5 DEF IInv, ValidIsStored
<1>10. InvalidIsTaken'
  BY <1>1, <1>4, <1>5 DEF IInv, InvalidIsTaken
<1>11. StoredByOne'
  BY <1>1, <1>5 DEF IInv, StoredByOne
<1> QED
  BY <1>6, <1>7, <1>8, <1>9, <1>10, <1>11 DEF IInv

\* A step that changes nothing keeps the invariant.
LEMMA StutterIInv == IInv /\ UNCHANGED vars => IInv'
BY DEF IInv, vars, TypeOK, ProposedAgainstAbsent, WrittenIffPresent, ValidIsStored,
       StoredByOne, InvalidIsTaken

\* Every step keeps the invariant.
LEMMA NextIInv == IInv /\ [Next]_vars => IInv'
BY EndorseIInv, CommitValidIInv, CommitInvalidIInv, StutterIInv DEF Next

\* The conjunction above holds in every reachable state.
THEOREM Invariance == Spec => []IInv
BY InitIInv, NextIInv, PTL DEF Spec

-----------------------------------------------------------------------------
(* The properties, as consequences of the invariant.                       *)

\* Records never reach the ledger without a timestamp (security_logger.go's
\* timestamp default), and every variable keeps its type.
THEOREM TypeCorrect == Spec => []TypeOK
<1>1. IInv => TypeOK
  BY DEF IInv
<1> QED
  BY <1>1, Invariance, PTL

\* A valid transaction's record is what its key holds.
LEMMA IInvValidTxKept == IInv => ValidTxKept
<1> SUFFICES ASSUME IInv, NEW t \in TxIds, txs[t].status = "valid"
             PROVE  /\ VerifyEvent(txs[t].rec.event_id) = txs[t].rec
                    /\ txs[t].rec \in QueryEventHistory(txs[t].rec.cloud_asset_id, NoTime, NoTime)
                    /\ txs[t].rec \in QueryEventsBySeverity(txs[t].rec.severity)
  BY DEF ValidTxKept
<1>1. txs[t].rec \in StoredRecords /\ txs[t].rec.event_id \in EventIds
  BY StoredRecordsAreRecords DEF IInv, TypeOK, ProposedAgainstAbsent, Tx
<1>2. world[txs[t].rec.event_id] = txs[t].rec
  BY DEF IInv, ValidIsStored
<1>3. txs[t].rec \in Stored
  BY <1>1, <1>2, StoredRecordsAreRecords DEF Stored
<1> QED
  BY <1>2, <1>3 DEF VerifyEvent, QueryEventHistory, QueryEventsBySeverity, InWindow

\* What the peer reports as committed is on the ledger for ever after, under
\* every query.
THEOREM CommittedIsKept == Spec => []ValidTxKept
BY IInvValidTxKept, Invariance, PTL

\* A transaction that read version 0 is invalid only if its key has a record.
LEMMA IInvInvalidOnlyIfTaken == IInv => InvalidOnlyIfTaken
<1> SUFFICES ASSUME IInv, NEW t \in TxIds, txs[t].status = "invalid"
             PROVE  \E u \in TxIds : /\ txs[u].status = "valid"
                                     /\ txs[u].rec.event_id = txs[t].rec.event_id
  BY DEF InvalidOnlyIfTaken
<1> DEFINE e == txs[t].rec.event_id
<1>1. e \in EventIds
  BY StoredRecordsAreRecords DEF IInv, TypeOK, ProposedAgainstAbsent, Tx
<1>2. world[e] # NoRecord
  BY DEF IInv, InvalidIsTaken
<1>3. PICK u \in TxIds : txs[u].status = "valid" /\ txs[u].rec = world[e]
  BY <1>1, <1>2 DEF IInv, StoredByOne
<1>4. world[e].event_id = e
  BY <1>1, <1>2 DEF IInv, WrittenIffPresent
<1> QED
  BY <1>3, <1>4

\* Validation rejects a transaction only when its event is on the ledger already.
THEOREM RejectionIsDuplicate == Spec => []InvalidOnlyIfTaken
BY IInvInvalidOnlyIfTaken, Invariance, PTL

\* A stored record has one valid writer, which the contract's check let through.
LEMMA IInvProvenance == IInv => Provenance
<1> SUFFICES ASSUME IInv, NEW e \in EventIds, world[e] # NoRecord
             PROVE  \E t \in TxIds :
                      /\ txs[t].status = "valid"
                      /\ txs[t].rec = world[e]
                      /\ txs[t].msp = AuthorizedMsp
                      /\ \A u \in TxIds \ {t} :
                           ~(txs[u].status = "valid" /\ txs[u].rec.event_id = e)
  BY DEF Provenance, EventExists
<1>1. PICK t \in TxIds :
         /\ txs[t].status = "valid"
         /\ txs[t].rec = world[e]
         /\ \A u \in TxIds \ {t} : ~(txs[u].status = "valid" /\ txs[u].rec.event_id = e)
  BY DEF IInv, StoredByOne
<1>2. txs[t].msp = AuthorizedMsp
  BY <1>1 DEF IInv, ProposedAgainstAbsent
<1> QED
  BY <1>1, <1>2

\* Only the authorised organisation's events are on the ledger, each written by
\* exactly one transaction.
THEOREM OnlyAuthorisedWrites == Spec => []Provenance
BY IInvProvenance, Invariance, PTL

-----------------------------------------------------------------------------
\* A step leaves the world state as it is or records an event under a free id.
LEMMA StepAppendsOrStutters ==
    IInv /\ [Next]_vars => [Trail!Next]_world
<1> SUFFICES ASSUME IInv, [Next]_vars
             PROVE  Trail!Next \/ UNCHANGED world
  OBVIOUS
<1>1. ASSUME NEW t \in TxIds, NEW msp \in Msps, NEW r \in Records, NEW now \in Times,
             LogSecurityEvent(t, msp, r, now)
      PROVE  UNCHANGED world
  BY <1>1 DEF LogSecurityEvent
<1>2. ASSUME NEW t \in TxIds, CommitValid(t)
      PROVE  Trail!Next
  <2>1. /\ world[txs[t].rec.event_id] = NoRecord
        /\ txs[t].rec \in StoredRecords
        /\ txs[t].rec.event_id \in EventIds
    BY <1>2, CommitValidIInv
  <2>2. world' = [world EXCEPT ![txs[t].rec.event_id] = txs[t].rec]
    BY <1>2 DEF CommitValid
  <2>3. world'[txs[t].rec.event_id] = txs[t].rec
    BY <2>1, <2>2 DEF IInv, TypeOK
  <2> QED
    BY <2>1, <2>2, <2>3 DEF Trail!Next, Trail!Append
<1>3. ASSUME NEW t \in TxIds, CommitInvalid(t)
      PROVE  UNCHANGED world
  BY <1>3 DEF CommitInvalid
<1>4. CASE UNCHANGED vars
  BY <1>4 DEF vars
<1> QED
  BY <1>1, <1>2, <1>3, <1>4 DEF Next

\* The chaincode on Fabric implements the append-only trail: endorsements that
\* race past EventExists never yield a second entry or change one.
THEOREM Refinement == Spec => ImplementsTrail
<1>1. Init => Trail!Init
  BY DEF Init, Trail!Init
<1> QED
  BY <1>1, StepAppendsOrStutters, Invariance, PTL DEF Spec, ImplementsTrail, Trail!Spec

\* No step takes a record from a history query.
LEMMA StepKeepsHistory ==
    ASSUME IInv, [Next]_vars, NEW a \in Assets,
           NEW from \in Times \cup {NoTime}, NEW to \in Times \cup {NoTime}
    PROVE  QueryEventHistory(a, from, to) \subseteq QueryEventHistory(a, from, to)'
<1>1. CASE UNCHANGED world
  BY <1>1 DEF QueryEventHistory, Stored, InWindow
<1>2. CASE Trail!Next
  <2>1. PICK e \in EventIds :
            /\ world[e] = NoRecord
            /\ world' = [world EXCEPT ![e] = world'[e]]
    BY <1>2 DEF Trail!Next, Trail!Append
  <2>2. \A f \in EventIds : world[f] # NoRecord => world'[f] = world[f]
    BY <2>1 DEF IInv, TypeOK
  <2>3. Stored \subseteq Stored'
    BY <2>2 DEF Stored
  <2> QED
    BY <2>3 DEF QueryEventHistory, InWindow
<1> QED
  BY <1>1, <1>2, StepAppendsOrStutters

\* Audit queries are stable: repeating one never loses a record.
THEOREM HistoryStable == Spec => HistoryNeverShrinks
<1>1. IInv /\ [Next]_vars =>
        \A a \in Assets, from, to \in Times \cup {NoTime} :
          QueryEventHistory(a, from, to) \subseteq QueryEventHistory(a, from, to)'
  BY StepKeepsHistory
<1>2. IInv /\ [Next]_vars =>
        [\A a \in Assets, from, to \in Times \cup {NoTime} :
          QueryEventHistory(a, from, to) \subseteq QueryEventHistory(a, from, to)']_vars
  BY <1>1
<1> QED
  BY <1>2, Invariance, PTL DEF Spec, HistoryNeverShrinks
=============================================================================

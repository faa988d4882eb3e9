---------------------------- MODULE AuditLedger ----------------------------
(***************************************************************************)
(* What the system promises its auditors, whatever the machinery below:    *)
(* an audit trail in which an event id is given at most one entry, and an  *)
(* entry, once there, never changes and never disappears.  SecurityLogger  *)
(* (the chaincode on Fabric) implements it.                                *)
(***************************************************************************)
CONSTANTS EventIds,   \* the ids an event may carry
          Entries,    \* what may be recorded for an event
          NoEntry     \* "nothing recorded under this id"

VARIABLE ledger       \* [EventIds -> Entries \cup {NoEntry}]

Init == ledger = [e \in EventIds |-> NoEntry]

\* An entry is recorded under an id that has none.
Append(e, entry) ==
    /\ ledger[e] = NoEntry
    /\ ledger' = [ledger EXCEPT ![e] = entry]

\* The entry is read off the next state; quantifying over Entries would say the
\* same.
Next == \E e \in EventIds : ledger'[e] \in Entries /\ Append(e, ledger'[e])

Spec == Init /\ [][Next]_ledger
=============================================================================

------------------------- MODULE MCBlockchainLogger -------------------------
(* Values for BlockchainLogger's constants; the runs differ in their .cfg. *)
EXTENDS BlockchainLogger, TLC

CONSTANTS e1, e2, a1, a2, w1, w2

MCWorkers == {w1, w2}

MCSeverities == {"HIGH", "LOW"}

Event(e, a, s, category) ==
    [event_id |-> e, asset_id |-> a, severity |-> s, attack_category |-> category]

\* Two detectors' events under one id, and one the logger's schema refuses.
MCMessages ==
    {Event(e1, a1, "HIGH", "PortScan"),
     Event(e1, a2, "LOW", "PortScan"),
     Event(e2, a1, "INFO", "PortScan")}

\* Two good events.
MCGoodMessages ==
    {Event(e1, a1, "HIGH", "PortScan"), Event(e2, a1, "LOW", "PortScan")}

\* The functions of chaincode/security_logger.go, and a contract that offers
\* LogEvent as well.
RepositoryContract ==
    {"LogSecurityEvent", "VerifyEvent", "QueryEventHistory",
     "QueryEventsBySeverity", "EventExists"}

ContractWithLogEvent == RepositoryContract \cup {"LogEvent"}

WorkerSymmetry == Permutations(MCWorkers)
=============================================================================

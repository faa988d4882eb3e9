----------------------------- MODULE MCAuditApi -----------------------------
(* Values for AuditApi's constants.                                        *)
EXTENDS AuditApi, TLC

CONSTANTS a1, MCEvents

\* All of one asset; two of one severity, two with one timestamp, and one logged
\* without the agent's identity.
MCRecord(e) ==
    [event_id |-> e, cloud_asset_id |-> a1,
     severity |-> IF e = 1 THEN "LOW" ELSE "HIGH",
     timestamp |-> IF e = 3 THEN 2 ELSE e,
     payload |-> [ipfs_cid |-> e, agent_identity |-> e # 1]]

MCRecords == {MCRecord(e) : e \in MCEvents}

MCIndexKeys == {<<"asset", a1>>} \cup ({"severity"} \X {"CRITICAL", "HIGH", "MEDIUM", "LOW"})

\* The day of the later two.
MCWindows == {<<2, 2>>}
=============================================================================

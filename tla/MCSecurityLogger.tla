-------------------------- MODULE MCSecurityLogger --------------------------
(* Two ids, two assets and severities, three transactions, two times; an id is chosen by
   the client, so one id may come with different assets and severities.    *)
EXTENDS SecurityLogger, TLC

CONSTANTS e1, e2, a1, a2, org1, org2, t1, t2, t3, p1

MCEventIds == {e1, e2}
MCAssets == {a1, a2}
MCSeverities == {"HIGH", "LOW"}
MCTimes == 1..2
MCTxIds == {t1, t2, t3}
MCMsps == {org1, org2}

MCPayloads == {p1}

Symmetry == Permutations(MCTxIds)
=============================================================================

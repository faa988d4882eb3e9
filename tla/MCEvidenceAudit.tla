--------------------------- MODULE MCEvidenceAudit ---------------------------
(* EvidenceAudit's constants are given in the .cfg.                        *)
EXTENDS EvidenceAudit, TLC
=============================================================================

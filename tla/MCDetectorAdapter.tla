-------------------------- MODULE MCDetectorAdapter --------------------------
(* DetectorAdapter takes numbers and strings only, given in the .cfg.      *)
EXTENDS DetectorAdapter, TLC
=============================================================================

----------------------------- MODULE MCLiveRun ------------------------------
(* LiveRun takes numbers and strings only; its runs give them in .cfg.     *)
EXTENDS LiveRun, TLC
=============================================================================

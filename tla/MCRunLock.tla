----------------------------- MODULE MCRunLock -----------------------------
(* Three processes: a holder and two that find it dead or stale.            *)
EXTENDS RunLock
=============================================================================

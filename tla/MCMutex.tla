------------------------------ MODULE MCMutex ------------------------------
(* Four threads of different priorities on one mutex. *)
EXTENDS Mutex, TLC

CONSTANTS t1, t2, t3, t4

MCThreads == {t1, t2, t3, t4}
MCPriority == t1 :> 200 @@ t2 :> 120 @@ t3 :> 56 @@ t4 :> 70
MCMasked == {t4}
=============================================================================

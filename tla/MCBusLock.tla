----------------------------- MODULE MCBusLock -----------------------------
(* Three tasks, so that one waits while one holds and one has run out.     *)
EXTENDS BusLock
=============================================================================

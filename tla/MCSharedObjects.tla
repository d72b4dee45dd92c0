-------------------------- MODULE MCSharedObjects --------------------------
(* Two senders and two receivers contend for a ring shorter than their     *)
(* number, so that it fills, drains and wraps around; two tasks use two    *)
(* flags, and a wait looks once or twice; two tasks share a bus.           *)
EXTENDS SharedObjects
=============================================================================

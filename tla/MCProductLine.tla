---------------------------- MODULE MCProductLine ----------------------------
(* The device is built for each of the products in turn.                   *)
EXTENDS ProductLine
=============================================================================

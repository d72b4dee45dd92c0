------------------------------ MODULE MCUpdate ------------------------------
(* Two ota tasks at once, which is one more than iot_ota_start means to    *)
(* allow, and the watchdog's 10 s in ticks of 2 s.                         *)
EXTENDS Update
=============================================================================

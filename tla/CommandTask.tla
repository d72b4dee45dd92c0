---------------------------- MODULE CommandTask ----------------------------
(***************************************************************************)
(* How the products' use cases run (components/iot_usecases/src): the      *)
(* sensor task calls the one that takes a sample, the command task, through *)
(* iot_services_handle_command, iot_uc_dispatch_command and iot_uc_run, the *)
(* one a message names.  Both use the product's variables without a lock.  *)
(*                                                                         *)
(* The chip has one core (CONFIG_FREERTOS_UNICORE) and the sensor task the *)
(* higher priority: a sample is one step for the command task, while a     *)
(* command is many steps, between any two of which a sample may be taken.  *)
(* todo holds what is left of the command: statements [op, v], each with   *)
(* the value it stores.  A message that fails validation, or names no use  *)
(* case, changes nothing and is not among the commands.                    *)
(***************************************************************************)
EXTENDS Sequences

VARIABLE todo

Do(op, v) == <<[op |-> op, v |-> v]>>

\* No command is at work: cmd_task waits for its queue.
Idle == todo = <<>>

\* cmd_task takes the next message; scripts are those of the product's use cases.
Take(scripts) == Idle /\ todo' \in scripts

\* The statement that is due.
Due(op) == ~Idle /\ Head(todo).op = op
Value == Head(todo).v
Done == todo' = Tail(todo)

\* A statement that stores its value in var, and one that decides which statements follow.
Store(op, var) == Due(op) /\ Done /\ var' = Value
Look(op, stores) == Due(op) /\ todo' = stores \o Tail(todo)
=============================================================================

-------------------------------- MODULE RtIpc --------------------------------
(***************************************************************************)
(* The RT-Thread kernel objects the firmware threads and interrupt         *)
(* handlers share: counting semaphores and bounded message queues          *)
(* (rt-thread/src/ipc.c).  Each operation runs under the object's spin     *)
(* lock with interrupts off, so it is one atomic step; only its effect on  *)
(* the object's value is kept.                                             *)
(*                                                                         *)
(* Handing a token straight to a suspended thread (rt_susp_list_dequeue)   *)
(* is modelled as incrementing the value and letting the waiter take it:   *)
(* every semaphore of the transport has a single taker, so the two cannot  *)
(* be told apart.                                                          *)
(***************************************************************************)
EXTENDS Naturals, Sequences

CONSTANT SemMax     \* sem->max_value (65535 on the target)

ASSUME SemMaxAssumption == SemMax \in Nat \ {0}

SemValue == 0 .. SemMax

\* rt_sem_release: a full semaphore keeps its value and reports -RT_EFULL,
\* which every caller in the firmware ignores.
SemRelease(v) == IF v < SemMax THEN v + 1 ELSE v

\* rt_sem_take(RT_WAITING_NO): the value afterwards, whether or not a token
\* was there to take.
SemTryTake(v) == IF v > 0 THEN v - 1 ELSE v

\* rt_mq_send_wait(timeout 0) succeeds exactly when a free message is left.
MqHasRoom(q, depth) == Len(q) < depth
==============================================================================

----------------------------- MODULE MCSemaphore -----------------------------
(***************************************************************************)
(* Model checking of Semaphore: three tasks and up to two tokens.          *)
(***************************************************************************)
EXTENDS Semaphore

CONSTANTS t1, t2, t3, sem
===============================================================================

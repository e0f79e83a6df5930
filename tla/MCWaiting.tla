----------------------------- MODULE MCWaiting -----------------------------
(* Waiting with two processes, both of which read both devices, and one    *)
(* queue.                                                                  *)
EXTENDS Waiting

CONSTANTS one, two
=============================================================================

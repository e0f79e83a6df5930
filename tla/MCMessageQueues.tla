-------------------------- MODULE MCMessageQueues --------------------------
(* MessageQueues with two processes that open and close queues of three    *)
(* names, with two slots and two files for them: either queue may leave a  *)
(* hole in the tables, and each process can want the end the other has.    *)
(* The first process has one descriptor only: its second open is undone.   *)
EXTENDS MessageQueues, TLC

CONSTANTS m, n, o

OneAndTwo == <<1, 2>>
Names     == {m, n, o}
Symmetric == Permutations(Names)
=============================================================================

---------------------------- MODULE MCScheduler ----------------------------
(* Scheduler with three nodes for four processes, so that nodes and PCB    *)
(* entries run out and are used again.                                     *)
EXTENDS Scheduler

(* Between reading last and following it, or between reading aux and the   *)
(* last store of enqueueProcess, a tick changes the last just read.        *)
LinkWindow  == {"link2", "link3", "link4"}
DerefWindow == {"exit2", "wait2", "walk2"}

OutsideWindows == Point \ (LinkWindow \cup DerefWindow)
=============================================================================

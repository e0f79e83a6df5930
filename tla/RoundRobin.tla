----------------------------- MODULE RoundRobin -----------------------------
(***************************************************************************)
(* What the scheduler promises: the processes wait for the CPU in a queue. *)
(* Its head has the CPU; a switch sends the head to the back; a new process*)
(* joins at the back; and a process that finishes goes to the back once    *)
(* more and leaves when its turn comes, never to run again.                *)
(***************************************************************************)
EXTENDS Naturals, Sequences

CONSTANT Pid

VARIABLES queue,     \* the pids of the processes, the one with the CPU first
          finished   \* those among them that have finished

vars == <<queue, finished>>

InQueue(p) == \E i \in 1..Len(queue) : queue[i] = p

Init == \E p \in Pid : queue = <<p>> /\ finished = {}

Spawn(p) == /\ ~InQueue(p)
            /\ queue' = Append(queue, p)
            /\ UNCHANGED finished

ToBack == queue # <<>> /\ queue' = Append(Tail(queue), Head(queue))

Switch == ToBack /\ UNCHANGED finished

Finish == ToBack /\ finished' = finished \cup {Head(queue)}

Leave == /\ queue # <<>> /\ Head(queue) \in finished
         /\ queue' = Tail(queue)
         /\ finished' = finished \ {Head(queue)}

Next == Finish \/ Switch \/ Leave \/ \E p \in Pid : Spawn(p)

Spec == Init /\ [][Next]_vars
=============================================================================

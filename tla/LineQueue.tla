----------------------------- MODULE LineQueue -----------------------------
(***************************************************************************)
(* What the standard input promises to the process that reads it: what is  *)
(* typed comes in that order, once each, but only once there is the end of *)
(* a line to read up to.  The queue that fills up ends a line: otherwise   *)
(* it could never be read.  A backspace takes back what was typed first    *)
(* (that is what the code does).                                           *)
(***************************************************************************)
EXTENDS Naturals, Sequences

CONSTANTS Character, Newline, Capacity

VARIABLES queue,  \* the characters typed and not yet read, oldest first
          taken   \* the character that was read last

vars == <<queue, taken>>

HasLine == \E i \in 1..Len(queue) : queue[i] = Newline

Init == queue = <<>>

Type(c) == /\ Len(queue) < Capacity
           /\ queue' = Append(queue, IF Len(queue) + 1 = Capacity THEN Newline ELSE c)
           /\ UNCHANGED taken

Erase == queue # <<>> /\ queue' = Tail(queue) /\ UNCHANGED taken

Take == HasLine /\ taken' = Head(queue) /\ queue' = Tail(queue)

Next == Erase \/ Take \/ \E c \in Character : Type(c)

Spec == Init /\ [][Next]_vars
=============================================================================

------------------------------ MODULE Terminal ------------------------------
(***************************************************************************)
(* The output of the terminal (tty.c): the buffers of the standard output  *)
(* and error, which every process may write to and any newline flushes to  *)
(* the screen, and the echo of the keys.                                   *)
(*                                                                         *)
(* Processes are switched between any two steps, except at the program     *)
(* points not in TickPoints; keys come between any two steps, except when  *)
(* a process is at a point not in KeyPoints.                               *)
(***************************************************************************)
EXTENDS Screen, FiniteSets

CONSTANTS
  Writer,       \* bound: the processes that print
  Text,         \* bound: what they print, as sequences of characters
  Key,          \* bound: the keys typed
  BufferSize,   \* STDOUT_BUFFER_SIZE and STDERR_BUFFER_SIZE
  MaxCalls,     \* bound: calls
  MaxKeys,      \* bound: keys typed
  TickPoints, KeyPoints

(* What programs print.                                                    *)
ProgramChars == UNION {{text[i] : i \in DOMAIN text} : text \in UNION {Text[p] : p \in Writer}}

Points == {"user", "test", "put", "flush", "drain"}

ASSUME TerminalAssumption ==
  /\ BufferSize \in Nat \ {0} /\ MaxCalls \in Nat /\ MaxKeys \in Nat
  /\ TickPoints \subseteq Points /\ KeyPoints \subseteq Points
  /\ \A p \in Writer : Text[p] \subseteq Seq(ProgramChars) \ {<<>>}

VARIABLES
  screen, page,      \* the screen, and the page it should show
  ring,              \* stdoutBuffer and stderrBuffer, with sizes and indices
  backSpaceLimit,
  pc, call,          \* the system call each process is in, and its locals
  calls, keys,       \* bounds
  owed               \* history: what each buffer took and was not printed yet

shown   == <<screen, page>>
vars    == <<shown, ring, backSpaceLimit, pc, call, calls, keys, owed>>

Device == {"STDOUT", "STDERR"}
NoCall == [file |-> "STDOUT", left |-> <<>>]

Init ==
  /\ screen = BlankScreen /\ page = NewPage
  /\ ring = [d \in Device |-> [buffer |-> [i \in 0..(BufferSize - 1) |-> Blank],
                               size |-> 0, enq |-> 0, deq |-> 0]]
  /\ backSpaceLimit = 0
  /\ pc = [p \in Writer |-> "user"] /\ call = [p \in Writer |-> NoCall]
  /\ calls = 0 /\ keys = 0
  /\ owed = [d \in Device |-> <<>>]

MayRun(p)       == \A q \in Writer \ {p} : pc[q] \in TickPoints
Goto(p, point)  == pc' = [pc EXCEPT ![p] = point]

PrintChar(c) ==
  /\ screen' = ncPrintChar(screen, c)
  /\ page' = PagePrint(page, c, screen, screen')

-----------------------------------------------------------------------------
(* The buffers.                                                            *)
Next1(i)   == IF i + 1 = BufferSize THEN 0 ELSE i + 1
isFullOneShort(d) == ring[d].size >= BufferSize - 1       \* mutant: off by one
isFull(d)  == ring[d].size = BufferSize
isEmpty(d) == ring[d].size = 0

(* The indices and the size of a buffer after each operation.              *)
Stored(r, c) == [r EXCEPT !.buffer[r.enq] = c, !.enq = Next1(@), !.size = @ + 1]
Popped(r)    == [r EXCEPT !.enq = IF @ = 0 THEN BufferSize - 1 ELSE @ - 1]
Taken(r)     == [r EXCEPT !.size = @ - 1, !.deq = Next1(@)]

(* Mutant: who has asked IS_FULL needs not be asked again.                 *)
EnqueueCharUnchecked(d, c) ==
  /\ ring' = [ring EXCEPT ![d] = Stored(@, c)]
  /\ owed' = [owed EXCEPT ![d] = Append(@, c)]

EnqueueChar(d, c) ==
  IF isFull(d) THEN UNCHANGED <<ring, owed>>
  ELSE /\ ring' = [ring EXCEPT ![d] = Stored(@, c)]
       /\ owed' = [owed EXCEPT ![d] = Append(@, c)]

(* stdoutPopChar moves the index back, and leaves the size as it is.       *)
PopChar(d) ==
  IF isEmpty(d) THEN UNCHANGED <<ring, owed>>
  ELSE /\ ring' = [ring EXCEPT ![d] = Popped(@)]
       /\ owed' = [owed EXCEPT ![d] = SubSeq(@, 1, Len(@) - 1)]

DequeueChar(d) ==
  IF isEmpty(d) THEN UNCHANGED <<ring, owed>>
  ELSE /\ ring' = [ring EXCEPT ![d] = Taken(@)]
       /\ owed' = [owed EXCEPT ![d] = Tail(@)]

-----------------------------------------------------------------------------
(* write(fd, text, length): waitForOutput, a character at a time.          *)
CallWrite(p, d, text) ==
  /\ pc[p] = "user" /\ calls < MaxCalls /\ MayRun(p)
  /\ calls' = calls + 1
  /\ call' = [call EXCEPT ![p] = [file |-> d, left |-> text]]
  /\ Goto(p, "test")
  /\ UNCHANGED <<shown, ring, backSpaceLimit, keys, owed>>

(* IS_FULL: yield ...                                                      *)
Yield(p) == pc[p] = "test" /\ MayRun(p) /\ isFull(call[p].file) /\ UNCHANGED vars

(* ... until it is not.                                                    *)
TestFull(p) ==
  /\ pc[p] = "test" /\ MayRun(p)
  /\ ~isFull(call[p].file)
  /\ Goto(p, "put")
  /\ UNCHANGED <<shown, ring, backSpaceLimit, call, calls, keys, owed>>

(* After a character: on with the next one, if any and if it went well.    *)
Continue(p, left) ==
  /\ call' = [call EXCEPT ![p].left = left]
  /\ Goto(p, IF left = <<>> THEN "user" ELSE "test")

(* ttySTDOUTPrint, ttySTDERRPrint.                                         *)
Put(p) ==
  LET d == call[p].file
      c == Head(call[p].left)
      taken == IF c = Backspace THEN ~isEmpty(d) ELSE ~isFull(d)
      left  == IF taken THEN Tail(call[p].left) ELSE <<>>
  IN /\ pc[p] = "put" /\ MayRun(p)
     /\ IF c = Backspace THEN PopChar(d) ELSE EnqueueChar(d, c)
     /\ IF c = Newline THEN call' = [call EXCEPT ![p].left = left] /\ Goto(p, "flush")
                       ELSE Continue(p, left)
     /\ UNCHANGED <<shown, backSpaceLimit, calls, keys>>

(* STDOUT_FFLUSH and STDERR_FFLUSH.                                        *)
CallFlush(p, d) ==
  /\ pc[p] = "user" /\ calls < MaxCalls /\ MayRun(p)
  /\ calls' = calls + 1
  /\ call' = [call EXCEPT ![p] = [file |-> d, left |-> <<>>]]
  /\ Goto(p, "flush")
  /\ UNCHANGED <<shown, ring, backSpaceLimit, keys, owed>>

(* Mutant: stdoutFFlush without its last line.                             *)
FlushEndKeepsLimit(p) ==
  /\ pc[p] = "flush" /\ MayRun(p) /\ isEmpty(call[p].file)
  /\ Continue(p, call[p].left)
  /\ UNCHANGED <<shown, ring, backSpaceLimit, calls, keys, owed>>

(* The loop of stdoutFFlush ends ...                                       *)
FlushEnd(p) ==
  /\ pc[p] = "flush" /\ MayRun(p) /\ isEmpty(call[p].file)
  /\ backSpaceLimit' = 0
  /\ Continue(p, call[p].left)
  /\ UNCHANGED <<shown, ring, calls, keys, owed>>

(* ... or goes round, ...                                                  *)
FlushTest(p) ==
  /\ pc[p] = "flush" /\ MayRun(p) /\ ~isEmpty(call[p].file)
  /\ Goto(p, "drain")
  /\ UNCHANGED <<shown, ring, backSpaceLimit, call, calls, keys, owed>>

(* ... and prints a character: whatever -1 looks like, if meanwhile the    *)
(* buffer has been emptied by someone else.                                *)
Drain(p) ==
  LET d == call[p].file
      c == IF isEmpty(d) THEN "garbage" ELSE ring[d].buffer[ring[d].deq]
  IN /\ pc[p] = "drain" /\ MayRun(p)
     /\ DequeueChar(d)
     /\ PrintChar(c)
     /\ Goto(p, "flush")
     /\ UNCHANGED <<backSpaceLimit, call, calls, keys>>

-----------------------------------------------------------------------------
(* SYSCLEAR; SCROLL.                                                       *)
Clear(p) ==
  /\ pc[p] = "user" /\ calls < MaxCalls /\ MayRun(p)
  /\ calls' = calls + 1
  /\ screen' = ncClear /\ page' = NewPage
  /\ UNCHANGED <<ring, backSpaceLimit, pc, call, keys, owed>>

Scroll(p) ==
  /\ pc[p] = "user" /\ calls < MaxCalls /\ MayRun(p)
  /\ calls' = calls + 1
  /\ screen' = ncScrollLines(screen, 1) /\ page' = PageOf(screen')
  /\ UNCHANGED <<ring, backSpaceLimit, pc, call, keys, owed>>

-----------------------------------------------------------------------------
(* ttyKBDPrintChar, the echo, in the handler of the keyboard: a backspace  *)
(* is echoed as long as there are echoed characters to erase.              *)
Echo(c) ==
  /\ keys < MaxKeys /\ \A p \in Writer : pc[p] \in KeyPoints
  /\ keys' = keys + 1
  /\ IF c = Backspace /\ backSpaceLimit = 0 THEN UNCHANGED <<shown, backSpaceLimit>>
     ELSE /\ PrintChar(c)
          /\ backSpaceLimit' = CASE c = Newline   -> 0
                                 [] c = Backspace -> backSpaceLimit - 1
                                 [] OTHER         -> backSpaceLimit + 1
  /\ UNCHANGED <<ring, pc, call, calls, owed>>

-----------------------------------------------------------------------------
InCall(p) == TestFull(p) \/ Put(p) \/ FlushEnd(p) \/ FlushTest(p) \/ Drain(p)

Calls(p) == \/ \E d \in Device, text \in Text[p] : CallWrite(p, d, text)
            \/ \E d \in Device : CallFlush(p, d)
            \/ Clear(p) \/ Scroll(p)

Done == (\A p \in Writer : pc[p] = "user") /\ calls = MaxCalls /\ keys = MaxKeys /\ UNCHANGED vars

Next == (\E p \in Writer : InCall(p) \/ Yield(p) \/ Calls(p)) \/ (\E c \in Key : Echo(c)) \/ Done

Spec == Init /\ [][Next]_vars

(* The scheduler gives every process its turns, again and again, and at    *)
(* every point where it is switched away from another.                     *)
FairSpec == Spec /\ \A p \in Writer : SF_vars(InCall(p))

-----------------------------------------------------------------------------
(* The screen shows the end of what was printed and typed, laid out in     *)
(* rows: nothing is lost, doubled or mixed up by wrapping, by scrolling    *)
(* two rows at a time, or by erasing across rows; and what is printed next *)
(* does not run into old text.                                             *)
ScreenIsTail == Shows(screen, page) /\ BlankAfterCursor(screen)

(* What the buffers took is what is printed, once and in order, whoever    *)
(* writes and whoever flushes: nobody prints a character that is not there.*)
Contents(d) == [i \in 1..ring[d].size |-> ring[d].buffer[(ring[d].deq + i - 1) % BufferSize]]
OutputIsFIFO ==
  \A d \in Device : /\ Contents(d) = owed[d]
                    /\ \A p \in Writer : pc[p] = "drain" /\ call[p].file = d => owed[d] # <<>>

(* A key takes away what was typed, never what a program printed: a cell   *)
(* of a program's keeps its character, unless the screen scrolls.          *)
CursorMovesBack == \/ screen'.row = screen.row /\ screen'.col < screen.col
                   \/ screen'.row < screen.row /\ screen'.col = Columns - 1
BackspaceSparesOutput ==
  [][keys' # keys /\ CursorMovesBack =>
       \A r \in 0..(Rows - 1), c \in 0..(Columns - 1) :
         screen.cell[r][c] \in ProgramChars => screen'.cell[r][c] = screen.cell[r][c]]_vars

(* As long as a buffer has room for the unfinished line of every process,  *)
(* and one character more, nobody waits for room for ever.                 *)
WritersFinish == \A p \in Writer : pc[p] # "user" ~> pc[p] = "user"
=============================================================================

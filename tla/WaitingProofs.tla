--------------------------- MODULE WaitingProofs ---------------------------
(* What a system call that waits may rely on, for every number of          *)
(* processes, files and queues, and however often and late the others run. *)
EXTENDS Waiting, WellFoundedInduction, FiniteSetTheorems, TLAPS

(* The locals of read and write; what character was read does not matter.  *)
IsIO(c) == c \in [op : {"READ", "WRITE"}, fd : Int, done : Nat,
                   wanted : {c.wanted}, blocking : {c.blocking}, got : {c.got}]

Sleeps == [ms : Nat, start : Nat, elapsed : Int]

LocalsOK ==
  /\ io = [p \in Proc |-> io[p]] /\ \A p \in Proc : IsIO(io[p])
  /\ pause \in [Proc -> Sleeps] /\ tickCount \in Nat
  /\ pc \in [Proc -> {"user", "test", "move", "return", "asleep"}]
  /\ fds = [p \in Proc |-> fds[p]]

(* The loop has measured no more time than has gone by.                    *)
Measured == \A p \in Proc : pc[p] = "asleep" => pause[p].start + pause[p].elapsed <= tickCount

(* hasPermissions, of a call c and the table of files row of its process.  *)
Flags(row, c)  == IF c.fd < MaxFiles THEN row[c.fd].flags ELSE {}
Allows(row, c) == (IF c.op = "READ" THEN "F_READ" ELSE "F_WRITE") \in Flags(row, c)

(* A call that has moved a byte has the permission for it, and keeps it: a *)
(* process cannot change its table of files while it is in a call.         *)
Fair(point, row, c) == /\ point \in {"user", "asleep"} => c.done = 0
                       /\ c.done > 0 => Allows(row, c)
Permitted == \A p \in Proc : Fair(pc[p], fds[p], io[p])

IInv == LocalsOK /\ Measured /\ Permitted

-----------------------------------------------------------------------------
(* A process that calls nothing has well-typed locals all the same.        *)
LEMMA Nothing == IsIO(NoIO) /\ NoPause \in Sleeps /\ NoIO.done = 0
BY DEF NoIO, NoPause, IsIO, Sleeps, Char

(* At the start nobody is in a call.                                       *)
LEMMA InitEstablishes == Init => IInv
<1> SUFFICES ASSUME Init PROVE IInv
  OBVIOUS
<1>1. LocalsOK
  BY Nothing DEF Init, LocalsOK
<1>2. Measured
  BY DEF Init, Measured
<1>3. Permitted
  BY Nothing DEF Init, Permitted, Fair
<1> QED BY <1>1, <1>2, <1>3 DEF IInv

(* Allows is hasPermissions.                                               *)
LEMMA AllowsIsPermission ==
  ASSUME LocalsOK, NEW p \in Proc
  PROVE  hasPermissions(p, io[p].fd, io[p].op) <=> Allows(fds[p], io[p])
<1>1. io[p].op \in {"READ", "WRITE"}
  BY DEF LocalsOK, IsIO
<1>2. CASE io[p].op = "READ"
  BY <1>2 DEF hasPermissions, Allows, Flags, EntryAt, Beyond
<1>3. CASE io[p].op = "WRITE"
  BY <1>3 DEF hasPermissions, Allows, Flags, EntryAt, Beyond
<1> QED BY <1>1, <1>2, <1>3

(* A step of p inside a call of read or write, to point x with locals c.   *)
LEMMA CallStep ==
  ASSUME IInv, NEW p \in Proc, NEW x \in {"user", "test", "move", "return"}, Goto(p, x),
         NEW c, IsIO(c), io' = [io EXCEPT ![p] = c], Fair(x, fds[p], c),
         UNCHANGED <<fds, tickCount, pause>>
  PROVE  IInv'
<1>1. \A q \in Proc : /\ pc'[q] = IF q = p THEN x ELSE pc[q]
                      /\ io'[q] = IF q = p THEN c ELSE io[q]
  BY DEF IInv, LocalsOK, Goto
<1>2. LocalsOK'
  BY DEF IInv, LocalsOK, Goto
<1>3. Measured'
  BY <1>1 DEF IInv, Measured
<1>4. Permitted'
  BY <1>1 DEF IInv, Permitted
<1> QED BY <1>2, <1>3, <1>4 DEF IInv

(* A step of a sleeping process, or of one that goes to sleep or wakes up. *)
LEMMA SleepStep ==
  ASSUME IInv, NEW p \in Proc, NEW x \in {"user", "asleep"}, pc' = [pc EXCEPT ![p] = x],
         NEW s \in Sleeps, pause' = [pause EXCEPT ![p] = s], pc[p] \in {"user", "asleep"},
         x = "asleep" => s.start + s.elapsed <= tickCount,
         UNCHANGED <<fds, tickCount, io>>
  PROVE  IInv'
<1>1. \A q \in Proc : /\ pc'[q] = IF q = p THEN x ELSE pc[q]
                      /\ pause'[q] = IF q = p THEN s ELSE pause[q]
  BY DEF IInv, LocalsOK
<1>2. LocalsOK'
  BY DEF IInv, LocalsOK
<1>3. Measured'
  BY <1>1 DEF IInv, Measured
<1>4. Permitted'
  <2>1. \A q \in Proc : Fair(pc[q], fds[q], io[q]) /\ io[q].done \in Nat
    BY DEF IInv, Permitted, LocalsOK, IsIO
  <2>2. \A q \in Proc : Fair(pc'[q], fds[q], io[q])
    BY <1>1, <2>1 DEF Fair
  <2> QED BY <2>2 DEF Permitted
<1> QED BY <1>2, <1>3, <1>4 DEF IInv

(* A process that is not in a call may change its table of files.          *)
LEMMA TableStep ==
  ASSUME IInv, NEW p \in Proc, pc[p] = "user", fds' = [q \in Proc |-> fds'[q]],
         \A q \in Proc : q # p => fds'[q] = fds[q],
         UNCHANGED <<pc, io, pause, tickCount>>
  PROVE  IInv'
<1>1. LocalsOK' /\ Measured'
  BY DEF IInv, LocalsOK, Measured
<1>2. \A q \in Proc : Fair(pc[q], fds[q], io[q]) /\ io[q].done \in Nat
  BY DEF IInv, Permitted, LocalsOK, IsIO
<1>3. \A q \in Proc : Fair(pc[q], fds'[q], io[q])
  BY <1>2 DEF Fair
<1>4. Permitted'
  BY <1>3 DEF Permitted
<1> QED BY <1>1, <1>4 DEF IInv

(* A step that leaves all of this alone, but that time may go by.          *)
LEMMA OtherStep ==
  ASSUME IInv, UNCHANGED <<fds, pc, io, pause>>, tickCount' \in {tickCount, tickCount + 1}
  PROVE  IInv'
<1>1. LocalsOK'
  BY DEF IInv, LocalsOK
<1>2. Measured'
  BY DEF IInv, Measured, LocalsOK, Sleeps
<1>3. Permitted'
  BY DEF IInv, Permitted
<1> QED BY <1>1, <1>2, <1>3 DEF IInv

-----------------------------------------------------------------------------
(* The locals a call begins with.                                          *)
LEMMA NewCall ==
  ASSUME NEW op \in {"READ", "WRITE"}, NEW fd \in Int, NEW n, NEW b \in BOOLEAN
  PROVE  LET c == [NoIO EXCEPT !.op = op, !.fd = fd, !.wanted = n, !.blocking = b]
         IN  IsIO(c) /\ c.done = 0
BY DEF NoIO, IsIO

(* The locals after a byte was read.                                       *)
LEMMA OneByteMore ==
  ASSUME NEW c, IsIO(c), NEW got
  PROVE  LET d == [c EXCEPT !.done = @ + 1, !.got = got]
         IN  IsIO(d) /\ d.fd = c.fd /\ d.op = c.op /\ d.done > 0
<1> DEFINE d == [c EXCEPT !.done = @ + 1, !.got = got]
<1>1. d.fd = c.fd /\ d.op = c.op /\ d.done = c.done + 1 /\ d.got = got
         /\ d.wanted = c.wanted /\ d.blocking = c.blocking
  BY DEF IsIO
<1>2. d \in [op : {c.op}, fd : {c.fd}, done : {c.done + 1}, wanted : {c.wanted},
             blocking : {c.blocking}, got : {got}]
  BY DEF IsIO
<1> HIDE DEF d
<1>3. IsIO(d)
  BY <1>1, <1>2 DEF IsIO
<1> QED BY <1>1, <1>3 DEF IsIO, d

(* A call begins with no byte moved.                                       *)
LEMMA CallIOKeeps ==
  ASSUME IInv, NEW p \in Proc, NEW op \in {"READ", "WRITE"}, NEW fd \in Used, NEW n \in 1..MaxBytes,
         CallIO(p, op, fd, n)
  PROVE  IInv'
<1> DEFINE b == "F_NOBLOCK" \notin EntryAt(p, fd).flags
           c == [NoIO EXCEPT !.op = op, !.fd = fd, !.wanted = n, !.blocking = b]
<1>1. fd \in Int
  BY SizesAssumption
<1>2. Goto(p, "test") /\ io' = [io EXCEPT ![p] = c] /\ UNCHANGED <<fds, tickCount, pause>>
  BY DEF CallIO, tables
<1>3. b \in BOOLEAN
  OBVIOUS
<1> HIDE DEF b
<1>4. IsIO(c) /\ c.done = 0
  BY <1>1, <1>3, NewCall
<1>5. Fair("test", fds[p], c)
  BY <1>4 DEF Fair
<1> HIDE DEF c
<1> QED BY <1>2, <1>4, <1>5, CallStep

(* A test moves nothing.                                                   *)
LEMMA TestKeeps ==
  ASSUME IInv, NEW p \in Proc, Test(p)
  PROVE  IInv'
<1>1. PICK x \in {"test", "move", "return"} : Goto(p, x)
  BY DEF Test
<1>2. IsIO(io[p]) /\ io' = [io EXCEPT ![p] = io[p]] /\ UNCHANGED <<fds, tickCount, pause>>
  BY DEF Test, tables, IInv, LocalsOK
<1>3. Fair(x, fds[p], io[p])
  BY <1>1 DEF IInv, Permitted, Fair
<1> QED BY <1>1, <1>2, <1>3, CallStep

(* A byte that was read was read with the permission to.                   *)
LEMMA ReadOneKeeps ==
  ASSUME IInv, NEW p \in Proc, ReadOne(p)
  PROVE  IInv'
<1> DEFINE f == EntryAt(p, io[p].fd).file
           got == IF data[f] = <<>> THEN "x" ELSE Head(data[f])
           c == [io[p] EXCEPT !.done = @ + 1, !.got = got]
<1>1. pc[p] = "move" /\ io[p].op = "READ" /\ IsIO(io[p]) /\ UNCHANGED <<fds, tickCount, pause>>
  BY DEF ReadOne, tables, IInv, LocalsOK
<1>2. CASE ~(Operable(p, io[p].fd, "READ") /\ readChar(p, f))
  <2>1. Goto(p, "return") /\ io' = [io EXCEPT ![p] = io[p]]
    BY <1>2 DEF ReadOne, IInv, LocalsOK
  <2>2. Fair("return", fds[p], io[p])
    BY DEF IInv, Permitted, Fair
  <2> QED BY <1>1, <2>1, <2>2, CallStep
<1>3. CASE Operable(p, io[p].fd, "READ") /\ readChar(p, f)
  <2>0. io' = [io EXCEPT ![p].done = @ + 1, ![p].got = got]
    BY <1>3 DEF ReadOne
  <2> HIDE DEF got
  <2>1. io' = [io EXCEPT ![p] = c]
    BY <2>0 DEF IInv, LocalsOK
  <2>2. IsIO(c) /\ c.fd = io[p].fd /\ c.op = io[p].op /\ c.done > 0
    BY <1>1, OneByteMore
  <2>3. PICK x \in {"test", "return"} : Goto(p, x)
    BY <1>3 DEF ReadOne
  <2>4. hasPermissions(p, io[p].fd, io[p].op)
    BY <1>1, <1>3 DEF Operable
  <2>5. Allows(fds[p], c)
    BY <2>2, <2>4, AllowsIsPermission DEF IInv, Allows, Flags
  <2>6. Fair(x, fds[p], c)
    BY <2>3, <2>5 DEF Fair
  <2> HIDE DEF c
  <2> QED BY <1>1, <2>1, <2>2, <2>3, <2>6, CallStep
<1> QED BY <1>2, <1>3

(* A byte that was written was written with the permission to.             *)
LEMMA WriteOneKeeps ==
  ASSUME IInv, NEW p \in Proc, WriteOne(p)
  PROVE  IInv'
<1> DEFINE f == EntryAt(p, io[p].fd).file
           c == [io[p] EXCEPT !.done = @ + 1]
<1>1. pc[p] = "move" /\ io[p].op = "WRITE" /\ IsIO(io[p]) /\ UNCHANGED <<fds, tickCount, pause>>
  BY DEF WriteOne, tables, IInv, LocalsOK
<1>2. CASE ~(Operable(p, io[p].fd, "WRITE") /\ writeChar(p, f))
  <2>1. Goto(p, "return") /\ io' = [io EXCEPT ![p] = io[p]]
    BY <1>2 DEF WriteOne, IInv, LocalsOK
  <2>2. Fair("return", fds[p], io[p])
    BY DEF IInv, Permitted, Fair
  <2> QED BY <1>1, <2>1, <2>2, CallStep
<1>3. CASE Operable(p, io[p].fd, "WRITE") /\ writeChar(p, f)
  <2>1. io' = [io EXCEPT ![p] = c]
    BY <1>3 DEF WriteOne, IInv, LocalsOK
  <2>2. IsIO(c) /\ c.fd = io[p].fd /\ c.op = io[p].op /\ c.done > 0
    BY <1>1 DEF IsIO
  <2>3. PICK x \in {"test", "return"} : Goto(p, x)
    BY <1>3 DEF WriteOne
  <2>4. hasPermissions(p, io[p].fd, io[p].op)
    BY <1>1, <1>3 DEF Operable
  <2>5. Allows(fds[p], c)
    BY <2>2, <2>4, AllowsIsPermission DEF IInv, Allows, Flags
  <2>6. Fair(x, fds[p], c)
    BY <2>3, <2>5 DEF Fair
  <2> HIDE DEF c
  <2> QED BY <1>1, <2>1, <2>2, <2>3, <2>6, CallStep
<1> QED BY <1>2, <1>3

(* A call that returns forgets what it moved.                              *)
LEMMA ReturnKeeps ==
  ASSUME IInv, NEW p \in Proc, Return(p)
  PROVE  IInv'
<1>1. Fair("user", fds[p], NoIO)
  BY Nothing DEF Fair
<1>2. Goto(p, "user") /\ io' = [io EXCEPT ![p] = NoIO] /\ UNCHANGED <<fds, tickCount, pause>>
  BY DEF Return, tables
<1> QED BY <1>1, <1>2, Nothing, CallStep

(* Going to sleep, a turn of the loop, and the end of it.                  *)
LEMMA SleepKeeps ==
  ASSUME IInv, NEW p \in Proc,
         SleepOn(p) \/ WakeUp(p) \/ \E ms \in Pauses : CallSleep(p, ms)
  PROVE  IInv'
<1>1. UNCHANGED <<fds, tickCount, io>>
  BY DEF SleepOn, WakeUp, CallSleep, tables
<1>2. ASSUME NEW ms \in Pauses, CallSleep(p, ms) PROVE IInv'
  <2> DEFINE s == [ms |-> ms, start |-> tickCount, elapsed |-> 0]
  <2>1. s \in Sleeps /\ s.start + s.elapsed <= tickCount
    BY SizesAssumption DEF Sleeps, IInv, LocalsOK
  <2>2. pc[p] = "user" /\ pc' = [pc EXCEPT ![p] = "asleep"] /\ pause' = [pause EXCEPT ![p] = s]
    BY <1>2 DEF CallSleep, Goto
  <2> HIDE DEF s
  <2> QED BY <1>1, <2>1, <2>2, SleepStep
<1>3. CASE SleepOn(p)
  <2> DEFINE s == [pause[p] EXCEPT !.elapsed = tickCount - pause[p].start]
  <2>1. pause[p] \in Sleeps /\ tickCount \in Nat
    BY DEF IInv, LocalsOK
  <2>2. s \in Sleeps /\ s.start + s.elapsed <= tickCount
    BY <2>1 DEF Sleeps
  <2>3. pc[p] = "asleep" /\ pc' = [pc EXCEPT ![p] = "asleep"] /\ pause' = [pause EXCEPT ![p] = s]
    BY <1>3 DEF SleepOn, IInv, LocalsOK
  <2> HIDE DEF s
  <2> QED BY <1>1, <2>2, <2>3, SleepStep
<1>4. CASE WakeUp(p)
  <2>1. pc[p] = "asleep" /\ pc' = [pc EXCEPT ![p] = "user"] /\ pause' = [pause EXCEPT ![p] = NoPause]
    BY <1>4 DEF WakeUp, Goto
  <2> QED BY <1>1, <2>1, Nothing, SleepStep
<1> QED BY <1>2, <1>3, <1>4

(* What is opened and closed, is opened and closed between calls.          *)
LEMMA OpenCloseKeeps ==
  ASSUME IInv, NEW p \in Proc,
         \/ \E s \in Slot, end \in {"F_READ", "F_WRITE"}, nb \in BOOLEAN : OpenQueue(p, s, end, nb)
         \/ \E fd \in Closable : Close(p, fd)
  PROVE  IInv'
<1>1. pc[p] = "user" /\ UNCHANGED <<pc, io, pause, tickCount>>
  BY DEF OpenQueue, Close
<1>2. \/ fds' = fds
      \/ \E row : fds' = [fds EXCEPT ![p] = row]
  BY DEF OpenQueue, Close, addFile, removeFile
<1>3. fds = [q \in Proc |-> fds[q]]
  BY DEF IInv, LocalsOK
<1>4. fds' = [q \in Proc |-> fds'[q]] /\ \A q \in Proc : q # p => fds'[q] = fds[q]
  BY <1>2, <1>3
<1> QED BY <1>1, <1>4, TableStep

(* The keyboard and the clock.                                             *)
LEMMA DevicesKeep ==
  ASSUME IInv, KeyPressed \/ Tick
  PROVE  IInv'
<1>1. UNCHANGED <<fds, pc, io, pause>> /\ tickCount' \in {tickCount, tickCount + 1}
  BY DEF KeyPressed, Tick, tick, tables
<1> QED BY <1>1, OtherStep

(* No step breaks the invariant.                                           *)
LEMMA NextKeeps == IInv /\ [Next]_vars => IInv'
<1> SUFFICES ASSUME IInv, [Next]_vars PROVE IInv'
  OBVIOUS
<1>1. CASE UNCHANGED vars
  BY <1>1, OtherStep DEF vars, tables
<1>2. CASE KeyPressed \/ Tick
  BY <1>2, DevicesKeep
<1>3. ASSUME NEW p \in Proc, InCall(p) PROVE IInv'
  BY <1>3, TestKeeps, ReadOneKeeps, WriteOneKeeps, ReturnKeeps, SleepKeeps DEF InCall
<1>4. ASSUME NEW p \in Proc, Calls(p) PROVE IInv'
  BY <1>4, CallIOKeeps, SleepKeeps, OpenCloseKeeps DEF Calls
<1> QED BY <1>1, <1>2, <1>3, <1>4 DEF Next

(* The strengthened invariant holds of every execution.                    *)
LEMMA Invariance == Spec => []IInv
BY InitEstablishes, NextKeeps, PTL DEF Spec

-----------------------------------------------------------------------------
(* A call of read or write without the permission, of an entry that is not *)
(* in the table for one, has moved no byte when it returns                 *)
(* (scheduler.c:361, process.c:371-418).                                   *)
THEOREM RefusalsMoveNothing == Spec => []RefusedCallsMoveNothing
<1>1. IInv => RefusedCallsMoveNothing
  <2> SUFFICES ASSUME IInv, NEW p \in Proc, ~hasPermissions(p, io[p].fd, io[p].op)
               PROVE io[p].done = 0
    BY DEF RefusedCallsMoveNothing
  <2>1. Fair(pc[p], fds[p], io[p]) /\ io[p].done \in Nat
    BY DEF IInv, Permitted, LocalsOK, IsIO
  <2>2. ~Allows(fds[p], io[p])
    BY AllowsIsPermission DEF IInv
  <2> QED BY <2>1, <2>2 DEF Fair
<1> QED BY <1>1, Invariance, PTL

(* time() of n ticks is 5 miliseconds each, or one milisecond less.        *)
LEMMA TimeOfTicks ==
  ASSUME NEW n \in Nat
  PROVE  \A t \in time(n) : t \in Int /\ t \in (5 * n - 1) .. (5 * n)
<1>1. (n * 1000) \div 200 = 5 * n
  OBVIOUS
<1> QED BY <1>1 DEF time, getPITfrequency

(* waitForTime counts off one tick more than the miliseconds are worth.    *)
LEMMA TicksOfSleep ==
  ASSUME NEW ms \in Nat, NEW n \in Int, n > sleepFor(ms)
  PROVE  5 * n - 1 >= ms
<1>1. (ms * 200) \div 1000 = ms \div 5
  OBVIOUS
<1>2. ms <= 5 * (ms \div 5) + 4 /\ ms \div 5 \in Int
  OBVIOUS
<1> QED BY <1>1, <1>2 DEF sleepFor, getPITfrequency

(* What goes by, rounded down at both ends, is at least what was measured. *)
LEMMA Rounded ==
  ASSUME NEW ms \in Int, NEW start \in Int, NEW elapsed \in Int, NEW now \in Int,
         NEW before \in Int, NEW after \in Int, start + elapsed <= now, 5 * elapsed - 1 >= ms,
         before <= 5 * start, after >= 5 * now - 1
  PROVE  after - before >= ms
OBVIOUS

(* Whoever asks for the time before and after a SLEEP sees at least the    *)
(* miliseconds it slept for, whichever way both were rounded (time.c:31-33,*)
(* scheduler.c:377-397).                                                   *)
THEOREM SleepIsLongEnough == Spec => SleepLooksLongEnough
<1> DEFINE Wakes == \A p \in Proc : pc[p] = "asleep" /\ pc'[p] = "user" =>
             \A before \in time(pause[p].start), after \in time(tickCount) :
               after - before >= pause[p].ms
<1>1. IInv /\ [Next]_vars => [Wakes]_vars
  <2> SUFFICES ASSUME IInv, [Next]_vars PROVE Wakes
    OBVIOUS
  <2> SUFFICES ASSUME NEW p \in Proc, pc[p] = "asleep", pc'[p] = "user",
                      NEW before \in time(pause[p].start), NEW after \in time(tickCount)
               PROVE  after - before >= pause[p].ms
    OBVIOUS
  <2>1. pause[p].ms \in Nat /\ pause[p].start \in Nat /\ pause[p].elapsed \in Int /\ tickCount \in Nat
    BY DEF IInv, LocalsOK, Sleeps
  <2>2. pause[p].start + pause[p].elapsed <= tickCount
    BY DEF IInv, Measured
  <2>3. WakeUp(p)
    <3>1. CASE UNCHANGED vars
      BY <3>1 DEF vars
    <3>2. CASE KeyPressed \/ Tick
      BY <3>2 DEF KeyPressed, Tick
    <3>3. ASSUME NEW q \in Proc, InCall(q) \/ Calls(q), q # p PROVE FALSE
      <4>1. pc'[p] = pc[p]
        BY <3>3 DEF IInv, LocalsOK, InCall, Calls, Test, ReadOne, WriteOne, Return, SleepOn, WakeUp,
                          CallIO, OpenQueue, Close, CallSleep, Goto
      <4> QED BY <4>1
    <3>4. CASE InCall(p) \/ Calls(p)
      BY <3>4 DEF InCall, Calls, Test, ReadOne, WriteOne, Return, SleepOn,
                  CallIO, OpenQueue, Close, CallSleep
    <3> QED BY <3>1, <3>2, <3>3, <3>4 DEF Next
  <2>4. pause[p].elapsed > sleepFor(pause[p].ms)
    <3>1. sleepFor(pause[p].ms) \in Int
      BY <2>1 DEF sleepFor, getPITfrequency
    <3> QED BY <2>1, <2>3, <3>1 DEF WakeUp, StillSleeping
  <2>5. 5 * pause[p].elapsed - 1 >= pause[p].ms
    BY <2>1, <2>4, TicksOfSleep
  <2>6. /\ before \in Int /\ before \in (5 * pause[p].start - 1) .. (5 * pause[p].start)
        /\ after \in Int /\ after \in (5 * tickCount - 1) .. (5 * tickCount)
    BY <2>1, TimeOfTicks
  <2>7. before <= 5 * pause[p].start /\ after >= 5 * tickCount - 1 /\ before \in Int /\ after \in Int
    BY <2>1, <2>6
  <2> QED BY <2>1, <2>2, <2>5, <2>7, Rounded
<1> QED BY <1>1, Invariance, PTL DEF Spec, SleepLooksLongEnough

-----------------------------------------------------------------------------
(* What an entry of a table of files may be: free, an input, an output (of *)
(* the first entries only), or one end of a queue.                         *)
QueueEnd == {"F_READ", "F_WRITE"}
Inputs   == {<<"STDIN", 0>>, <<"RAW_KEYS", 0>>}
Outputs  == {<<"STDOUT", 0>>, <<"STDERR", 0>>}
Queue(s) == <<"MESSAGE_QUEUE", s>>
FileEntry == [occupied : BOOLEAN, flags : SUBSET {"F_READ", "F_WRITE", "F_NOBLOCK"},
              file : Inputs \cup Outputs \cup {Queue(s) : s \in Slot}]
IsInput(e)    == \E f \in Inputs : e = Entry(f, {"F_READ"})
IsOutput(e)   == \E f \in Outputs : e = Entry(f, {"F_WRITE"})
IsEnd(e, s, end) == \E others \in SUBSET {"F_NOBLOCK"} : e = Entry(Queue(s), {end} \cup others)
IsEntry(d, e) == \/ e = Free \/ IsInput(e)
                 \/ d \in {1, 2} /\ IsOutput(e)
                 \/ \E s \in Slot, end \in QueueEnd : IsEnd(e, s, end)

(* The tables of a process are made of those, and have each queue once.    *)
FilesTyped ==
  /\ fds \in [Proc -> [FD -> FileEntry]] /\ size \in [Proc -> Int]
  /\ owner \in [Slot -> [QueueEnd -> Proc \cup {NoPID}]]
  /\ data \in [File -> Seq(Char)]
Entries == \A p \in Proc : \A d \in FD : IsEntry(d, fds[p][d])
OnceEach ==
  \A p \in Proc : \A s \in Slot : \A d, e \in FD :
    fds[p][d].file = Queue(s) /\ fds[p][e].file = Queue(s) => d = e
Tables == FilesTyped /\ Entries /\ OnceEach /\ TablesInStep

(* What a process that is in a call of read or write knows at each point,  *)
(* of its locals c, its table row and what the files hold: the entry is    *)
(* there; what the test found is still there, and it has come to the end of*)
(* the call only by having done it, unless it is among the robbed, rob.    *)
FileOf(p, row, c) == IF c.fd < MaxFiles THEN row[c.fd].file ELSE Beyond(p).file
Finished(f, row, c) == \/ c.done = c.wanted \/ ~Allows(row, c)
                       \/ f[1] = "STDIN" /\ c.got = "newline"
Known(p, point, row, c, held, rob) ==
  LET f == FileOf(p, row, c) IN
  point \in {"test", "move", "return"} =>
    /\ c.fd \in Used /\ (c.fd < MaxFiles => row[c.fd].occupied)
    /\ c.op = "READ" /\ f \in Inputs /\ point = "move" => held[f] # <<>> \/ p \in rob
    /\ point = "return" /\ c.blocking => Finished(f, row, c) \/ p \in rob
CallsKnow == \A p \in Proc : Known(p, pc[p], fds[p], io[p], data, robbed)

(* What the entries of a table are.                                        *)
LEMMA EntryIs ==
  ASSUME FilesTyped, Entries, NEW p \in Proc, NEW d \in FD
  PROVE  /\ fds[p][d].occupied \in BOOLEAN /\ (~fds[p][d].occupied => fds[p][d] = Free)
         /\ fds[p][d].file[1] # "invalid"
         /\ \A s : fds[p][d].file = Queue(s) => s \in Slot /\ fds[p][d].occupied
                     /\ \E end \in QueueEnd : IsEnd(fds[p][d], s, end)
         /\ "F_READ" \in fds[p][d].flags => \/ fds[p][d].file \in Inputs
                                            \/ \E s \in Slot : fds[p][d].file = Queue(s)
         /\ "F_WRITE" \in fds[p][d].flags => \/ d \in {1, 2}
                                             \/ \E s \in Slot : fds[p][d].file = Queue(s)
<1>1. IsEntry(d, fds[p][d])
  BY DEF Entries
<1>2. CASE fds[p][d] = Free
  BY <1>2 DEF Free, Queue
<1>3. CASE IsInput(fds[p][d])
  BY <1>3 DEF IsInput, Inputs, Entry, Queue
<1>4. CASE d \in {1, 2} /\ IsOutput(fds[p][d])
  BY <1>4 DEF IsOutput, Outputs, Entry, Queue
<1>5. ASSUME NEW s \in Slot, NEW end \in QueueEnd, IsEnd(fds[p][d], s, end)
      PROVE  /\ fds[p][d].occupied /\ fds[p][d].file = Queue(s) /\ fds[p][d].file[1] # "invalid"
             /\ \A t : fds[p][d].file = Queue(t) => t = s
  BY <1>5 DEF IsEnd, Entry, Queue
<1>6. CASE \E s \in Slot, end \in QueueEnd : IsEnd(fds[p][d], s, end)
  <2>1. PICK s \in Slot, end \in QueueEnd : IsEnd(fds[p][d], s, end)
    BY <1>6
  <2>2. /\ fds[p][d].occupied /\ fds[p][d].file = Queue(s) /\ fds[p][d].file[1] # "invalid"
        /\ \A t : fds[p][d].file = Queue(t) => t = s
    BY <1>5, <2>1
  <2> QED BY <2>1, <2>2
<1> QED BY <1>1, <1>2, <1>3, <1>4, <1>6 DEF IsEntry

(* An end of a queue has one of the two flags, and the type of an entry.   *)
LEMMA EndFlags ==
  ASSUME NEW e, NEW s \in Slot, NEW end \in QueueEnd, IsEnd(e, s, end)
  PROVE  /\ e \in FileEntry /\ e.occupied /\ e.file = Queue(s)
         /\ \A g \in QueueEnd : g \in e.flags <=> g = end
BY DEF IsEnd, Entry, FileEntry, QueueEnd

(* The descriptors are finitely many, and so are the occupied ones.        *)
LEMMA Descriptors ==
  /\ FD \subseteq Nat /\ IsFiniteSet(FD) /\ Cardinality(FD) = MaxFiles
  /\ \A p : Occupied(p) \subseteq FD /\ IsFiniteSet(Occupied(p)) /\ Cardinality(Occupied(p)) \in Nat
<1>1. FD \subseteq Nat /\ IsFiniteSet(FD) /\ Cardinality(FD) = MaxFiles
  BY SizesAssumption, FS_Interval DEF FD
<1>2. \A p : Occupied(p) \subseteq FD
  BY DEF Occupied
<1> QED BY <1>1, <1>2, FS_Subset, FS_CardinalityType

(* If size says that there is an entry left, addFile finds one: its search *)
(* without a bound stays inside the table.                                 *)
LEMMA FirstFreeIs ==
  ASSUME Tables, NEW p \in Proc, size[p] < MaxFiles
  PROVE  FirstFree(p) \in FD /\ fds[p][FirstFree(p)] = Free
<1> DEFINE Room == {d \in FD : ~fds[p][d].occupied}
           First(d) == /\ d < MaxFiles => ~fds[p][d].occupied
                       /\ \A e \in FD : e < d => fds[p][e].occupied
<1>1. Room # {}
  <2> SUFFICES ASSUME Room = {} PROVE FALSE
    OBVIOUS
  <2>1. Occupied(p) = FD
    BY DEF Occupied
  <2> QED BY <2>1, Descriptors, SizesAssumption DEF Tables, TablesInStep, SizeIsCount
<1>2. PICK m \in Room : \A d \in Room : ~ (<<d, m>> \in OpToRel(<, Nat))
  BY <1>1, Descriptors, NatLessThanWellFounded, WFMin
<1>3. \A d \in Room : ~(d < m)
  BY <1>2, Descriptors DEF OpToRel
<1>4. m \in 0..MaxFiles /\ First(m)
  BY <1>3, SizesAssumption DEF FD
<1>5. FirstFree(p) = CHOOSE d \in 0..MaxFiles : First(d)
  BY DEF FirstFree
<1> HIDE DEF First
<1>6. FirstFree(p) \in 0..MaxFiles /\ First(FirstFree(p))
  BY <1>4, <1>5
<1>7. FirstFree(p) \in FD /\ ~fds[p][FirstFree(p)].occupied
  <2>1. m \in FD /\ ~fds[p][m].occupied
    BY <1>2
  <2>2. FirstFree(p) # MaxFiles
    <3>1. m < MaxFiles
      BY <2>1, SizesAssumption DEF FD
    <3> QED BY <1>6, <2>1, <3>1 DEF First
  <2>3. FirstFree(p) \in FD /\ FirstFree(p) < MaxFiles
    BY <1>6, <2>2, SizesAssumption DEF FD
  <2> QED BY <1>6, <2>3 DEF First
<1> QED BY <1>7, EntryIs DEF Tables

(* What a process has of a queue.                                          *)
HasEnd(q, t, g) == \E d \in FD : fds[q][d].file = Queue(t) /\ g \in fds[q][d].flags

LEMMA EndsAre == EndsAreHeld <=> \A q \in Proc, t \in Slot, g \in QueueEnd :
                                   owner[t][g] = q <=> HasEnd(q, t, g)
BY DEF EndsAreHeld, QueueEnd, HasEnd, Queue

-----------------------------------------------------------------------------
(* A process changes one entry d of its table, and an end of a queue.      *)
RowStep(p, d, e) == /\ fds' = [fds EXCEPT ![p] = [x \in FD |-> IF x = d THEN e ELSE fds[p][x]]]
                    /\ d \in FD /\ e \in FileEntry /\ IsEntry(d, e)

LEMMA RowIs ==
  ASSUME FilesTyped, NEW p \in Proc, NEW d, NEW e, RowStep(p, d, e)
  PROVE  /\ fds' \in [Proc -> [FD -> FileEntry]]
         /\ \A q \in Proc : \A x \in FD : fds'[q][x] = IF q = p /\ x = d THEN e ELSE fds[q][x]
BY DEF FilesTyped, RowStep

(* The count goes with the entry.                                          *)
LEMMA SizeStep ==
  ASSUME FilesTyped, SizeIsCount, NEW p \in Proc, NEW d, NEW e, RowStep(p, d, e),
         fds[p][d].occupied \in BOOLEAN, e.occupied <=> ~fds[p][d].occupied,
         size' = [size EXCEPT ![p] = IF e.occupied THEN size[p] + 1 ELSE size[p] - 1]
  PROVE  size' \in [Proc -> Int] /\ SizeIsCount'
<1>1. /\ d \in FD
      /\ \A q \in Proc : \A x \in FD : fds'[q][x] = IF q = p /\ x = d THEN e ELSE fds[q][x]
  BY RowIs DEF RowStep
<1>2. \A q \in Proc : q # p => Occupied(q)' = Occupied(q)
  BY <1>1 DEF Occupied
<1>3. CASE e.occupied
  <2>1. Occupied(p)' = Occupied(p) \cup {d} /\ d \notin Occupied(p)
    BY <1>1, <1>3 DEF Occupied
  <2>2. Cardinality(Occupied(p)') = Cardinality(Occupied(p)) + 1
    BY <2>1, Descriptors, FS_AddElement
  <2> QED BY <1>2, <1>3, <2>2 DEF SizeIsCount, FilesTyped
<1>4. CASE ~e.occupied
  <2>1. Occupied(p)' = Occupied(p) \ {d} /\ d \in Occupied(p)
    BY <1>1, <1>4 DEF Occupied
  <2>2. Cardinality(Occupied(p)') = Cardinality(Occupied(p)) - 1
    BY <2>1, Descriptors, FS_RemoveElement
  <2> QED BY <1>2, <1>4, <2>2 DEF SizeIsCount, FilesTyped
<1> QED BY <1>3, <1>4

(* A queue is opened: an entry that was free becomes an end of it.         *)
LEMMA OpenInStep ==
  ASSUME Tables, NEW p \in Proc, NEW s \in Slot, NEW end \in QueueEnd, NEW nb \in BOOLEAN,
         OpenQueue(p, s, end, nb)
  PROVE  Tables'
<1>0. FilesTyped /\ Entries /\ OnceEach /\ SizeIsCount /\ EndsAreHeld
  BY DEF Tables, TablesInStep
<1> DEFINE d == FirstFree(p)
           flags == {end} \cup (IF nb THEN {"F_NOBLOCK"} ELSE {})
           e == Entry(Queue(s), flags)
<1>1. /\ \A g \in QueueEnd : owner[s][g] # p
      /\ owner[s][end] = NoPID /\ size[p] < MaxFiles
      /\ owner' = [owner EXCEPT ![s][end] = p] /\ UNCHANGED data
      /\ size' = [size EXCEPT ![p] = @ + 1]
      /\ fds' = [fds EXCEPT ![p] = [x \in FD |-> IF x = FirstFree(p) THEN e ELSE @[x]]]
  BY DEF OpenQueue, markAccess, addFile, QueueEnd, Queue
<1>2. d \in FD /\ fds[p][d] = Free
  BY <1>1, FirstFreeIs
<1>3. IsEnd(e, s, end)
  <2>1. (IF nb THEN {"F_NOBLOCK"} ELSE {}) \in SUBSET {"F_NOBLOCK"}
    OBVIOUS
  <2> QED BY <2>1 DEF IsEnd
<1>4. fds' = [fds EXCEPT ![p] = [x \in FD |-> IF x = d THEN e ELSE fds[p][x]]]
  BY <1>0, <1>1 DEF FilesTyped
<1> HIDE DEF d, e
<1>5. /\ e \in FileEntry /\ e.occupied /\ e.file = Queue(s)
      /\ \A g \in QueueEnd : g \in e.flags <=> g = end
  BY <1>3, EndFlags
<1>6. RowStep(p, d, e)
  BY <1>2, <1>3, <1>4, <1>5 DEF RowStep, IsEntry
<1>7. /\ fds' \in [Proc -> [FD -> FileEntry]]
      /\ \A q \in Proc : \A x \in FD : fds'[q][x] = IF q = p /\ x = d THEN e ELSE fds[q][x]
  BY <1>0, <1>6, RowIs
<1>8. size' \in [Proc -> Int] /\ SizeIsCount'
  <2>1. fds[p][d].occupied = FALSE
    BY <1>2 DEF Free
  <2> QED BY <1>0, <1>1, <1>5, <1>6, <2>1, SizeStep
<1>9. /\ owner' \in [Slot -> [QueueEnd -> Proc \cup {NoPID}]]
      /\ \A t \in Slot, g \in QueueEnd : owner'[t][g] = IF t = s /\ g = end THEN p ELSE owner[t][g]
  BY <1>0, <1>1 DEF FilesTyped
<1>10. FilesTyped'
  BY <1>0, <1>1, <1>7, <1>8, <1>9 DEF FilesTyped
<1>11. Entries'
  BY <1>0, <1>6, <1>7 DEF Entries, RowStep
<1>12. \A x \in FD : fds[p][x].file # Queue(s)
  <2> SUFFICES ASSUME NEW x \in FD, fds[p][x].file = Queue(s) PROVE FALSE
    OBVIOUS
  <2>1. PICK g \in QueueEnd : IsEnd(fds[p][x], s, g)
    BY <1>0, EntryIs
  <2>2. g \in fds[p][x].flags
    BY <2>1, EndFlags
  <2>3. HasEnd(p, s, g)
    BY <2>2 DEF HasEnd
  <2> QED BY <1>0, <1>1, <2>3, EndsAre
<1>13. OnceEach'
  <2>1. \A t : Queue(t) = Queue(s) => t = s
    BY DEF Queue
  <2> QED BY <1>0, <1>5, <1>7, <1>12, <2>1 DEF OnceEach
<1>14. EndsAreHeld'
  <2>1. ASSUME NEW q \in Proc, NEW t \in Slot, NEW g \in QueueEnd
        PROVE  owner'[t][g] = q <=> HasEnd(q, t, g)'
    <3>1. owner[t][g] = q <=> HasEnd(q, t, g)
      BY <1>0, EndsAre
    <3>2. HasEnd(q, t, g)' <=> HasEnd(q, t, g) \/ (q = p /\ t = s /\ g = end)
      <4>1. fds[p][d].file # Queue(t) /\ (Queue(t) = Queue(s) <=> t = s)
        BY <1>2 DEF Free, Queue
      <4>2. HasEnd(q, t, g)' => HasEnd(q, t, g) \/ (q = p /\ t = s /\ g = end)
        BY <1>5, <1>7, <4>1 DEF HasEnd
      <4>3. HasEnd(q, t, g) => HasEnd(q, t, g)'
        BY <1>7, <4>1 DEF HasEnd
      <4>4. q = p /\ t = s /\ g = end => HasEnd(q, t, g)'
        BY <1>2, <1>5, <1>7 DEF HasEnd
      <4> QED BY <4>2, <4>3, <4>4
    <3>3. owner[s][end] # q
      BY <1>1, ProcAssumption
    <3> QED BY <1>9, <3>1, <3>2, <3>3
  <2> QED BY <2>1, EndsAre DEF EndsAreHeld, HasEnd, QueueEnd, Queue
<1> QED BY <1>8, <1>10, <1>11, <1>13, <1>14 DEF Tables, TablesInStep

(* No other step changes a table; what a file holds stays a sequence.      *)
LEMMA OthersInStep ==
  ASSUME Tables, UNCHANGED tables, data' \in [File -> Seq(Char)]
  PROVE  Tables'
<1>0. FilesTyped /\ Entries /\ OnceEach /\ SizeIsCount /\ EndsAreHeld
  BY DEF Tables, TablesInStep
<1>1. UNCHANGED <<fds, size, owner>>
  BY DEF tables
<1>2. FilesTyped' /\ Entries' /\ OnceEach'
  BY <1>0, <1>1 DEF FilesTyped, Entries, OnceEach
<1>3. SizeIsCount'
  <2>1. \A p : Occupied(p)' = Occupied(p)
    BY <1>1 DEF Occupied
  <2> QED BY <1>0, <1>1, <2>1 DEF SizeIsCount
<1>4. EndsAreHeld'
  <2>1. \A q \in Proc, t \in Slot, g \in QueueEnd : owner'[t][g] = q <=> HasEnd(q, t, g)'
    BY <1>0, <1>1, EndsAre DEF HasEnd
  <2> QED BY <2>1, EndsAre DEF EndsAreHeld, HasEnd, QueueEnd, Queue
<1> QED BY <1>2, <1>3, <1>4 DEF Tables, TablesInStep

(* An entry is closed: it is occupied, so it is no entry past the table.   *)
LEMMA CloseInStep ==
  ASSUME Tables, NEW p \in Proc, NEW fd \in Closable, Close(p, fd)
  PROVE  Tables'
<1>0. FilesTyped /\ Entries /\ OnceEach /\ SizeIsCount /\ EndsAreHeld
  BY DEF Tables, TablesInStep
<1>1. existsFile(p, fd) /\ fd \in 0..MaxFiles /\ fd \in Int
  BY SizesAssumption DEF Close, Operable
<1>2. CASE fd >= MaxFiles
  <2>1. Beyond(p).file[1] # "MESSAGE_QUEUE"
    BY DEF Beyond
  <2>2. UNCHANGED <<fds, size, owner, data>>
    <3>1. EntryAt(p, fd) = Beyond(p)
      BY <1>1, <1>2, SizesAssumption DEF EntryAt
    <3>2. UNCHANGED <<owner, data>>
      BY <2>1, <3>1 DEF Close
    <3>3. UNCHANGED <<fds, size>>
      BY <1>2 DEF Close, removeFile
    <3> QED BY <3>2, <3>3
  <2> QED BY <1>0, <2>2, OthersInStep DEF tables, FilesTyped
<1>3. CASE ~(fd >= MaxFiles)
  <2>1. fd \in FD /\ fds[p][fd].occupied /\ EntryAt(p, fd) = fds[p][fd] /\ fd < MaxFiles
    BY <1>1, <1>3, SizesAssumption DEF FD, existsFile, EntryAt
  <2>2. fds' = [fds EXCEPT ![p][fd] = Free] /\ size' = [size EXCEPT ![p] = @ - 1]
    BY <1>3 DEF Close, removeFile
  <2>3. fds' = [fds EXCEPT ![p] = [x \in FD |-> IF x = fd THEN Free ELSE fds[p][x]]]
    BY <1>0, <2>1, <2>2 DEF FilesTyped
  <2>4. Free \in FileEntry /\ Free.occupied = FALSE /\ Free.flags = {} /\ \A t : Free.file # Queue(t)
    BY DEF Free, FileEntry, Inputs, Queue
  <2>5. RowStep(p, fd, Free)
    BY <2>1, <2>3, <2>4 DEF RowStep, IsEntry
  <2>6. /\ fds' \in [Proc -> [FD -> FileEntry]]
        /\ \A q \in Proc : \A x \in FD : fds'[q][x] = IF q = p /\ x = fd THEN Free ELSE fds[q][x]
    BY <1>0, <2>5, RowIs
  <2>7. size' \in [Proc -> Int] /\ SizeIsCount'
    <3>1. fds[p][fd].occupied = TRUE
      BY <1>0, <2>1, EntryIs
    <3> QED BY <1>0, <2>2, <2>4, <2>5, <3>1, SizeStep
  <2>8. Entries' /\ OnceEach'
    <3>1. Entries'
      BY <1>0, <2>5, <2>6 DEF Entries, RowStep
    <3>2. OnceEach'
      BY <1>0, <2>4, <2>6 DEF OnceEach
    <3> QED BY <3>1, <3>2
  <2>9. CASE fds[p][fd].file[1] # "MESSAGE_QUEUE"
    <3>1. UNCHANGED <<owner, data>>
      BY <2>1, <2>9 DEF Close
    <3>2. FilesTyped'
      BY <1>0, <2>6, <2>7, <3>1 DEF FilesTyped
    <3>3. \A t : fds[p][fd].file # Queue(t)
      BY <2>9 DEF Queue
    <3>4. \A q \in Proc : \A t, g : HasEnd(q, t, g)' <=> HasEnd(q, t, g)
      BY <2>4, <2>6, <3>3 DEF HasEnd
    <3>5. \A q \in Proc, t \in Slot, g \in QueueEnd : owner'[t][g] = q <=> HasEnd(q, t, g)'
      BY <1>0, <3>1, <3>4, EndsAre
    <3>6. EndsAreHeld'
      BY <3>5, EndsAre DEF EndsAreHeld, HasEnd, QueueEnd, Queue
    <3> QED BY <2>7, <2>8, <3>2, <3>6 DEF Tables, TablesInStep
  <2>10. CASE fds[p][fd].file[1] = "MESSAGE_QUEUE"
    <3>1. PICK s \in Slot : fds[p][fd].file = Queue(s)
      <4>1. IsEntry(fd, fds[p][fd])
        BY <1>0, <2>1 DEF Entries
      <4>2. fds[p][fd] # Free
        BY <2>10 DEF Free
      <4>3. ~IsInput(fds[p][fd]) /\ ~IsOutput(fds[p][fd])
        BY <2>10 DEF IsInput, IsOutput, Inputs, Outputs, Entry
      <4>4. PICK s \in Slot, g \in QueueEnd : IsEnd(fds[p][fd], s, g)
        BY <4>1, <4>2, <4>3 DEF IsEntry
      <4> QED BY <4>4, EndFlags
    <3>2. Queue(s)[1] = "MESSAGE_QUEUE" /\ Queue(s)[2] = s /\ \A t : Queue(t) = Queue(s) => t = s
      BY DEF Queue
    <3>3. /\ owner' = [owner EXCEPT ![s] = [e \in DOMAIN @ |-> IF @[e] = p THEN NoPID ELSE @[e]]]
          /\ data' = data \/ data' = [data EXCEPT ![Queue(s)] = <<>>]
      BY <2>1, <2>10, <3>1, <3>2 DEF Close
    <3>4. /\ owner' \in [Slot -> [QueueEnd -> Proc \cup {NoPID}]]
          /\ \A t \in Slot, g \in QueueEnd :
               owner'[t][g] = IF t = s /\ owner[t][g] = p THEN NoPID ELSE owner[t][g]
      BY <1>0, <3>3 DEF FilesTyped
    <3>5. data' \in [File -> Seq(Char)]
      <4>1. <<>> \in Seq(Char) /\ data \in [File -> Seq(Char)]
        BY <1>0 DEF FilesTyped
      <4> QED BY <3>3, <4>1
    <3>6. FilesTyped'
      BY <2>6, <2>7, <3>4, <3>5 DEF FilesTyped
    <3>7. ASSUME NEW q \in Proc, NEW t \in Slot, NEW g \in QueueEnd
          PROVE  owner'[t][g] = q <=> HasEnd(q, t, g)'
      <4>1. owner[t][g] = q <=> HasEnd(q, t, g)
        BY <1>0, EndsAre
      <4>2. HasEnd(q, t, g)' <=> HasEnd(q, t, g) /\ ~(q = p /\ t = s)
        <5>1. CASE q = p /\ t = s
          <6>1. \A x \in FD : x # fd => fds[p][x].file # Queue(s)
            BY <1>0, <2>1, <3>1 DEF OnceEach
          <6> QED BY <2>4, <2>6, <5>1, <6>1 DEF HasEnd
        <5>2. CASE q = p /\ t # s
          BY <2>4, <2>6, <3>1, <3>2, <5>2 DEF HasEnd
        <5>3. CASE q # p
          BY <2>6, <5>3 DEF HasEnd
        <5> QED BY <5>1, <5>2, <5>3
      <4>3. q # NoPID
        BY ProcAssumption
      <4> QED BY <3>4, <4>1, <4>2, <4>3
    <3>8. EndsAreHeld'
      BY <3>7, EndsAre DEF EndsAreHeld, HasEnd, QueueEnd, Queue
    <3> QED BY <2>7, <2>8, <3>6, <3>8 DEF Tables, TablesInStep
  <2> QED BY <2>9, <2>10
<1> QED BY <1>2, <1>3

-----------------------------------------------------------------------------
(* A step of p: the others know what they knew, if what p takes from them  *)
(* makes them robbed.                                                      *)
LEMMA CallerStep ==
  ASSUME CallsKnow, NEW p \in Proc,
         \A q \in Proc : q # p => pc'[q] = pc[q] /\ io'[q] = io[q] /\ fds'[q] = fds[q],
         \A q \in Proc : q # p /\ q \in robbed => q \in robbed',
         \A q \in Proc : q # p /\ pc[q] = "move" /\ io[q].op = "READ" =>
           \A f \in Inputs : f = FileOf(q, fds[q], io[q]) /\ data[f] # <<>>
             => data'[f] # <<>> \/ q \in robbed',
         Known(p, pc'[p], fds'[p], io'[p], data', robbed')
  PROVE  CallsKnow'
<1>1. ASSUME NEW q \in Proc, q # p PROVE Known(q, pc[q], fds[q], io[q], data', robbed')
  <2>1. Known(q, pc[q], fds[q], io[q], data, robbed)
    BY DEF CallsKnow
  <2>2. PICK f : f = FileOf(q, fds[q], io[q])
    OBVIOUS
  <2>3. pc[q] = "move" /\ io[q].op = "READ" /\ f \in Inputs /\ data[f] # <<>>
          => data'[f] # <<>> \/ q \in robbed'
    BY <1>1, <2>2
  <2>4. q \in robbed => q \in robbed'
    BY <1>1
  <2> QED BY <2>1, <2>2, <2>3, <2>4 DEF Known
<1>2. \A q \in Proc : q # p => Known(q, pc'[q], fds'[q], io'[q], data', robbed')
  BY <1>1
<1> QED BY <1>2 DEF CallsKnow

(* The entry of a call is that of the table, or past it.                   *)
LEMMA FileOfIs ==
  ASSUME NEW p \in Proc, NEW c
  PROVE  EntryAt(p, c.fd).file = FileOf(p, fds[p], c)
BY DEF EntryAt, FileOf

(* The files that are inputs are the first of their type.                  *)
LEMMA InputIs ==
  /\ \A f \in Inputs : f \in File /\ (f[1] = "STDIN" => f = <<"STDIN", 0>>)
                       /\ (f[1] = "RAW_KEYS" => f = <<"RAW_KEYS", 0>>)
                       /\ f[1] \in {"STDIN", "RAW_KEYS"}
  /\ \A s : Queue(s) \notin Inputs /\ Queue(s)[1] = "MESSAGE_QUEUE" /\ Queue(s)[2] = s
  /\ \A s \in Slot : Queue(s) \in File
BY DEF Inputs, File, Device, Queue

(* A process that has the permission gets through, and gets its byte, if   *)
(* that was not taken from it.                                             *)
LEMMA ReadSucceeds ==
  ASSUME IInv, Tables, CallsKnow, NEW p \in Proc, pc[p] = "move", io[p].op = "READ",
         hasPermissions(p, io[p].fd, "READ")
  PROVE  /\ Operable(p, io[p].fd, "READ")
         /\ p \notin robbed => readChar(p, EntryAt(p, io[p].fd).file)
         /\ EntryAt(p, io[p].fd).file \in File
<1> DEFINE fd == io[p].fd
<1>1. Known(p, "move", fds[p], io[p], data, robbed) /\ fd \in (0..MaxFiles) \ {1, 2} /\ fd \in Int
  <2>1. Known(p, pc[p], fds[p], io[p], data, robbed)
    BY DEF CallsKnow
  <2>2. fd \in Used
    BY <2>1 DEF Known
  <2>3. fd \in (0..MaxFiles) \ {1, 2}
    BY <2>2, SizesAssumption
  <2>4. fd \in Int
    BY <2>3, SizesAssumption
  <2> QED BY <2>1, <2>3, <2>4
<1>2. fd < MaxFiles /\ "F_READ" \in fds[p][fd].flags
  BY <1>1 DEF hasPermissions, EntryAt, Beyond
<1>3. fd \in FD /\ EntryAt(p, fd) = fds[p][fd]
  BY <1>1, <1>2, SizesAssumption DEF FD, EntryAt
<1>4. /\ fds[p][fd].occupied /\ fds[p][fd].file[1] # "invalid"
      /\ fds[p][fd].file \in Inputs \/ \E s \in Slot : fds[p][fd].file = Queue(s)
  BY <1>1, <1>2, <1>3, EntryIs DEF Known, Tables
<1>5. Operable(p, fd, "READ")
  BY <1>3, <1>4 DEF Operable, existsFile, isValidFileType
<1>6. CASE fds[p][fd].file \in Inputs
  <2>1. p \notin robbed => data[fds[p][fd].file] # <<>>
    BY <1>1, <1>2, <1>6 DEF Known, FileOf
  <2> QED BY <1>3, <1>5, <1>6, <2>1, InputIs DEF readChar
<1>7. CASE \E s \in Slot : fds[p][fd].file = Queue(s)
  <2>1. PICK s \in Slot : fds[p][fd].file = Queue(s)
    BY <1>7
  <2>2. owner[s]["F_READ"] = p
    <3>1. HasEnd(p, s, "F_READ") /\ "F_READ" \in QueueEnd
      BY <1>2, <1>3, <2>1 DEF HasEnd, QueueEnd
    <3> QED BY <3>1, EndsAre DEF Tables, TablesInStep
  <2>3. Queue(s)[1] = "MESSAGE_QUEUE" /\ Queue(s)[2] = s
    BY InputIs
  <2>4. readChar(p, Queue(s))
    BY <2>2, <2>3 DEF readChar
  <2> QED BY <1>3, <1>5, <2>1, <2>4, InputIs
<1> QED BY <1>4, <1>6, <1>7

(* Of what it may write there are only queues.                             *)
LEMMA WriteSucceeds ==
  ASSUME IInv, Tables, CallsKnow, NEW p \in Proc, pc[p] = "move", io[p].op = "WRITE",
         hasPermissions(p, io[p].fd, "WRITE")
  PROVE  /\ Operable(p, io[p].fd, "WRITE") /\ writeChar(p, EntryAt(p, io[p].fd).file)
         /\ EntryAt(p, io[p].fd).file \in File \ Inputs
<1> DEFINE fd == io[p].fd
<1>1. Known(p, "move", fds[p], io[p], data, robbed) /\ fd \in (0..MaxFiles) \ {1, 2} /\ fd \in Int
  <2>1. Known(p, pc[p], fds[p], io[p], data, robbed)
    BY DEF CallsKnow
  <2>2. fd \in Used
    BY <2>1 DEF Known
  <2>3. fd \in (0..MaxFiles) \ {1, 2}
    BY <2>2, SizesAssumption
  <2>4. fd \in Int
    BY <2>3, SizesAssumption
  <2> QED BY <2>1, <2>3, <2>4
<1>2. fd < MaxFiles /\ "F_WRITE" \in fds[p][fd].flags
  BY <1>1 DEF hasPermissions, EntryAt, Beyond
<1>3. fd \in FD /\ EntryAt(p, fd) = fds[p][fd]
  BY <1>1, <1>2, SizesAssumption DEF FD, EntryAt
<1>4. /\ fds[p][fd].occupied /\ fds[p][fd].file[1] # "invalid"
      /\ \E s \in Slot : fds[p][fd].file = Queue(s)
  BY <1>1, <1>2, <1>3, EntryIs DEF Known, Tables
<1>5. Operable(p, fd, "WRITE")
  <2>1. hasPermissions(p, fd, "WRITE")
    OBVIOUS
  <2> QED BY <1>3, <1>4, <2>1 DEF Operable, existsFile, isValidFileType
<1>6. PICK s \in Slot : fds[p][fd].file = Queue(s)
  BY <1>4
<1>7. owner[s]["F_WRITE"] = p
  <2>1. HasEnd(p, s, "F_WRITE") /\ "F_WRITE" \in QueueEnd
    BY <1>2, <1>3, <1>6 DEF HasEnd, QueueEnd
  <2> QED BY <2>1, EndsAre DEF Tables, TablesInStep
<1>8. writeChar(p, Queue(s))
  BY <1>7, InputIs DEF writeChar
<1> QED BY <1>3, <1>5, <1>6, <1>8, InputIs

(* A call begins with an entry that is there.                              *)
LEMMA CallIOKnows ==
  ASSUME IInv, Tables, CallsKnow, NEW p \in Proc, NEW op \in {"READ", "WRITE"}, NEW fd \in Used,
         NEW n \in 1..MaxBytes, CallIO(p, op, fd, n)
  PROVE  Tables' /\ CallsKnow'
<1> DEFINE b == "F_NOBLOCK" \notin EntryAt(p, fd).flags
           c == [NoIO EXCEPT !.op = op, !.fd = fd, !.wanted = n, !.blocking = b]
<1>1. /\ existsFile(p, fd) /\ UNCHANGED <<tables, data, robbed>>
      /\ pc' = [pc EXCEPT ![p] = "test"] /\ io' = [io EXCEPT ![p] = c]
  BY DEF CallIO, Goto
<1>2. c.op = op /\ c.fd = fd
  BY DEF NoIO
<1> HIDE DEF c
<1>3. \A q \in Proc : /\ pc'[q] = IF q = p THEN "test" ELSE pc[q]
                      /\ io'[q] = IF q = p THEN c ELSE io[q]
                      /\ fds'[q] = fds[q]
  BY <1>1 DEF IInv, LocalsOK, tables
<1>5. Known(p, "test", fds[p], c, data, robbed)
  BY <1>1, <1>2 DEF Known, existsFile
<1>6. CallsKnow'
  BY <1>1, <1>3, <1>5, CallerStep
<1>7. Tables'
  BY <1>1, OthersInStep DEF Tables, FilesTyped
<1> QED BY <1>6, <1>7

(* An input that the test lets through is not empty.                       *)
LEMMA TestKnows ==
  ASSUME IInv, Tables, CallsKnow, NEW p \in Proc, Test(p)
  PROVE  Tables' /\ CallsKnow'
<1> DEFINE f == EntryAt(p, io[p].fd).file
           mustWait == /\ Operable(p, io[p].fd, "IS_EMPTY")
                       /\ IF io[p].op = "READ" THEN isEmpty(f) ELSE isFull(f)
           x == IF ~mustWait THEN "move" ELSE IF io[p].blocking THEN "test" ELSE "return"
<1>1. /\ pc[p] = "test" /\ pc' = [pc EXCEPT ![p] = x] /\ UNCHANGED <<tables, data, io>>
      /\ robbed' = robbed \ {p}
  BY DEF Test, Goto
<1>2. Known(p, "test", fds[p], io[p], data, robbed)
  BY <1>1 DEF CallsKnow
<1>3. ~mustWait /\ io[p].op = "READ" /\ f \in Inputs => data[f] # <<>>
  <2> SUFFICES ASSUME ~mustWait, io[p].op = "READ", f \in Inputs PROVE data[f] # <<>>
    OBVIOUS
  <2>1. f[1] \in {"STDIN", "RAW_KEYS"}
    BY InputIs
  <2>2. Operable(p, io[p].fd, "IS_EMPTY")
    BY <1>2, <2>1 DEF Operable, existsFile, hasPermissions, isValidFileType, Known
  <2>3. ~isEmpty(f)
    BY <2>2
  <2>4. CASE f[1] = "STDIN"
    <3>1. \E i \in DOMAIN data[f] : data[f][i] = "newline"
      BY <2>3, <2>4 DEF isEmpty
    <3> QED BY <3>1
  <2>5. CASE f[1] = "RAW_KEYS"
    BY <2>3, <2>5 DEF isEmpty
  <2> QED BY <2>1, <2>4, <2>5
<1>4. x = "move" => ~mustWait
  OBVIOUS
<1>5. x \in {"test", "move", "return"} /\ (x = "return" => ~io[p].blocking)
  OBVIOUS
<1>6. f = FileOf(p, fds[p], io[p])
  BY FileOfIs
<1> HIDE DEF x, mustWait, f
<1>7. \A q \in Proc : pc'[q] = IF q = p THEN x ELSE pc[q]
  BY <1>1 DEF IInv, LocalsOK
<1>8. Known(p, x, fds[p], io[p], data, robbed')
  BY <1>2, <1>3, <1>4, <1>5, <1>6 DEF Known
<1>9. CallsKnow'
  BY <1>1, <1>7, <1>8, CallerStep DEF tables
<1>10. Tables'
  BY <1>1, OthersInStep DEF Tables, FilesTyped
<1> QED BY <1>9, <1>10

(* What is read is one's own input, or from a queue; what a file holds     *)
(* stays a sequence.                                                       *)
LEMMA DataStep ==
  ASSUME FilesTyped, NEW f, NEW s, s \in Seq(Char), data' = [data EXCEPT ![f] = s]
  PROVE  /\ data' \in [File -> Seq(Char)]
         /\ \A g \in File : g # f => data'[g] = data[g]
BY DEF FilesTyped

(* What is in a file after a byte was read from it or written to it.       *)
LEMMA AfterMove ==
  ASSUME FilesTyped, NEW f \in File
  PROVE  AfterRead(f) \in Seq(Char) /\ AfterWrite(f) \in Seq(Char)
<1>1. data[f] \in Seq(Char) /\ "x" \in Char
  BY DEF FilesTyped, Char
<1>2. AfterRead(f) \in Seq(Char)
  BY <1>1 DEF AfterRead
<1>3. AfterWrite(f) \in Seq(Char)
  BY <1>1 DEF AfterWrite
<1> QED BY <1>2, <1>3

(* A read that fails had no permission; one that ends, has all or a line.  *)
LEMMA ReadOneKnows ==
  ASSUME IInv, Tables, CallsKnow, NEW p \in Proc, ReadOne(p)
  PROVE  Tables' /\ CallsKnow'
<1> DEFINE f == EntryAt(p, io[p].fd).file
           got == IF data[f] = <<>> THEN "x" ELSE Head(data[f])
           c == [io[p] EXCEPT !.done = @ + 1, !.got = got]
           x == IF io[p].done + 1 = io[p].wanted \/ (f[1] = "STDIN" /\ got = "newline")
                THEN "return" ELSE "test"
<1>1. pc[p] = "move" /\ io[p].op = "READ" /\ IsIO(io[p]) /\ UNCHANGED tables
  BY DEF ReadOne, IInv, LocalsOK
<1>2. Known(p, "move", fds[p], io[p], data, robbed)
  BY <1>1 DEF CallsKnow
<1>3. f = FileOf(p, fds[p], io[p])
  BY FileOfIs
<1>4. CASE ~(Operable(p, io[p].fd, "READ") /\ readChar(p, f))
  <2>1. pc' = [pc EXCEPT ![p] = "return"] /\ UNCHANGED <<data, io, robbed>>
    BY <1>4 DEF ReadOne, Goto
  <2>2. ~hasPermissions(p, io[p].fd, "READ") \/ p \in robbed
    BY <1>1, <1>4, ReadSucceeds
  <2>3. ~Allows(fds[p], io[p]) \/ p \in robbed
    BY <1>1, <2>2, AllowsIsPermission DEF IInv
  <2>4. Known(p, "return", fds[p], io[p], data, robbed)
    BY <1>2, <2>3 DEF Known, Finished
  <2>5. \A q \in Proc : pc'[q] = IF q = p THEN "return" ELSE pc[q]
    BY <2>1 DEF IInv, LocalsOK
  <2>6. CallsKnow'
    BY <1>1, <2>1, <2>4, <2>5, CallerStep DEF tables
  <2> QED BY <1>1, <2>1, <2>6, OthersInStep DEF Tables, FilesTyped
<1>5. CASE Operable(p, io[p].fd, "READ") /\ readChar(p, f)
  <2>1. /\ data' = [data EXCEPT ![f] = AfterRead(f)]
        /\ io' = [io EXCEPT ![p].done = @ + 1, ![p].got = got]
    BY <1>5 DEF ReadOne
  <2>2. io'[p].got = got
    <3> HIDE DEF got
    <3> QED BY <1>1, <2>1 DEF IInv, LocalsOK, IsIO
  <2>3. pc' = [pc EXCEPT ![p] = x]
    BY <1>5, <2>2 DEF ReadOne, Goto
  <2>4. robbed' = robbed \cup Waiters(p, f)
    BY <1>5 DEF ReadOne
  <2>5. f \in File
    BY <1>1, <1>5, ReadSucceeds DEF Operable
  <2>6. IsIO(c) /\ c.fd = io[p].fd /\ c.op = io[p].op /\ c.done = io[p].done + 1
        /\ c.wanted = io[p].wanted /\ c.blocking = io[p].blocking /\ c.got = got
    <3> HIDE DEF got
    <3>1. IsIO(c) /\ c.fd = io[p].fd /\ c.op = io[p].op
      BY <1>1, OneByteMore
    <3>2. c.done = io[p].done + 1 /\ c.wanted = io[p].wanted /\ c.blocking = io[p].blocking /\ c.got = got
      BY <1>1 DEF IsIO
    <3> QED BY <3>1, <3>2
  <2>7. x \in {"test", "return"} /\ (x = "return" => c.done = c.wanted \/ (f[1] = "STDIN" /\ c.got = "newline"))
    BY <2>6
  <2>8. io' = [io EXCEPT ![p] = c]
    <3> HIDE DEF got
    <3> QED BY <2>1 DEF IInv, LocalsOK
  <2> HIDE DEF c, x, f, got
  <2>9. \A q \in Proc : pc'[q] = (IF q = p THEN x ELSE pc[q]) /\ io'[q] = (IF q = p THEN c ELSE io[q])
    BY <2>3, <2>8 DEF IInv, LocalsOK
  <2>10. f = FileOf(p, fds[p], c)
    BY <1>3, <2>6 DEF FileOf
  <2>11. Known(p, x, fds[p], c, data', robbed')
    BY <1>2, <2>6, <2>7, <2>10 DEF Known, Finished
  <2>12. data' \in [File -> Seq(Char)] /\ \A g \in File : g # f => data'[g] = data[g]
    BY <2>1, <2>5, AfterMove, DataStep DEF Tables
  <2>13. ASSUME NEW q \in Proc, q # p, pc[q] = "move", io[q].op = "READ",
                NEW g \in Inputs, g = FileOf(q, fds[q], io[q]), data[g] # <<>>
         PROVE  data'[g] # <<>> \/ q \in robbed'
    <3>1. g \in File /\ g[1] \in Device
      BY InputIs DEF Device
    <3>2. CASE g # f
      BY <2>12, <2>13, <3>1, <3>2
    <3>3. CASE g = f
      <4>1. EntryAt(q, io[q].fd).file = g
        BY <2>13, FileOfIs
      <4> QED BY <2>4, <2>13, <3>1, <3>3, <4>1 DEF Waiters
    <3> QED BY <3>2, <3>3
  <2>15. robbed \subseteq robbed'
    BY <2>4
  <2>14. CallsKnow'
    BY <1>1, <2>9, <2>11, <2>13, <2>15, CallerStep DEF tables
  <2> QED BY <1>1, <2>12, <2>14, OthersInStep
<1> QED BY <1>4, <1>5

(* A write that fails had no permission; only queues are written.          *)
LEMMA WriteOneKnows ==
  ASSUME IInv, Tables, CallsKnow, NEW p \in Proc, WriteOne(p)
  PROVE  Tables' /\ CallsKnow'
<1> DEFINE f == EntryAt(p, io[p].fd).file
           c == [io[p] EXCEPT !.done = @ + 1]
           x == IF io[p].done + 1 = io[p].wanted THEN "return" ELSE "test"
<1>1. pc[p] = "move" /\ io[p].op = "WRITE" /\ IsIO(io[p]) /\ UNCHANGED <<tables, robbed>>
  BY DEF WriteOne, IInv, LocalsOK
<1>2. Known(p, "move", fds[p], io[p], data, robbed)
  BY <1>1 DEF CallsKnow
<1>3. CASE ~(Operable(p, io[p].fd, "WRITE") /\ writeChar(p, f))
  <2>1. pc' = [pc EXCEPT ![p] = "return"] /\ UNCHANGED <<data, io, robbed>>
    BY <1>3 DEF WriteOne, Goto
  <2>2. ~hasPermissions(p, io[p].fd, "WRITE")
    BY <1>1, <1>3, WriteSucceeds
  <2>3. ~Allows(fds[p], io[p])
    BY <1>1, <2>2, AllowsIsPermission DEF IInv
  <2>4. Known(p, "return", fds[p], io[p], data, robbed)
    BY <1>2, <2>3 DEF Known, Finished
  <2>5. \A q \in Proc : pc'[q] = IF q = p THEN "return" ELSE pc[q]
    BY <2>1 DEF IInv, LocalsOK
  <2>6. CallsKnow'
    BY <1>1, <2>1, <2>4, <2>5, CallerStep DEF tables
  <2> QED BY <1>1, <2>1, <2>6, OthersInStep DEF Tables, FilesTyped
<1>4. CASE Operable(p, io[p].fd, "WRITE") /\ writeChar(p, f)
  <2>1. data' = [data EXCEPT ![f] = AfterWrite(f)] /\ io' = [io EXCEPT ![p] = c]
    BY <1>4 DEF WriteOne, IInv, LocalsOK
  <2>2. pc' = [pc EXCEPT ![p] = x]
    BY <1>4 DEF WriteOne, Goto
  <2>3. f \in File \ Inputs
    BY <1>1, <1>4, WriteSucceeds DEF Operable
  <2>4. IsIO(c) /\ c.fd = io[p].fd /\ c.op = io[p].op /\ c.done = io[p].done + 1
        /\ c.wanted = io[p].wanted /\ c.blocking = io[p].blocking
    BY <1>1 DEF IsIO
  <2>5. x \in {"test", "return"} /\ (x = "return" => c.done = c.wanted)
    BY <2>4
  <2> HIDE DEF c, x, f
  <2>6. \A q \in Proc : pc'[q] = (IF q = p THEN x ELSE pc[q]) /\ io'[q] = (IF q = p THEN c ELSE io[q])
    BY <2>1, <2>2 DEF IInv, LocalsOK
  <2>7. Known(p, x, fds[p], c, data', robbed')
    BY <1>1, <1>2, <2>4, <2>5 DEF Known, Finished
  <2>8. data' \in [File -> Seq(Char)] /\ \A g \in File : g # f => data'[g] = data[g]
    BY <2>1, <2>3, AfterMove, DataStep DEF Tables
  <2>9. \A g \in Inputs : data'[g] = data[g]
    BY <2>3, <2>8, InputIs
  <2>10. CallsKnow'
    BY <1>1, <2>6, <2>7, <2>9, CallerStep DEF tables
  <2> QED BY <1>1, <2>8, <2>10, OthersInStep
<1> QED BY <1>3, <1>4

(* A process that is in no call of read or write has nothing to know.      *)
LEMMA OutsideKnows ==
  ASSUME IInv, Tables, CallsKnow, NEW p \in Proc,
         Return(p) \/ SleepOn(p) \/ WakeUp(p) \/ \E ms \in Pauses : CallSleep(p, ms)
  PROVE  Tables' /\ CallsKnow'
<1>0. pc = [q \in Proc |-> pc[q]] /\ io = [q \in Proc |-> io[q]]
  BY DEF IInv, LocalsOK
<1>1. UNCHANGED <<tables, data>> /\ (UNCHANGED io \/ io' = [io EXCEPT ![p] = NoIO])
  BY DEF Return, SleepOn, WakeUp, CallSleep
<1>2. (UNCHANGED pc /\ pc[p] = "asleep") \/ \E x \in {"user", "asleep"} : pc' = [pc EXCEPT ![p] = x]
  BY DEF Return, SleepOn, WakeUp, CallSleep, Goto
<1>3. \A q \in Proc : q # p => pc'[q] = pc[q] /\ io'[q] = io[q]
  BY <1>0, <1>1, <1>2
<1>4. pc'[p] \in {"user", "asleep"}
  BY <1>2 DEF IInv, LocalsOK
<1>5. Known(p, pc'[p], fds'[p], io'[p], data', robbed')
  BY <1>4 DEF Known
<1>8. robbed' = robbed \/ robbed' = robbed \ {p}
  BY DEF Return, SleepOn, WakeUp, CallSleep
<1>6. CallsKnow'
  BY <1>1, <1>3, <1>5, <1>8, CallerStep DEF tables
<1>7. Tables'
  BY <1>1, OthersInStep DEF Tables, FilesTyped
<1> QED BY <1>6, <1>7

(* Nor has one that opens or closes: nobody is in a call of its own then.  *)
LEMMA OpenCloseKnow ==
  ASSUME IInv, Tables, CallsKnow, NEW p \in Proc,
         \/ \E s \in Slot, end \in QueueEnd, nb \in BOOLEAN : OpenQueue(p, s, end, nb)
         \/ \E fd \in Closable : Close(p, fd)
  PROVE  Tables' /\ CallsKnow'
<1>1. pc[p] = "user" /\ UNCHANGED <<pc, io, robbed>>
  BY DEF OpenQueue, Close
<1>2. Tables'
  BY OpenInStep, CloseInStep
<1>3. \A q \in Proc : q # p => fds'[q] = fds[q]
  <2>1. fds' = fds \/ \E row : fds' = [fds EXCEPT ![p] = row]
    BY DEF OpenQueue, Close, addFile, removeFile
  <2>2. fds = [q \in Proc |-> fds[q]]
    BY DEF IInv, LocalsOK
  <2> QED BY <2>1, <2>2
<1>4. Known(p, pc'[p], fds'[p], io'[p], data', robbed')
  BY <1>1 DEF Known
<1>5. \A g \in Inputs : data'[g] = data[g]
  <2>1. \/ data' = data
        \/ \E f : f[1] = "MESSAGE_QUEUE" /\ data' = [data EXCEPT ![f] = <<>>]
    BY DEF OpenQueue, Close
  <2>2. \A g \in Inputs : g \in File /\ g[1] # "MESSAGE_QUEUE"
    BY InputIs
  <2>3. data \in [File -> Seq(Char)]
    BY DEF Tables, FilesTyped
  <2> QED BY <2>1, <2>2, <2>3
<1>6. CallsKnow'
  BY <1>1, <1>3, <1>4, <1>5, CallerStep
<1> QED BY <1>2, <1>6

(* The user types, the clock ticks.                                        *)
LEMMA DevicesKnow ==
  ASSUME IInv, Tables, CallsKnow, KeyPressed \/ Tick \/ UNCHANGED vars
  PROVE  Tables' /\ CallsKnow'
<1>1. UNCHANGED <<tables, pc, io, robbed>>
  BY DEF KeyPressed, Tick, vars
<1>2. data' \in [File -> Seq(Char)] /\ \A g \in Inputs : data[g] # <<>> => data'[g] # <<>>
  <2>1. data \in [File -> Seq(Char)] /\ \A g \in Inputs : g \in File
    BY InputIs DEF Tables, FilesTyped
  <2>2. CASE UNCHANGED data
    BY <2>1, <2>2
  <2>3. ASSUME NEW f \in Inputs, NEW char \in Char, data' = [data EXCEPT ![f] = Append(@, char)]
        PROVE  data' \in [File -> Seq(Char)] /\ \A g \in Inputs : data[g] # <<>> => data'[g] # <<>>
    <3>1. data[f] \in Seq(Char) /\ Append(data[f], char) \in Seq(Char) /\ Append(data[f], char) # <<>>
      BY <2>1
    <3> QED BY <2>1, <2>3, <3>1
  <2>4. CASE KeyPressed
    <3>1. \E f \in Inputs : \E char \in Char : data' = [data EXCEPT ![f] = Append(@, char)]
      <4>1. CASE rawEnqueueKey
        BY <4>1 DEF rawEnqueueKey, Inputs, Char
      <4>2. CASE \E char \in Char : stdinEnqueueChar(char)
        <5>1. PICK char \in Char : stdinEnqueueChar(char)
          BY <4>2
        <5> DEFINE f == <<"STDIN", 0>>
                   typed == IF Len(data[f]) + 1 = DeviceRoom THEN "newline" ELSE char
        <5>2. typed \in Char /\ f \in Inputs
          BY DEF Char, Inputs
        <5>3. data' = [data EXCEPT ![f] = Append(@, typed)]
          BY <5>1 DEF stdinEnqueueChar
        <5> QED BY <5>2, <5>3
      <4> QED BY <2>4, <4>1, <4>2 DEF KeyPressed
    <3> QED BY <2>3, <3>1
  <2> QED BY <2>2, <2>4 DEF Tick, vars
<1>3. CallsKnow'
  <2>1. ASSUME NEW p \in Proc PROVE CallsKnow'
    <3>1. Known(p, pc[p], fds[p], io[p], data, robbed)
      BY DEF CallsKnow
    <3>2. Known(p, pc[p], fds[p], io[p], data', robbed')
      BY <1>1, <1>2, <3>1 DEF Known
    <3> QED BY <1>1, <1>2, <3>2, CallerStep DEF tables
  <2> QED BY <2>1 DEF CallsKnow
<1> QED BY <1>1, <1>2, <1>3, OthersInStep

-----------------------------------------------------------------------------
(* At the start every process has the four files of createProcess.         *)
LEMMA InitTables == Init => Tables /\ CallsKnow
<1> SUFFICES ASSUME Init PROVE Tables /\ CallsKnow
  OBVIOUS
<1> DEFINE first(d) == CASE d < 3 -> openSTDIOFiles[d + 1] [] d = 3 -> openRawKeys [] OTHER -> Free
<1>1. \A p \in Proc : \A d \in FD : fds[p][d] = first(d)
  BY DEF Init
<1>2. \A d \in FD : d \in Nat
  BY Descriptors
<1>3. \A d \in FD : first(d) \in FileEntry /\ IsEntry(d, first(d)) /\ (\A s : first(d).file # Queue(s))
                    /\ (first(d).occupied <=> d < 4)
  <2> SUFFICES ASSUME NEW d \in FD
               PROVE  /\ first(d) \in FileEntry /\ IsEntry(d, first(d))
                      /\ \A s : first(d).file # Queue(s)
                      /\ first(d).occupied <=> d < 4
    OBVIOUS
  <2>0. ASSUME NEW f \in Inputs \cup Outputs, NEW fl \in QueueEnd
        PROVE  LET e == Entry(f, {fl})
               IN  e \in FileEntry /\ e.occupied = TRUE /\ \A s : e.file # Queue(s)
    BY DEF Entry, FileEntry, Inputs, Outputs, Queue, QueueEnd
  <2>1. CASE d = 0
    <3>1. first(d) = Entry(<<"STDIN", 0>>, {"F_READ"})
      BY <2>1 DEF openSTDIOFiles
    <3>2. <<"STDIN", 0>> \in Inputs /\ "F_READ" \in QueueEnd
      BY DEF Inputs, QueueEnd
    <3> HIDE DEF first
    <3>3. IsEntry(d, first(d))
      BY <2>1, <3>1, <3>2 DEF IsEntry, IsInput
    <3>4. first(d) \in FileEntry /\ first(d).occupied = TRUE /\ \A s : first(d).file # Queue(s)
      BY <2>0, <3>1, <3>2
    <3> QED BY <2>1, <3>3, <3>4
  <2>2. CASE d = 1
    <3>1. first(d) = Entry(<<"STDOUT", 0>>, {"F_WRITE"})
      BY <2>2 DEF openSTDIOFiles
    <3>2. <<"STDOUT", 0>> \in Outputs /\ "F_WRITE" \in QueueEnd
      BY DEF Outputs, QueueEnd
    <3> HIDE DEF first
    <3>3. IsEntry(d, first(d))
      BY <2>2, <3>1, <3>2 DEF IsEntry, IsOutput
    <3>4. first(d) \in FileEntry /\ first(d).occupied = TRUE /\ \A s : first(d).file # Queue(s)
      BY <2>0, <3>1, <3>2
    <3> QED BY <2>2, <3>3, <3>4
  <2>3. CASE d = 2
    <3>1. first(d) = Entry(<<"STDERR", 0>>, {"F_WRITE"})
      BY <2>3 DEF openSTDIOFiles
    <3>2. <<"STDERR", 0>> \in Outputs /\ "F_WRITE" \in QueueEnd
      BY DEF Outputs, QueueEnd
    <3> HIDE DEF first
    <3>3. IsEntry(d, first(d))
      BY <2>3, <3>1, <3>2 DEF IsEntry, IsOutput
    <3>4. first(d) \in FileEntry /\ first(d).occupied = TRUE /\ \A s : first(d).file # Queue(s)
      BY <2>0, <3>1, <3>2
    <3> QED BY <2>3, <3>3, <3>4
  <2>4. CASE d = 3
    <3>1. first(d) = Entry(<<"RAW_KEYS", 0>>, {"F_READ"})
      BY <2>4 DEF openRawKeys
    <3>2. <<"RAW_KEYS", 0>> \in Inputs /\ "F_READ" \in QueueEnd
      BY DEF Inputs, QueueEnd
    <3> HIDE DEF first
    <3>3. IsEntry(d, first(d))
      BY <2>4, <3>1, <3>2 DEF IsEntry, IsInput
    <3>4. first(d) \in FileEntry /\ first(d).occupied = TRUE /\ \A s : first(d).file # Queue(s)
      BY <2>0, <3>1, <3>2
    <3> QED BY <2>4, <3>3, <3>4
  <2>5. CASE d > 3
    <3>1. first(d) = Free
      BY <1>2, <2>5
    <3> HIDE DEF first
    <3> QED BY <1>2, <2>5, <3>1 DEF Free, FileEntry, IsEntry, Inputs, Queue
  <2> QED BY <1>2, <2>1, <2>2, <2>3, <2>4, <2>5
<1> HIDE DEF first
<1>4. FilesTyped
  <2>1. fds \in [Proc -> [FD -> FileEntry]]
    <3>1. fds = [p \in Proc |-> [d \in FD |-> first(d)]]
      BY DEF Init, first
    <3> QED BY <1>3, <3>1
  <2>2. size \in [Proc -> Int] /\ data \in [File -> Seq(Char)]
    BY DEF Init
  <2>3. owner \in [Slot -> [QueueEnd -> Proc \cup {NoPID}]]
    BY DEF Init, QueueEnd
  <2> QED BY <2>1, <2>2, <2>3 DEF FilesTyped
<1>5. Entries /\ OnceEach
  BY <1>1, <1>3 DEF Entries, OnceEach
<1>6. SizeIsCount
  <2>1. ASSUME NEW p \in Proc PROVE size[p] = Cardinality(Occupied(p))
    <3>1. Occupied(p) = {d \in FD : d < 4}
      BY <1>1, <1>3 DEF Occupied
    <3>2. Occupied(p) = 0..3
      BY <3>1, SizesAssumption DEF FD
    <3>3. Cardinality(0..3) = IF 0 > 3 THEN 0 ELSE 3 - 0 + 1
      <4>1. 0 \in Int /\ 3 \in Int
        OBVIOUS
      <4> HIDE DEF first
      <4> QED BY ONLY <4>1, FS_Interval
    <3> QED BY <3>2, <3>3 DEF Init
  <2> QED BY <2>1 DEF SizeIsCount
<1>7. EndsAreHeld
  <2>1. \A q \in Proc, t \in Slot, g \in QueueEnd : owner[t][g] # q /\ ~HasEnd(q, t, g)
    BY <1>1, <1>3, ProcAssumption DEF Init, QueueEnd, HasEnd
  <2> QED BY <2>1, EndsAre
<1>8. CallsKnow
  BY DEF Init, CallsKnow, Known
<1> QED BY <1>4, <1>5, <1>6, <1>7, <1>8 DEF Tables, TablesInStep

(* No step breaks any of it.                                               *)
LEMMA NextKnows == IInv /\ Tables /\ CallsKnow /\ [Next]_vars => Tables' /\ CallsKnow'
<1> SUFFICES ASSUME IInv, Tables, CallsKnow, [Next]_vars PROVE Tables' /\ CallsKnow'
  OBVIOUS
<1>1. CASE KeyPressed \/ Tick \/ UNCHANGED vars
  BY <1>1, DevicesKnow
<1>2. ASSUME NEW p \in Proc, InCall(p) PROVE Tables' /\ CallsKnow'
  BY <1>2, TestKnows, ReadOneKnows, WriteOneKnows, OutsideKnows DEF InCall
<1>3. ASSUME NEW p \in Proc, Calls(p) PROVE Tables' /\ CallsKnow'
  BY <1>3, CallIOKnows, OpenCloseKnow, OutsideKnows DEF Calls, QueueEnd
<1> QED BY <1>1, <1>2, <1>3 DEF Next

LEMMA TablesAndCalls == Spec => [](IInv /\ Tables /\ CallsKnow)
<1>1. Init => IInv /\ Tables /\ CallsKnow
  BY InitEstablishes, InitTables
<1>2. (IInv /\ Tables /\ CallsKnow) /\ [Next]_vars => (IInv /\ Tables /\ CallsKnow)'
  BY NextKeeps, NextKnows
<1> QED BY <1>1, <1>2, PTL DEF Spec

(* The count of files is that of the entries in use, so that addFile never *)
(* writes past the table, and who has an end of a queue has a descriptor   *)
(* for it and nobody else, whatever is opened, refused and closed          *)
(* (process.c:324-366, mq.c:62-146).                                       *)
THEOREM TablesStayInStep == Spec => []TablesInStep
<1>1. Tables => TablesInStep
  BY DEF Tables
<1> QED BY <1>1, TablesAndCalls, PTL

(* A blocking call the process has the permission for moves all the bytes  *)
(* it was asked to, or a line, whoever else reads and writes, unless a     *)
(* second reader of the same device took the byte between its test and its *)
(* move (scheduler.c:352-375, 401-447); no other reason is left for any    *)
(* number of processes, files and bytes.                                   *)
THEOREM BlockingCallsAreComplete == Spec => []BlockingCallsComplete
<1>1. IInv /\ CallsKnow => BlockingCallsComplete
  <2> SUFFICES ASSUME IInv, CallsKnow, NEW p \in Proc, pc[p] = "return", io[p].blocking
               PROVE  Complete(p) \/ p \in robbed
    BY DEF BlockingCallsComplete
  <2>1. Known(p, pc[p], fds[p], io[p], data, robbed)
    BY DEF CallsKnow
  <2>2. Finished(FileOf(p, fds[p], io[p]), fds[p], io[p]) \/ p \in robbed
    BY <2>1 DEF Known
  <2>3. EntryAt(p, io[p].fd).file = FileOf(p, fds[p], io[p])
    BY FileOfIs
  <2>4. Allows(fds[p], io[p]) <=> hasPermissions(p, io[p].fd, io[p].op)
    BY AllowsIsPermission DEF IInv
  <2> QED BY <2>2, <2>3, <2>4 DEF Finished, Complete
<1> QED BY <1>1, TablesAndCalls, PTL
=============================================================================

------------------------------ MODULE Waiting ------------------------------
(***************************************************************************)
(* Everything a process waits for in a system call: reading and writing    *)
(* through its table of files (scheduler.c waitForIO; process.c addFile,   *)
(* removeFile, operateFile; fileManager.c; the operations of tty.c,        *)
(* rawKeys.c and mq.c behind it), and sleeping (waitForTime, time.c).      *)
(*                                                                         *)
(* A call of operateFile is one step: what goes on inside one, access by   *)
(* access, is the business of BasicFile (queues) and Keyboard (devices),   *)
(* and the standard output and error that of Terminal.  Between two of     *)
(* them any other process may run, and the user type.                      *)
(***************************************************************************)
EXTENDS Integers, Sequences, FiniteSets

CONSTANTS
  Proc,          \* bound: the processes
  Sleepers,      \* bound: the processes that sleep
  NoPID,         \* mq.c's -1: an end of a queue nobody has
  HasHeap,       \* the processes that have asked malloc for memory
  MaxFiles,      \* MAX_FILES of process.h
  MaxMQs,        \* MAX_MQS of mq.c
  QueueRoom,     \* the bytes a queue has room for
  DeviceRoom,    \* the size of the buffers of tty.c and rawKeys.c
  MaxBytes,      \* bound: the largest maxBytes
  Used,          \* bound: the descriptors read and written
  Closable,      \* bound: the descriptors closed
  Pauses,        \* bound: the miliseconds a process sleeps
  MaxTicks       \* bound: ticks of the clock

ASSUME ProcAssumption  == NoPID \notin Proc /\ HasHeap \subseteq Proc /\ Sleepers \subseteq Proc
ASSUME SizesAssumption ==
  /\ MaxFiles \in Nat /\ MaxFiles >= 4 /\ MaxMQs \in Nat
  /\ QueueRoom \in Nat \ {0} /\ DeviceRoom \in Nat \ {0}
  /\ Used \subseteq (0..MaxFiles) \ {1, 2} /\ Closable \subseteq 0..MaxFiles
  /\ MaxBytes \in Nat \ {0} /\ MaxTicks \in Nat /\ Pauses \subseteq Nat

VARIABLES
  fds, size,       \* fileDescriptors of each PCB entry
  data,            \* what each file holds, oldest first
  owner,           \* mqs: the readPID and the writePID of each queue
  tickCount,       \* time.c
  pc, io, pause,   \* the system call each process is in, and its locals
  robbed           \* history: who was told of data another reader then took

tables  == <<fds, size, owner>>
vars    == <<tables, data, tickCount, pc, io, pause, robbed>>

Device == {"STDIN", "RAW_KEYS"}
Slot   == 0..(MaxMQs - 1)
File   == (Device \X {0}) \cup ({"MESSAGE_QUEUE"} \X Slot)
FD     == 0..(MaxFiles - 1)

Char  == {"x", "newline"}

(* An entry of the table: the file, and the flags it was opened with.      *)
Free          == [occupied |-> FALSE, file |-> <<"STDIN", 0>>, flags |-> {}]
Entry(f, fl)  == [occupied |-> TRUE, file |-> f, flags |-> fl]

(* What the four bytes after the last entry are taken for: they are the    *)
(* pointers stackPage and heapPage, so the type is 0 (STDIN) without heap  *)
(* and no type at all with one, and the flags are the upper half of an     *)
(* address, 0.                                                             *)
Beyond(p) == [occupied |-> TRUE, flags |-> {},
              file |-> IF p \in HasHeap THEN <<"invalid", 0>> ELSE <<"STDIN", 0>>]
EntryAt(p, fd) == IF fd < MaxFiles THEN fds[p][fd] ELSE Beyond(p)

NoIO    == [op |-> "READ", fd |-> 0, wanted |-> 0, done |-> 0, blocking |-> TRUE, got |-> "x"]
NoPause == [ms |-> 0, start |-> 0, elapsed |-> 0]

(* createProcess opens the terminal and the raw keys: openSTDIOFiles and   *)
(* openRawKeys, four addFile calls on an empty table.                      *)
openSTDIOFiles == <<Entry(<<"STDIN", 0>>, {"F_READ"}), Entry(<<"STDOUT", 0>>, {"F_WRITE"}),
                    Entry(<<"STDERR", 0>>, {"F_WRITE"})>>
openRawKeys    == Entry(<<"RAW_KEYS", 0>>, {"F_READ"})

Init ==
  /\ fds = [p \in Proc |-> [d \in FD |->
              CASE d < 3 -> openSTDIOFiles[d + 1] [] d = 3 -> openRawKeys [] OTHER -> Free]]
  /\ size = [p \in Proc |-> 4]
  /\ data = [f \in File |-> <<>>]
  /\ owner = [s \in Slot |-> [F_READ |-> NoPID, F_WRITE |-> NoPID]]
  /\ tickCount = 0
  /\ pc = [p \in Proc |-> "user"]
  /\ io = [p \in Proc |-> NoIO]
  /\ pause = [p \in Proc |-> NoPause]
  /\ robbed = {}

Goto(p, point) == pc' = [pc EXCEPT ![p] = point]

-----------------------------------------------------------------------------
(* fileManager.c: the operations of each type of file.                     *)

Closed(s) == owner[s].F_READ = NoPID /\ owner[s].F_WRITE = NoPID   \* links = 0

(* IS_EMPTY.  The terminal has data when it has the end of a line; a queue *)
(* that is not there answers -1, which operate() takes for yes.            *)
isEmpty(f) ==
  CASE f[1] = "STDIN"         -> \A i \in DOMAIN data[f] : data[f][i] # "newline"
    [] f[1] = "RAW_KEYS"      -> data[f] = <<>>
    [] f[1] = "MESSAGE_QUEUE" -> Closed(f[2]) \/ data[f] = <<>>

(* IS_FULL: rawIsFull answers the opposite of its name.                    *)
isFull(f) ==
  CASE f[1] = "STDIN"         -> Len(data[f]) = DeviceRoom
    [] f[1] = "RAW_KEYS"      -> Len(data[f]) # DeviceRoom
    [] f[1] = "MESSAGE_QUEUE" -> Closed(f[2]) \/ Len(data[f]) = QueueRoom

(* READ and WRITE that do not return -1.  A queue answers to its reader    *)
(* and its writer only; with nothing to read or no room it answers EOF,    *)
(* which operate() takes for success.                                      *)
readChar(p, f) ==
  CASE f[1] \in {"STDIN", "RAW_KEYS"} -> data[f] # <<>>
    [] f[1] = "MESSAGE_QUEUE"         -> owner[f[2]].F_READ = p

writeChar(p, f) == f[1] = "MESSAGE_QUEUE" /\ owner[f[2]].F_WRITE = p

(* What a file holds after a byte was read from it, or written to it.      *)
AfterRead(f)     == IF data[f] = <<>> THEN <<>> ELSE Tail(data[f])
AfterWrite(f)    == IF Len(data[f]) = QueueRoom THEN data[f] ELSE Append(data[f], "x")

-----------------------------------------------------------------------------
(* process.c: the table of files of a process.                             *)

isValidFileType(f) == f[1] # "invalid"

(* Mutant: operateFile without the look at occupied.                       *)
existsFileAlways(p, fd) == TRUE

(* existsFile answers -1, true, beyond the table.                          *)
existsFile(p, fd) == fd < MaxFiles => fds[p][fd].occupied

hasPermissions(p, fd, op) ==
  CASE op = "READ"  -> "F_READ"  \in EntryAt(p, fd).flags
    [] op = "WRITE" -> "F_WRITE" \in EntryAt(p, fd).flags
    [] OTHER        -> TRUE

(* Mutant: no look at the flags.                                           *)
OperableByAll(p, fd, op) == existsFile(p, fd) /\ isValidFileType(EntryAt(p, fd).file)

(* operateFile gets through to the file.                                   *)
Operable(p, fd, op) ==
  existsFile(p, fd) /\ hasPermissions(p, fd, op) /\ isValidFileType(EntryAt(p, fd).file)

(* addFile: the first entry that is not occupied, if size says there is    *)
(* one; the search itself has no bound.                                    *)
FirstFree(p) == CHOOSE d \in 0..MaxFiles : /\ d < MaxFiles => ~fds[p][d].occupied
                                           /\ \A e \in FD : e < d => fds[p][e].occupied
addFile(p, f, flags) ==
  /\ size[p] < MaxFiles
  /\ fds' = [fds EXCEPT ![p] = [d \in FD |-> IF d = FirstFree(p) THEN Entry(f, flags) ELSE @[d]]]
  /\ size' = [size EXCEPT ![p] = @ + 1]

removeFile(p, fd) ==
  IF fd >= MaxFiles THEN UNCHANGED <<fds, size>>
  ELSE /\ fds' = [fds EXCEPT ![p][fd] = Free]
       /\ size' = [size EXCEPT ![p] = @ - 1]

-----------------------------------------------------------------------------
(* MQopen on queue s with a room in the table; processes do not open an end*)
(* twice, nor both ends of a queue (MessageQueues has what happens then).  *)
markAccessTakesOver(s, end) == TRUE   \* mutant: a second reader pushes out the first
markAccess(s, end) == owner[s][end] = NoPID
OpenQueue(p, s, end, noblock) ==
  /\ pc[p] = "user"
  /\ \A e \in {"F_READ", "F_WRITE"} : owner[s][e] # p
  /\ markAccess(s, end)
  /\ addFile(p, <<"MESSAGE_QUEUE", s>>, {end} \cup (IF noblock THEN {"F_NOBLOCK"} ELSE {}))
  /\ owner' = [owner EXCEPT ![s][end] = p]
  /\ UNCHANGED <<data, tickCount, pc, io, pause, robbed>>

(* MQ_CLOSE fd: operateFile(CLOSE).  The last one to close a queue takes   *)
(* its bytes with it; a file that is not a queue just leaves the table.    *)
Close(p, fd) ==
  /\ pc[p] = "user"
  /\ Operable(p, fd, "CLOSE")
  /\ LET f == EntryAt(p, fd).file IN
       IF f[1] # "MESSAGE_QUEUE" THEN UNCHANGED <<owner, data>>
       ELSE /\ owner' = [owner EXCEPT ![f[2]] = [e \in DOMAIN @ |-> IF @[e] = p THEN NoPID ELSE @[e]]]
            /\ data' = IF \A e \in {"F_READ", "F_WRITE"} : owner[f[2]][e] \in {p, NoPID}
                       THEN [data EXCEPT ![f] = <<>>] ELSE data
  /\ removeFile(p, fd)
  /\ UNCHANGED <<tickCount, pc, io, pause, robbed>>

-----------------------------------------------------------------------------
(* read(fd, buffer, n) and write(fd, buffer, n): SYSREAD and SYSWRITE, or, *)
(* for one byte, MQ_RECEIVE and MQ_SEND.  waitForIO lets fd = MAX_FILES    *)
(* pass.  Nothing keeps two processes from reading the same device: type   *)
(* ahead starts a game while a receiver of the game before still reads raw *)
(* keys (inputReceiver.c:41).                                              *)
CallIO(p, op, fd, n) ==
  /\ pc[p] = "user"
  /\ existsFile(p, fd)
  /\ io' = [io EXCEPT ![p] = [NoIO EXCEPT !.op = op, !.fd = fd, !.wanted = n,
                              !.blocking = "F_NOBLOCK" \notin EntryAt(p, fd).flags]]
  /\ Goto(p, "test")
  /\ UNCHANGED <<tables, data, tickCount, pause, robbed>>

(* IS_EMPTY or IS_FULL: wait (yield), give up, or go on.                   *)
Test(p) ==
  LET c == io[p]
      f == EntryAt(p, c.fd).file
      mustWait == /\ Operable(p, c.fd, "IS_EMPTY")
                  /\ IF c.op = "READ" THEN isEmpty(f) ELSE isFull(f)
  IN /\ pc[p] = "test"
     /\ Goto(p, IF ~mustWait THEN "move" ELSE IF c.blocking THEN "test" ELSE "return")
     /\ robbed' = robbed \ {p}
     /\ UNCHANGED <<tables, data, tickCount, io, pause>>

(* The others that were told of data in f, an input, and are about to read.*)
Waiters(p, f) ==
  {q \in Proc \ {p} : /\ f[1] \in Device
                      /\ pc[q] = "move" /\ io[q].op = "READ"
                      /\ EntryAt(q, io[q].fd).file = f}

(* READ, and the end of the loop: an error, maxBytes, or the end of a line *)
ReadOne(p) ==
  LET c == io[p]
      f == EntryAt(p, c.fd).file
  IN /\ pc[p] = "move" /\ c.op = "READ"
     /\ IF ~(Operable(p, c.fd, "READ") /\ readChar(p, f))
        THEN Goto(p, "return") /\ UNCHANGED <<data, io, robbed>>
        ELSE /\ data' = [data EXCEPT ![f] = AfterRead(f)]
             /\ robbed' = robbed \cup Waiters(p, f)
             /\ io' = [io EXCEPT ![p].done = @ + 1,
                                 ![p].got = IF data[f] = <<>> THEN "x" ELSE Head(data[f])]
             /\ Goto(p, IF c.done + 1 = c.wanted \/ (f[1] = "STDIN" /\ io'[p].got = "newline")
                        THEN "return" ELSE "test")
     /\ UNCHANGED <<tables, tickCount, pause>>

WriteOne(p) ==
  LET c == io[p]
      f == EntryAt(p, c.fd).file
  IN /\ pc[p] = "move" /\ c.op = "WRITE"
     /\ IF ~(Operable(p, c.fd, "WRITE") /\ writeChar(p, f))
        THEN Goto(p, "return") /\ UNCHANGED <<data, io>>
        ELSE /\ data' = [data EXCEPT ![f] = AfterWrite(f)]
             /\ io' = [io EXCEPT ![p].done = @ + 1]
             /\ Goto(p, IF c.done + 1 = c.wanted THEN "return" ELSE "test")
     /\ UNCHANGED <<tables, tickCount, pause, robbed>>

Return(p) ==
  /\ pc[p] = "return"
  /\ io' = [io EXCEPT ![p] = NoIO]
  /\ robbed' = robbed \ {p}
  /\ Goto(p, "user")
  /\ UNCHANGED <<tables, data, tickCount, pause>>

-----------------------------------------------------------------------------
(* The keyboard handler: a character for the terminal or a raw key, as     *)
(* long as there is room; the last place of the terminal gets a newline.   *)
stdinEnqueueChar(char) ==
  LET f == <<"STDIN", 0>> IN
  /\ Len(data[f]) < DeviceRoom
  /\ data' = [data EXCEPT ![f] = Append(@, IF Len(@) + 1 = DeviceRoom THEN "newline" ELSE char)]

rawEnqueueKey ==
  LET f == <<"RAW_KEYS", 0>> IN
  /\ Len(data[f]) < DeviceRoom
  /\ data' = [data EXCEPT ![f] = Append(@, "x")]

KeyPressed ==
  /\ rawEnqueueKey \/ \E char \in Char : stdinEnqueueChar(char)
  /\ UNCHANGED <<tables, tickCount, pc, io, pause, robbed>>

-----------------------------------------------------------------------------
(* time.c: 200 ticks a second.                                             *)
getPITfrequency == 200
tick == tickCount < MaxTicks /\ tickCount' = tickCount + 1

(* time(): tickCount / (double) freq * 1000, cut off.  At most ticks the   *)
(* quotient is a little less or more than it should be; where it is less,  *)
(* the result is one too small.                                            *)
time(n) == LET ms == (n * 1000) \div getPITfrequency IN {ms} \cup (IF n > 0 THEN {ms - 1} ELSE {})

Tick == tick /\ UNCHANGED <<tables, data, pc, io, pause, robbed>>

(* waitForTime(ms).                                                        *)
sleepFor(ms) == (ms * getPITfrequency) \div 1000
(* Mutant: the comparison one tick short.                                  *)
StillSleepingOneLess(p) == pause[p].elapsed < sleepFor(pause[p].ms)

StillSleeping(p) == pause[p].elapsed <= sleepFor(pause[p].ms)

CallSleep(p, ms) ==
  /\ pc[p] = "user"
  /\ pause' = [pause EXCEPT ![p] = [ms |-> ms, start |-> tickCount, elapsed |-> 0]]
  /\ Goto(p, "asleep")
  /\ UNCHANGED <<tables, data, tickCount, io, robbed>>

(* a turn of the loop, then yield                                          *)
SleepOn(p) ==
  /\ pc[p] = "asleep" /\ StillSleeping(p)
  /\ pause' = [pause EXCEPT ![p].elapsed = tickCount - pause[p].start]
  /\ UNCHANGED <<tables, data, tickCount, pc, io, robbed>>

WakeUp(p) ==
  /\ pc[p] = "asleep" /\ ~StillSleeping(p)
  /\ pause' = [pause EXCEPT ![p] = NoPause]
  /\ Goto(p, "user")
  /\ UNCHANGED <<tables, data, tickCount, io, robbed>>

-----------------------------------------------------------------------------
InCall(p) == \/ Test(p) \/ ReadOne(p) \/ WriteOne(p)
             \/ Return(p) \/ SleepOn(p) \/ WakeUp(p)

Calls(p) == \/ \E op \in {"READ", "WRITE"}, fd \in Used, n \in 1..MaxBytes : CallIO(p, op, fd, n)
            \/ \E s \in Slot, end \in {"F_READ", "F_WRITE"}, nb \in BOOLEAN : OpenQueue(p, s, end, nb)
            \/ \E fd \in Closable : Close(p, fd)
            \/ p \in Sleepers /\ \E ms \in Pauses : CallSleep(p, ms)

Next == (\E p \in Proc : InCall(p) \/ Calls(p)) \/ KeyPressed \/ Tick

Spec == Init /\ [][Next]_vars

-----------------------------------------------------------------------------
Occupied(p) == {d \in FD : fds[p][d].occupied}

(* The count of files is the number of entries in use, whatever is opened, *)
(* refused and closed, at the end of the table too: addFile looks for a    *)
(* free entry without a bound, and would write past the table.             *)
SizeIsCount == \A p \in Proc : size[p] = Cardinality(Occupied(p))

(* Who has an end of a queue has a descriptor for it, and the other way    *)
(* round: closing and refusing keep the two tables in step.                *)
EndsAreHeld ==
  \A p \in Proc, s \in Slot, end \in {"F_READ", "F_WRITE"} :
    owner[s][end] = p <=> \E d \in FD : /\ fds[p][d].file = <<"MESSAGE_QUEUE", s>>
                                        /\ end \in fds[p][d].flags

(* Both, whatever is opened, refused and closed in whatever order          *)
(* (process.c:324-366, mq.c:62-146).                                       *)
TablesInStep == SizeIsCount /\ EndsAreHeld

(* A blocking call the process has the permission for moves all the bytes  *)
(* it was asked to, or a line, and comes back short for one reason only: a *)
(* second reader of the same device took the byte between test and move.   *)
(* From a queue, and for room, nobody takes anything away.                 *)
Complete(p) ==
  LET c == io[p] f == EntryAt(p, c.fd).file IN
  \/ c.done = c.wanted
  \/ f[1] = "STDIN" /\ c.got = "newline"
  \/ ~hasPermissions(p, c.fd, c.op)
BlockingCallsComplete == \A p \in Proc : pc[p] = "return" /\ io[p].blocking => Complete(p) \/ p \in robbed

(* A call for which there is no permission, of an entry past the table for *)
(* one, moves no byte: nobody else's input disappears.                     *)
RefusedCallsMoveNothing ==
  \A p \in Proc : pc[p] = "return" /\ ~hasPermissions(p, io[p].fd, io[p].op) => io[p].done = 0

(* A process that asks TIME before and after SLEEP sees that at least the  *)
(* miliseconds it slept for have gone by, although both are rounded down.  *)
SleepLooksLongEnough ==
  [][\A p \in Proc : pc[p] = "asleep" /\ pc'[p] = "user" =>
       \A before \in time(pause[p].start), after \in time(tickCount) : after - before >= pause[p].ms]_vars
=============================================================================

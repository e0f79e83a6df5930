--------------------------- MODULE MessageQueues ---------------------------
(***************************************************************************)
(* The table of message queues (Kernel/c/mq.c) with the table of circular  *)
(* files behind it (Kernel/c/basicFile.c) and the descriptors in front of  *)
(* it (addFile, removeFile and operateFile of Kernel/c/process.c).         *)
(*                                                                         *)
(* MQopen and MQclose run in system calls, with interrupts on: MQopen      *)
(* under openMutex, MQclose under closeMutex, both on the same tables.     *)
(* pc[p] is the next step of the call process p is in, or "user", and a    *)
(* tick may come before any step.  A step reads or writes one thing the    *)
(* other side writes: a search looks at one slot, x++ is a load and a      *)
(* store (the kernel is built without -O).  What is done in the same step  *)
(* besides is in the caller's stack or descriptors, or in an entry nobody  *)
(* else can have an index of yet.                                          *)
(*                                                                         *)
(* The code does go wrong on some of these ticks.  faults remembers which  *)
(* of five things have happened; the properties say what holds as long as  *)
(* those they name have not.                                               *)
(*                                                                         *)
(* The bytes of a queue are BasicFile's business, processes Scheduler's.   *)
(***************************************************************************)
EXTENDS Integers, FiniteSets

CONSTANTS
  NumProc,       \* bound: the processes, none of them new or replaced
  Name,          \* bound: the names queues are opened by
  MaxMQs,        \* MAX_MQS
  MaxFiles,      \* maxFiles of basicFile.c
  MaxFDs,        \* MAX_FILES of process.h, less the four standard files
  FDsLeft,       \* bound: the descriptors no other queue of a process takes
  Wrap,          \* bound: the values of a uint64_t counter
  GoOn           \* bound: whether calls begin after a fault, too

Proc == 1..NumProc
Slot == 0..(MaxMQs - 1)       \* indices in mqs
FileSlot == 0..(MaxFiles - 1) \* indices in filesTable
FD   == 0..(MaxFDs - 1)
Counter == 0..(Wrap - 1)

NULL   == -1
NoPID  == -1
NoName == "free"              \* the empty name of an unused file

Modes == {{"F_READ"}, {"F_WRITE"}}

OpenPoints  == {"openLock", "find", "slot", "room", "search", "countFile", "newMQ",
                "countMQ", "mark", "markStore", "addFile", "link", "openUnlock"}
ClosePoints == {"closeLock", "unmark", "unlink", "unlinkStore", "last", "destroy", "filesLoad",
                "filesStore", "free", "mqsLoad", "mqsStore", "closeUnlock", "removeFile"}
Point       == {"user"} \cup OpenPoints \cup ClosePoints

ASSUME SizesAssumption ==
  /\ NumProc \in Nat \ {0} /\ MaxMQs \in Nat \ {0}
  /\ MaxFiles \in Nat \ {0} /\ MaxFDs \in Nat
  /\ FDsLeft \in [Proc -> Nat]
ASSUME WrapAssumption == Wrap \in Nat /\ Wrap > MaxMQs + 1 /\ Wrap > MaxFiles + 1 /\ Wrap > 3
ASSUME NameAssumption == NoName \notin Name
ASSUME GoOnAssumption == GoOn \in BOOLEAN

VARIABLES
  mqs, numMQs,             \* mq.c: struct MessageQueue [MAX_MQS]
  filesTable, numFiles,    \* basicFile.c: the name of each file
  fds,                     \* process.c: the descriptors of each process
  orphans,                 \* history: the files destroyBasicFile did not find
  openMutex, closeMutex,
  alive, cpu,              \* the processes, and the one that has the CPU
  pc, local,               \* the processes' stacks
  faults                   \* history: see Fault

tables  == <<mqs, numMQs, filesTable, numFiles, orphans, fds>>
mutexes == <<openMutex, closeMutex>>
vars    == <<tables, mutexes, alive, cpu, pc, local, faults>>

FreeMQ == [file |-> NULL, links |-> 0, readPID |-> NoPID, writePID |-> NoPID]

(* A descriptor keeps its index in mqs and its flags; name is a history    *)
(* variable, the name it was opened by.                                    *)
Closed   == [index |-> NULL, flags |-> {}, name |-> NoName]

(* index, file and seen are a search's; count is a counter's loaded value. *)
NoLocals == [name |-> NoName, flags |-> {}, index |-> NULL, file |-> NULL, seen |-> 0,
             count |-> 0, fd |-> NULL, rollback |-> FALSE, ok |-> FALSE]

Init ==
  /\ mqs = [i \in Slot |-> FreeMQ] /\ numMQs = 0
  /\ filesTable = [f \in FileSlot |-> NoName] /\ numFiles = 0
  /\ fds = [p \in Proc |-> [d \in FD |-> Closed]] /\ orphans = {}
  /\ openMutex = 0 /\ closeMutex = 0
  /\ alive = Proc /\ cpu = 1
  /\ pc = [p \in Proc |-> "user"]
  /\ local = [p \in Proc |-> NoLocals]
  /\ faults = {}

-----------------------------------------------------------------------------
Lowest(S) == CHOOSE i \in S : \A j \in S : i <= j
LowestOrNull(S) == IF S = {} THEN NULL ELSE Lowest(S)

(* The round-robin scheduler: the process after p.                         *)
After(p, running) == IF \E q \in running : q > p THEN Lowest({q \in running : q > p})
                                                 ELSE Lowest(running)

At(p, point)   == cpu = p /\ p \in alive /\ pc[p] = point
Goto(p, point) == pc' = [pc EXCEPT ![p] = point]
Return(p)      == Goto(p, "user") /\ local' = [local EXCEPT ![p] = NoLocals]
Stay           == UNCHANGED <<alive, cpu>>
Yield(p)       == cpu' = After(p, alive) /\ UNCHANGED <<tables, mutexes, alive, pc, local>>

Begin   == GoOn \/ faults = {}

Tick(p) == cpu = p /\ p \in alive /\ Yield(p)

(* Counters are unsigned.                                                  *)
Up(n)   == (n + 1) % Wrap
Down(n) == (n - 1) % Wrap

(* indexOfFile compares names with an array, which is never NULL: unused   *)
(* files count, and the first numFiles files are all it looks at.          *)
indexOfFile(f) ==
  LowestOrNull({g \in FileSlot : g < numFiles /\ filesTable[g] = filesTable[f]})

(* markAccess: reading comes first; the field that says whose the end is.  *)
End(flags) == IF "F_READ" \in flags THEN "readPID" ELSE "writePID"

-----------------------------------------------------------------------------
(* MQopen(name, flags).  No program opens a queue that it has open.        *)
CallOpen(p, name, flags) ==
  /\ At(p, "user") /\ Begin
  /\ \A d \in FD : fds[p][d].name # name
  /\ local' = [local EXCEPT ![p] = [NoLocals EXCEPT !.name = name, !.flags = flags]]
  /\ Goto(p, "openLock")
  /\ Stay /\ UNCHANGED <<tables, mutexes>>

OpenLock(p) ==
  /\ At(p, "openLock") /\ openMutex = 0
  /\ openMutex' = 1
  /\ local' = [local EXCEPT ![p].index = 0]
  /\ Goto(p, "find")
  /\ Stay /\ UNCHANGED <<tables, closeMutex>>

OpenLockBusy(p) == At(p, "openLock") /\ openMutex = 1 /\ Yield(p)

(* A round of indexOfMQ, which stops after numMQs queues.                  *)
indexOfMQ(p) ==
  LET i == local[p].index IN
  /\ At(p, "find")
  /\ IF local[p].seen >= numMQs \/ i = MaxMQs
     THEN local' = [local EXCEPT ![p].index = 0, ![p].seen = 0] /\ Goto(p, "slot")
     ELSE IF mqs[i].file # NULL /\ filesTable[mqs[i].file] = local[p].name
     THEN local' = [local EXCEPT ![p].seen = 0] /\ Goto(p, "mark")
     ELSE /\ local' = [local EXCEPT ![p].index = i + 1,
                                    ![p].seen = IF mqs[i].file = NULL THEN @ ELSE @ + 1]
          /\ UNCHANGED pc
  /\ Stay /\ UNCHANGED <<tables, mutexes>>

(* A round of findFreeSlot.                                                *)
findFreeSlot(p) ==
  LET i == local[p].index IN
  /\ At(p, "slot")
  /\ IF i = MaxMQs THEN Goto(p, "openUnlock") /\ UNCHANGED local
     ELSE IF mqs[i].file = NULL THEN Goto(p, "room") /\ UNCHANGED local
     ELSE local' = [local EXCEPT ![p].index = i + 1] /\ UNCHANGED pc
  /\ Stay /\ UNCHANGED <<tables, mutexes>>

(* createBasicFile refuses a name in use, and any with no file left.       *)
createBasicFile(p) ==
  /\ At(p, "room")
  /\ IF numFiles >= MaxFiles \/ \E f \in FileSlot : filesTable[f] = local[p].name
     THEN Goto(p, "openUnlock") /\ UNCHANGED local
     ELSE local' = [local EXCEPT ![p].file = 0] /\ Goto(p, "search")
  /\ Stay /\ UNCHANGED <<tables, mutexes>>

(* A round of its search for an unused file, which is then filled in; the  *)
(* load of numFiles++.  With numFiles too low the search leaves the table: *)
(* the model does not follow it there.                                     *)
fillFile(p) ==
  LET f == local[p].file IN
  /\ At(p, "search") /\ f < MaxFiles
  /\ IF filesTable[f] = NoName
     THEN /\ filesTable' = [filesTable EXCEPT ![f] = local[p].name]
          /\ local' = [local EXCEPT ![p].count = numFiles]
          /\ Goto(p, "countFile")
     ELSE local' = [local EXCEPT ![p].file = f + 1] /\ UNCHANGED <<filesTable, pc>>
  /\ Stay /\ UNCHANGED <<mqs, numMQs, numFiles, orphans, fds, mutexes>>

countFile(p) ==
  /\ At(p, "countFile")
  /\ numFiles' = Up(local[p].count)
  /\ Goto(p, "newMQ")
  /\ Stay /\ UNCHANGED <<mqs, numMQs, filesTable, orphans, fds, mutexes, local>>

(* newMQ fills in the slot and marks the end; the load of numMQs++.        *)
newMQ(p) ==
  /\ At(p, "newMQ")
  /\ mqs' = [mqs EXCEPT ![local[p].index] =
       [[FreeMQ EXCEPT !.file = local[p].file] EXCEPT ![End(local[p].flags)] = p]]
  /\ local' = [local EXCEPT ![p].count = numMQs, ![p].file = NULL]
  /\ Goto(p, "countMQ")
  /\ Stay /\ UNCHANGED <<numMQs, filesTable, numFiles, orphans, fds, mutexes>>

countMQ(p) ==
  /\ At(p, "countMQ")
  /\ numMQs' = Up(local[p].count)
  /\ Goto(p, "addFile")
  /\ Stay /\ UNCHANGED <<mqs, filesTable, numFiles, orphans, fds, mutexes, local>>

(* Mutants of markAccess: an end that is taken is taken over; when it is   *)
(* taken, openMutex is not given back.                                     *)
markAccessKeepsMutex(p) ==
  LET q == mqs[local[p].index] IN
  /\ At(p, "mark")
  /\ IF q.file = NULL \/ q[End(local[p].flags)] # NoPID
     THEN Return(p) ELSE Goto(p, "markStore") /\ UNCHANGED local
  /\ Stay /\ UNCHANGED <<tables, mutexes>>
markAccessTakes(p) ==
  /\ At(p, "mark")
  /\ Goto(p, "markStore")
  /\ Stay /\ UNCHANGED <<tables, mutexes, local>>

(* markAccess on a queue that is there: its tests, and its store.          *)
markAccess(p) ==
  LET q == mqs[local[p].index] IN
  /\ At(p, "mark")
  /\ Goto(p, IF q.file = NULL \/ q[End(local[p].flags)] # NoPID THEN "openUnlock" ELSE "markStore")
  /\ Stay /\ UNCHANGED <<tables, mutexes, local>>

markAccessStore(p) ==
  /\ At(p, "markStore")
  /\ mqs' = [mqs EXCEPT ![local[p].index][End(local[p].flags)] = p]
  /\ Goto(p, "addFile")
  /\ Stay /\ UNCHANGED <<numMQs, filesTable, numFiles, orphans, fds, mutexes, local>>

(* With no descriptor left, the queue is closed again; else the load of    *)
(* links++.                                                                *)
addFile(p) ==
  LET d == LowestOrNull({e \in FD : e < FDsLeft[p] /\ fds[p][e] = Closed}) IN
  /\ At(p, "addFile")
  /\ IF d = NULL
     THEN /\ local' = [local EXCEPT ![p].rollback = TRUE]
          /\ Goto(p, "closeLock")
          /\ UNCHANGED fds
     ELSE /\ fds' = [fds EXCEPT ![p][d] = [index |-> local[p].index, flags |-> local[p].flags,
                                           name |-> local[p].name]]
          /\ local' = [local EXCEPT ![p].count = mqs[local[p].index].links]
          /\ Goto(p, "link")
  /\ Stay /\ UNCHANGED <<mqs, numMQs, filesTable, numFiles, orphans, mutexes>>

(* Mutant of Link: an open is not counted.                                 *)
LinkMissing(p) ==
  /\ At(p, "link")
  /\ Goto(p, "openUnlock")
  /\ Stay /\ UNCHANGED <<tables, mutexes, local>>

Link(p) ==
  /\ At(p, "link")
  /\ mqs' = [mqs EXCEPT ![local[p].index].links = Up(local[p].count)]
  /\ Goto(p, "openUnlock")
  /\ Stay /\ UNCHANGED <<numMQs, filesTable, numFiles, orphans, fds, mutexes, local>>

OpenUnlock(p) ==
  /\ At(p, "openUnlock")
  /\ openMutex' = 0
  /\ Return(p)
  /\ Stay /\ UNCHANGED <<tables, closeMutex>>

-----------------------------------------------------------------------------
(* operateFile(fd, CLOSE): MQclose, and removeFile if that went well.      *)
CallClose(p, d) ==
  /\ At(p, "user") /\ Begin /\ fds[p][d] # Closed
  /\ local' = [local EXCEPT ![p] = [NoLocals EXCEPT !.index = fds[p][d].index, !.fd = d]]
  /\ Goto(p, "closeLock")
  /\ Stay /\ UNCHANGED <<tables, mutexes>>

CloseLock(p) ==
  /\ At(p, "closeLock") /\ closeMutex = 0
  /\ closeMutex' = 1
  /\ Goto(p, "unmark")
  /\ Stay /\ UNCHANGED <<tables, openMutex, local>>

CloseLockBusy(p) == At(p, "closeLock") /\ closeMutex = 1 /\ Yield(p)

(* Mutant of Unmark: the caller keeps its end.                             *)
UnmarkMissing(p) ==
  /\ At(p, "unmark")
  /\ Goto(p, "unlink")
  /\ Stay /\ UNCHANGED <<tables, mutexes, local>>

(* The caller gives up the end it has; if it has both, the reading end.    *)
Unmark(p) ==
  LET q == mqs[local[p].index]
      mine == CASE q.readPID = p -> "readPID"
                [] q.readPID # p /\ q.writePID = p -> "writePID"
                [] OTHER -> "none"
  IN
  /\ At(p, "unmark")
  /\ IF q.file = NULL \/ mine = "none"
     THEN Goto(p, "closeUnlock") /\ UNCHANGED mqs
     ELSE mqs' = [mqs EXCEPT ![local[p].index][mine] = NoPID] /\ Goto(p, "unlink")
  /\ Stay /\ UNCHANGED <<numMQs, filesTable, numFiles, orphans, fds, mutexes, local>>

(* The test of links and the load of links--.                              *)
Unlink(p) ==
  LET links == mqs[local[p].index].links IN
  /\ At(p, "unlink")
  /\ local' = [local EXCEPT ![p].ok = TRUE, ![p].count = links]
  /\ Goto(p, IF links > 0 THEN "unlinkStore" ELSE "last")
  /\ Stay /\ UNCHANGED <<tables, mutexes>>

UnlinkStore(p) ==
  /\ At(p, "unlinkStore")
  /\ mqs' = [mqs EXCEPT ![local[p].index].links = Down(local[p].count)]
  /\ local' = [local EXCEPT ![p].count = 0]
  /\ Goto(p, "last")
  /\ Stay /\ UNCHANGED <<numMQs, filesTable, numFiles, orphans, fds, mutexes>>

(* Mutant of Last: the queue goes when one process still has it open.      *)
LastEarly(p) ==
  /\ At(p, "last")
  /\ Goto(p, IF mqs[local[p].index].links <= 1 THEN "destroy" ELSE "closeUnlock")
  /\ Stay /\ UNCHANGED <<tables, mutexes, local>>

(* links is read again.                                                    *)
Last(p) ==
  /\ At(p, "last")
  /\ Goto(p, IF mqs[local[p].index].links = 0 THEN "destroy" ELSE "closeUnlock")
  /\ Stay /\ UNCHANGED <<tables, mutexes, local>>

(* destroyMQ does not look at what destroyBasicFile returns.               *)
destroyBasicFile(p) ==
  LET g == indexOfFile(mqs[local[p].index].file) IN
  /\ At(p, "destroy")
  /\ IF g = NULL
     THEN /\ orphans' = orphans \cup {mqs[local[p].index].file}
          /\ Goto(p, "free") /\ UNCHANGED filesTable
     ELSE /\ filesTable' = [filesTable EXCEPT ![g] = NoName]
          /\ Goto(p, "filesLoad") /\ UNCHANGED orphans
  /\ Stay /\ UNCHANGED <<mqs, numMQs, numFiles, fds, mutexes, local>>

LoadFiles(p) ==
  /\ At(p, "filesLoad")
  /\ local' = [local EXCEPT ![p].count = numFiles]
  /\ Goto(p, "filesStore")
  /\ Stay /\ UNCHANGED <<tables, mutexes>>

uncountFile(p) ==
  /\ At(p, "filesStore")
  /\ numFiles' = Down(local[p].count)
  /\ Goto(p, "free")
  /\ Stay /\ UNCHANGED <<mqs, numMQs, filesTable, orphans, fds, mutexes, local>>

destroyMQ(p) ==
  /\ At(p, "free")
  /\ mqs' = [mqs EXCEPT ![local[p].index].file = NULL]
  /\ Goto(p, "mqsLoad")
  /\ Stay /\ UNCHANGED <<numMQs, filesTable, numFiles, orphans, fds, mutexes, local>>

LoadMQs(p) ==
  /\ At(p, "mqsLoad")
  /\ local' = [local EXCEPT ![p].count = numMQs]
  /\ Goto(p, "mqsStore")
  /\ Stay /\ UNCHANGED <<tables, mutexes>>

uncountMQ(p) ==
  /\ At(p, "mqsStore")
  /\ numMQs' = Down(local[p].count)
  /\ local' = [local EXCEPT ![p].count = 0]
  /\ Goto(p, "closeUnlock")
  /\ Stay /\ UNCHANGED <<mqs, filesTable, numFiles, orphans, fds, mutexes>>

CloseUnlock(p) ==
  /\ At(p, "closeUnlock")
  /\ closeMutex' = 0
  /\ IF local[p].rollback THEN Goto(p, "openUnlock") /\ UNCHANGED local
     ELSE IF local[p].ok THEN Goto(p, "removeFile") /\ UNCHANGED local
     ELSE Return(p)
  /\ Stay /\ UNCHANGED <<tables, openMutex>>

removeFile(p) ==
  /\ At(p, "removeFile")
  /\ fds' = [fds EXCEPT ![p][local[p].fd] = Closed]
  /\ Return(p)
  /\ Stay /\ UNCHANGED <<mqs, numMQs, filesTable, numFiles, orphans, mutexes>>

-----------------------------------------------------------------------------
(* EXIT, and the destroyProcess that follows: the descriptors are cleared, *)
(* the files are not closed: a queue keeps the pid and the link of a dead  *)
(* process for ever.                                                       *)
Exit(p) ==
  /\ At(p, "user")
  /\ alive' = alive \ {p}
  /\ cpu' = IF alive = {p} THEN p ELSE After(p, alive \ {p})
  /\ fds' = [fds EXCEPT ![p] = [d \in FD |-> Closed]]
  /\ UNCHANGED <<mqs, numMQs, filesTable, numFiles, orphans, mutexes, pc, local>>

(* What goes wrong when steps of an open and of a close fall together:     *)
(*   "links"   both have loaded the links of one queue: a store is lost    *)
(*   "counts"  both have loaded numFiles, or numMQs                        *)
(*   "joined"  a queue somebody is about to open is being destroyed        *)
(*   "passed"  a search has begun, and what it counted is being destroyed  *)
(* and, whatever the ticks:                                                *)
(*   "undone"  a failed open takes off the link of somebody else           *)
Joining(p) == \/ pc[p] \in {"mark", "markStore", "countMQ", "addFile", "link"}
              \/ local[p].rollback /\ pc[p] \in {"closeLock", "unmark"}
Destroying(p) == pc[p] \in {"destroy", "filesLoad", "filesStore", "free"}

Fault(p, q) ==
  LET same == local[p].index = local[q].index IN
       {x \in {"links"}  : same /\ pc[p] = "link" /\ pc[q] = "unlinkStore"}
  \cup {x \in {"counts"} : <<pc[p], pc[q]>> \in {<<"countFile", "filesStore">>, <<"countMQ", "mqsStore">>}}
  \cup {x \in {"joined"} : same /\ p # q /\ Joining(p) /\ Destroying(q)}
  \cup {x \in {"passed"} : pc[p] \in {"find", "slot"} /\ local[p].index > 0
                             /\ pc[q] \in {"free", "mqsLoad", "mqsStore"}}
  \cup {x \in {"undone"} : local[p].rollback /\ pc[p] = "unlinkStore"}

Faulty == UNION {Fault(p, q) : p, q \in Proc}

(* Nothing runs once every process has ended.                              *)
Ended == alive = {} /\ UNCHANGED vars

Open(p)  == \/ OpenLock(p) \/ OpenLockBusy(p) \/ indexOfMQ(p) \/ findFreeSlot(p)
            \/ createBasicFile(p) \/ fillFile(p) \/ countFile(p) \/ newMQ(p) \/ countMQ(p)
            \/ markAccess(p) \/ markAccessStore(p) \/ addFile(p) \/ Link(p) \/ OpenUnlock(p)
Close(p) == \/ CloseLock(p) \/ CloseLockBusy(p) \/ Unmark(p) \/ Unlink(p) \/ UnlinkStore(p)
            \/ Last(p) \/ destroyBasicFile(p) \/ LoadFiles(p) \/ uncountFile(p)
            \/ destroyMQ(p) \/ LoadMQs(p) \/ uncountMQ(p) \/ CloseUnlock(p) \/ removeFile(p)
Call(p)  == Open(p) \/ Close(p)
User(p)  == \/ \E name \in Name, flags \in Modes : CallOpen(p, name, flags)
            \/ \E d \in FD : CallClose(p, d)
            \/ Exit(p)
Step(p)  == (Tick(p) \/ Call(p) \/ User(p)) /\ faults' = faults \cup Faulty'

Next == Ended \/ \E p \in Proc : Step(p)

Spec == Init /\ [][Next]_vars

-----------------------------------------------------------------------------
TypeOK ==
  /\ mqs \in [Slot -> [file : FileSlot \cup {NULL}, links : Counter,
                       readPID : Proc \cup {NoPID}, writePID : Proc \cup {NoPID}]]
  /\ numMQs \in Counter /\ numFiles \in Counter
  /\ filesTable \in [FileSlot -> Name \cup {NoName}]
  /\ fds \in [Proc -> [FD -> [index : Slot \cup {NULL}, flags : Modes \cup {{}},
                              name : Name \cup {NoName}]]]
  /\ orphans \subseteq FileSlot \cup {NULL}
  /\ openMutex \in {0, 1} /\ closeMutex \in {0, 1}
  /\ alive \subseteq Proc /\ cpu \in Proc /\ pc \in [Proc -> Point]
  /\ local \in [Proc -> [name : Name \cup {NoName}, flags : Modes \cup {{}},
                         index : Slot \cup {NULL, MaxMQs}, file : FileSlot \cup {NULL, MaxFiles},
                         seen : 0..MaxMQs, count : Counter, fd : FD \cup {NULL},
                         rollback : BOOLEAN, ok : BOOLEAN]]
  /\ faults \subseteq {"links", "counts", "joined", "passed", "undone"}

(* The descriptors that are open: MQclose has not begun to close them.     *)
Closing(p, d) == pc[p] \in ClosePoints \ {"closeLock", "unmark"} /\ local[p].fd = d
OpenFD(p, d)  == p \in alive /\ fds[p][d] # Closed /\ ~Closing(p, d)

LinksKept == faults \cap {"links", "joined", "undone"} = {}

(* A queue is not destroyed until all who opened it have closed it         *)
(* (mq.h:61): an open descriptor leads to the queue of its name.  So it is *)
(* unless the count of links has lost an update, somebody joined a queue   *)
(* that was being destroyed, or a failed open has been undone.             *)
LeadsToQueue(p, d) ==
  LET q == mqs[fds[p][d].index] IN q.file # NULL /\ filesTable[q.file] = fds[p][d].name
QueueIsOpen == LinksKept => \A p \in Proc : \A d \in FD : OpenFD(p, d) => LeadsToQueue(p, d)

(* What mq.h:61 says, with no such condition: the code does not keep it.   *)
QueueStaysOpen == \A p \in Proc : \A d \in FD : OpenFD(p, d) => LeadsToQueue(p, d)

(* It can be read, or written, by its owner as long as it is open; so no   *)
(* two processes have the same end of a queue.                             *)
EndIsMine ==
  LinksKept => \A p \in Proc : \A d \in FD :
    OpenFD(p, d) => mqs[fds[p][d].index][End(fds[p][d].flags)] = p

(* links is the number of processes that have the queue open (mq.c:17),    *)
(* that is, of its ends that are taken, but for an open that has not yet   *)
(* counted and a close that has not yet uncounted.                         *)
EndsTaken(i) == {e \in {"readPID", "writePID"} : mqs[i][e] # NoPID}
Uncounted(i) == {p \in Proc : local[p].index = i /\ pc[p] # "mark" /\ pc[p] # "markStore" /\ Joining(p)}
Leaving(i)   == {p \in Proc : local[p].index = i /\ ~local[p].rollback
                              /\ pc[p] \in {"unlink", "unlinkStore"}}
LinksCount ==
  LinksKept => \A i \in Slot : mqs[i].file # NULL =>
    mqs[i].links + Cardinality(Uncounted(i)) = Cardinality(EndsTaken(i)) + Cardinality(Leaving(i))

(* numMQs and numFiles are the numbers of queues and of files in use, but  *)
(* for one being made and one being destroyed.                             *)
InUse(points) == Cardinality({p \in Proc : pc[p] \in points})
CountsAreRight ==
  "counts" \notin faults =>
    /\ numMQs + InUse({"countMQ"}) =
         Cardinality({i \in Slot : mqs[i].file # NULL}) + InUse({"mqsLoad", "mqsStore"})
    /\ numFiles + InUse({"countFile"}) =
         Cardinality({f \in FileSlot : filesTable[f] # NoName}) + InUse({"filesLoad", "filesStore"})

(* Destroying a file frees it (basicFile.h:48): every file in the table is *)
(* that of a queue, but for one whose queue is being made and those        *)
(* indexOfFile does not find.                                              *)
FilesBacked ==
  \A f \in FileSlot : filesTable[f] # NoName =>
    \/ f \in orphans
    \/ \E i \in Slot : mqs[i].file = f
    \/ \E p \in Proc : pc[p] \in {"countFile", "newMQ"} /\ local[p].file = f

(* The tables of queues, files and descriptors agree, so that nothing is   *)
(* destroyed too early and nothing is kept for ever.                       *)
TablesAgree == TypeOK /\ LinksCount /\ CountsAreRight /\ FilesBacked

(* MQopen fails only when another process has that end, or had it when it  *)
(* died, when there are no queues, files or descriptors left, or when a    *)
(* file that was never freed has the name: as long as none of the faults   *)
(* has happened.                                                           *)
Taken(p) == \/ \E q \in Proc \ {p} : \E d \in FD :
                 fds[q][d].name = local[p].name /\ fds[q][d].flags = local[p].flags
            \/ /\ pc[p] = "mark"
               /\ mqs[local[p].index][End(local[p].flags)] \notin alive \cup {NoPID}
NothingLeft == (\A i \in Slot : mqs[i].file # NULL) \/ numFiles >= MaxFiles
OpenFailsForAReason ==
  [][faults' = {} => \A p \in Proc :
       pc[p] \in {"slot", "room", "mark"} /\ pc'[p] = "openUnlock" =>
         Taken(p) \/ NothingLeft \/ \E f \in orphans : filesTable[f] = local[p].name]_vars

(* openMutex and closeMutex are each held by exactly the process between   *)
(* the lock and the unlock, a failed open between both: neither is entered *)
(* twice, and no way out of a call leaves one locked (mq.c:62-146).        *)
Opening == {p \in Proc : \/ pc[p] \in OpenPoints \ {"openLock"}
                         \/ local[p].rollback /\ pc[p] \in ClosePoints}
InClose == {p \in Proc : pc[p] \in ClosePoints \ {"closeLock", "removeFile"}}
MutexesHeld == Cardinality(Opening) = openMutex /\ Cardinality(InClose) = closeMutex
=============================================================================

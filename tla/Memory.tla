------------------------------- MODULE Memory -------------------------------
(***************************************************************************)
(* The stack of free pages (Kernel/c/memory.c) and those who take pages    *)
(* from it and give them back: the stacks and heaps of processes (malloc,  *)
(* createProcess, destroyProcess of Kernel/c/process.c) and the streams of *)
(* circular files (Kernel/c/basicFile.c).                                  *)
(*                                                                         *)
(* Pages are taken, and those of files given back, in system calls, with   *)
(* interrupts on; a timer tick may come at the program points TickPoints.  *)
(* The pages of a process that has ended are given back by the timer       *)
(* handler, at a tick that interrupts another process.                     *)
(***************************************************************************)
EXTENDS Integers, Sequences, FiniteSets

CONSTANTS
  NumPages,      \* STACK_SIZE, the pages there are
  KernelPages,   \* those the kernel takes at boot, for its tables
  MaxProcesses,  \* entries of the PCB
  PageSize,      \* PAGE_SIZE
  Header,        \* the next pointer and the size at the start of a heap page
  Sizes,         \* bound: the sizes malloc is called with
  MaxCalls,      \* bound: the system calls that take or give back a page
  TickPoints     \* program points at which a timer tick may come

Page  == 1..NumPages             \* addresses, in the order of the stack
Index == 0..(NumPages - 1)       \* indices in pageStack
Proc  == 0..(MaxProcesses - 1)   \* a process is its entry in the PCB
NULL  == 0

PopPoints  == {"popTest", "popLoad", "popStore", "popRead", "popped"}
PushPoints == {"pushTest", "pushLoad", "pushStore", "pushWrite", "pushed"}
Point      == {"user"} \cup PopPoints \cup PushPoints

(* The kernel and init.d find the pages they begin with.                  *)
ASSUME PagesAssumption ==
  /\ NumPages \in Nat /\ KernelPages \in 1..(NumPages - 1)
  /\ MaxProcesses \in Nat \ {0} /\ MaxCalls \in Nat
ASSUME SizesAssumption ==
  /\ PageSize \in Nat /\ Header \in 1..PageSize /\ Sizes \subseteq Int
ASSUME PointsAssumption == TickPoints \subseteq Point

VARIABLES
  pageStack, stackTop,       \* memory.c
  status, stackPage, heap,   \* the PCB: heap is the chain of heap pages
  streams,                   \* the pages of files
  orphans,                   \* those of files that are lost: in the table, of no queue
  blocks,                    \* history: what malloc returned to each process
  cpu, pc, local,            \* who has the CPU; the processes' stacks
  calls                      \* the system calls made so far, for the bound

pool  == <<pageStack, stackTop>>
table == <<status, stackPage, heap, blocks>>
vars  == <<pool, table, streams, orphans, cpu, pc, local, calls>>

NoLocals == [op |-> "none", size |-> 0, child |-> 0, top |-> 0, page |-> NULL]

(* The kernel has taken its pages, and created init.d with the next.       *)
Init ==
  /\ pageStack = [i \in Index |-> i + 1]
  /\ stackTop = KernelPages + 1
  /\ status = [p \in Proc |-> IF p = 0 THEN "running" ELSE "free"]
  /\ stackPage = [p \in Proc |-> IF p = 0 THEN KernelPages + 1 ELSE NULL]
  /\ heap = [p \in Proc |-> <<>>]
  /\ streams = {} /\ orphans = {}
  /\ blocks = [p \in Proc |-> <<>>]
  /\ cpu = 0
  /\ pc = [p \in Proc |-> "user"]
  /\ local = [p \in Proc |-> NoLocals]
  /\ calls = 0

-----------------------------------------------------------------------------
Running == {p \in Proc : status[p] = "running"}

At(p, point)   == cpu = p /\ status[p] = "running" /\ pc[p] = point
Called         == calls < MaxCalls /\ calls' = calls + 1
Goto(p, point) == pc' = [pc EXCEPT ![p] = point]
Return(p)      == Goto(p, "user") /\ local' = [local EXCEPT ![p] = NoLocals]

(* A tick, or a yield: the scheduler may choose any other process.         *)
Tick(p) ==
  /\ cpu = p /\ p \in Running /\ pc[p] \in TickPoints
  /\ cpu' \in Running \ {p}
  /\ UNCHANGED <<pool, table, streams, orphans, pc, local, calls>>

-----------------------------------------------------------------------------
(* popPage: return pageStack[stackTop++]                                   *)
PopTest(p) ==
  /\ At(p, "popTest")
  /\ Goto(p, IF stackTop < NumPages THEN "popLoad" ELSE "popped")
  /\ UNCHANGED <<pool, table, streams, orphans, cpu, local, calls>>

PopLoad(p) ==
  /\ At(p, "popLoad")
  /\ local' = [local EXCEPT ![p].top = stackTop]
  /\ Goto(p, "popStore")
  /\ UNCHANGED <<pool, table, streams, orphans, cpu, calls>>

PopStore(p) ==
  /\ At(p, "popStore")
  /\ stackTop' = local[p].top + 1
  /\ Goto(p, "popRead")
  /\ UNCHANGED <<pageStack, table, streams, orphans, cpu, local, calls>>

PopRead(p) ==
  /\ At(p, "popRead")
  /\ local' = [local EXCEPT ![p].page = IF local[p].top \in Index
                                        THEN pageStack[local[p].top] ELSE NULL]
  /\ Goto(p, "popped")
  /\ UNCHANGED <<pool, table, streams, orphans, cpu, calls>>

(* pushPage: pageStack[--stackTop] = page; nothing is pushed on a stack    *)
(* from which no page, or every page, has been taken.                      *)
MayPush(top) == top > 0 /\ top < NumPages

PushTest(p) ==
  /\ At(p, "pushTest")
  /\ Goto(p, IF MayPush(stackTop) THEN "pushLoad" ELSE "pushed")
  /\ UNCHANGED <<pool, table, streams, orphans, cpu, local, calls>>

PushLoad(p) ==
  /\ At(p, "pushLoad")
  /\ local' = [local EXCEPT ![p].top = stackTop - 1]
  /\ Goto(p, "pushStore")
  /\ UNCHANGED <<pool, table, streams, orphans, cpu, calls>>

PushStore(p) ==
  /\ At(p, "pushStore")
  /\ stackTop' = local[p].top
  /\ Goto(p, "pushWrite")
  /\ UNCHANGED <<pageStack, table, streams, orphans, cpu, local, calls>>

PushWrite(p) ==
  /\ At(p, "pushWrite")
  /\ pageStack' = IF stackTop \in Index THEN [pageStack EXCEPT ![stackTop] = local[p].page]
                                        ELSE pageStack
  /\ Goto(p, "pushed")
  /\ UNCHANGED <<stackTop, table, streams, orphans, cpu, local, calls>>

(* The whole of pushPage, where nothing interrupts it.                     *)
Push(s, page) == IF MayPush(s.top) THEN [stack |-> [s.stack EXCEPT ![s.top - 1] = page],
                                         top   |-> s.top - 1]
                                   ELSE s

-----------------------------------------------------------------------------
(* malloc(size): the first page of the chain with room, or a new one at its*)
(* end.  A size that is negative or larger than a page gets NULL, at once. *)
Fits(p, size) == {k \in 1..Len(heap[p]) : size <= PageSize - heap[p][k].used}
FirstFit(p, size) == CHOOSE k \in Fits(p, size) : \A j \in Fits(p, size) : k <= j

CallMalloc(p, size) ==
  /\ At(p, "user") /\ Called
  /\ size >= 0 /\ size <= PageSize - Header
  /\ IF Fits(p, size) = {}
     THEN /\ local' = [local EXCEPT ![p].op = "malloc", ![p].size = size]
          /\ Goto(p, "popTest")
          /\ UNCHANGED <<heap, blocks>>
     ELSE LET k == FirstFit(p, size) IN
          /\ blocks' = [blocks EXCEPT ![p] = Append(@,
               [page |-> heap[p][k].page, from |-> heap[p][k].used, size |-> size])]
          /\ heap' = [heap EXCEPT ![p][k].used = @ + size]
          /\ UNCHANGED <<pc, local>>
  /\ UNCHANGED <<pool, status, stackPage, streams, orphans, cpu>>

(* Mutant of MallocPopped: the first block of a new page is not counted.   *)
MallocPoppedUncounted(p) ==
  /\ At(p, "popped") /\ local[p].op = "malloc"
  /\ heap' = [heap EXCEPT ![p] = Append(@, [page |-> local[p].page, used |-> Header])]
  /\ blocks' = [blocks EXCEPT ![p] = Append(@,
                 [page |-> local[p].page, from |-> Header, size |-> local[p].size])]
  /\ Return(p)
  /\ UNCHANGED <<pool, status, stackPage, streams, orphans, cpu, calls>>

(* mallocRecursive does not look at the page it got: of none, it makes the *)
(* page at address 0 (and leaves the chain without it).                    *)
MallocPopped(p) ==
  LET page == local[p].page IN
  /\ At(p, "popped") /\ local[p].op = "malloc"
  /\ heap' = IF page = NULL THEN heap ELSE
             [heap EXCEPT ![p] = Append(@, [page |-> page, used |-> Header + local[p].size])]
  /\ blocks' = [blocks EXCEPT ![p] = Append(@,
                 [page |-> page, from |-> Header, size |-> local[p].size])]
  /\ Return(p)
  /\ UNCHANGED <<pool, status, stackPage, streams, orphans, cpu, calls>>

-----------------------------------------------------------------------------
(* CREATE_PROCESS, one at a time (createProcessMutex): an entry of the PCB *)
(* is taken, then a page for the stack.                                    *)
CallCreate(p) ==
  /\ At(p, "user") /\ Called
  /\ \A q \in Proc : local[q].op # "create"
  /\ \E e \in Proc :
       /\ status[e] = "free" /\ \A f \in Proc : status[f] = "free" => e <= f
       /\ status' = [status EXCEPT ![e] = "building"]
       /\ local' = [local EXCEPT ![p].op = "create", ![p].child = e]
  /\ Goto(p, "popTest")
  /\ UNCHANGED <<pool, stackPage, heap, blocks, streams, orphans, cpu>>

(* With no page the entry stays taken.                                     *)
CreatePopped(p) ==
  LET child == local[p].child IN
  /\ At(p, "popped") /\ local[p].op = "create"
  /\ stackPage' = [stackPage EXCEPT ![child] = local[p].page]
  /\ status' = IF local[p].page = NULL THEN status ELSE [status EXCEPT ![child] = "running"]
  /\ Return(p)
  /\ UNCHANGED <<pool, heap, blocks, streams, orphans, cpu, calls>>

(* EXIT: the process does not run again.                                   *)
Exit(p) ==
  /\ At(p, "user")
  /\ status' = [status EXCEPT ![p] = "finished"]
  /\ cpu' \in IF Running = {p} THEN {p} ELSE Running \ {p}
  /\ UNCHANGED <<pool, stackPage, heap, blocks, streams, orphans, pc, local, calls>>

(* The pages of a process, in the order they are given back.               *)
(* (Mutant: those of the heap are forgotten.)                              *)
PagesOfStackOnly(z) == <<stackPage[z]>>
PagesOf(z) == <<stackPage[z]>> \o [k \in 1..Len(heap[z]) |-> heap[z][k].page]

(* One pushPage after another                                              *)
PushAll(s, pages) ==
  LET after[k \in 0..Len(pages)] == IF k = 0 THEN s ELSE Push(after[k - 1], pages[k])
  IN  after[Len(pages)]

(* destroyProcess, in the handler of a tick or of a yield                  *)
Destroy(z) ==
  LET pushed == PushAll([stack |-> pageStack, top |-> stackTop], PagesOf(z)) IN
  /\ status[z] = "finished" /\ (cpu \in Running => pc[cpu] \in TickPoints)
  /\ pageStack' = pushed.stack /\ stackTop' = pushed.top
  /\ status' = [status EXCEPT ![z] = "free"]
  /\ stackPage' = [stackPage EXCEPT ![z] = NULL]
  /\ heap' = [heap EXCEPT ![z] = <<>>]
  /\ blocks' = [blocks EXCEPT ![z] = <<>>]
  /\ UNCHANGED <<streams, orphans, cpu, pc, local, calls>>

-----------------------------------------------------------------------------
(* createBasicFileWithName: a page for the stream, given back should the   *)
(* file not be created (no room in the table, or the name in use).  MQopen *)
(* calls it under openMutex: one at a time.                                *)
CallOpen(p) ==
  /\ At(p, "user") /\ Called
  /\ \A q \in Proc : local[q].op # "open"
  /\ local' = [local EXCEPT ![p].op = "open"]
  /\ Goto(p, "popTest")
  /\ UNCHANGED <<pool, table, streams, orphans, cpu>>

OpenPopped(p) ==
  /\ At(p, "popped") /\ local[p].op = "open"
  /\ streams' = streams \cup ({local[p].page} \ {NULL})
  /\ Return(p)
  /\ UNCHANGED <<pool, table, orphans, cpu, calls>>

OpenFails(p) ==
  /\ At(p, "popped") /\ local[p].op = "open" /\ local[p].page # NULL
  /\ Goto(p, "pushTest")
  /\ UNCHANGED <<pool, table, streams, orphans, cpu, local, calls>>

(* destroyBasicFile, one at a time (closeMutex), of a file that indexOfFile*)
(* finds in the table                                                      *)
CallClose(p) ==
  /\ At(p, "user") /\ Called
  /\ \A q \in Proc : local[q].op # "close"
  /\ \E page \in streams \ orphans :
       /\ streams' = streams \ {page}
       /\ local' = [local EXCEPT ![p].op = "close", ![p].page = page]
  /\ Goto(p, "pushTest")
  /\ UNCHANGED <<pool, table, orphans, cpu>>

(* indexOfFile looks at the first numFiles entries only (where the file is *)
(* in the table is not modelled here: any may be missed).  The file is left*)
(* as it is, and destroyMQ forgets it: its page is never given back.       *)
CloseMisses(p) ==
  /\ At(p, "user") /\ Called
  /\ \A q \in Proc : local[q].op # "close"
  /\ \E page \in streams \ orphans : orphans' = orphans \cup {page}
  /\ UNCHANGED <<pool, table, streams, cpu, pc, local>>

Pushed(p) ==
  /\ At(p, "pushed")
  /\ Return(p)
  /\ UNCHANGED <<pool, table, streams, orphans, cpu, calls>>

-----------------------------------------------------------------------------
Ended == Running = {} /\ UNCHANGED vars

Pop(p)   == PopTest(p) \/ PopLoad(p) \/ PopStore(p) \/ PopRead(p)
PushPage(p) == PushTest(p) \/ PushLoad(p) \/ PushStore(p) \/ PushWrite(p) \/ Pushed(p)
Popped(p) == MallocPopped(p) \/ CreatePopped(p) \/ OpenPopped(p) \/ OpenFails(p)
User(p)  == \/ \E size \in Sizes : CallMalloc(p, size)
            \/ CallCreate(p) \/ Exit(p) \/ CallOpen(p) \/ CallClose(p) \/ CloseMisses(p)

Next == \/ Ended
        \/ \E p \in Proc : Tick(p) \/ Pop(p) \/ PushPage(p) \/ Popped(p) \/ User(p)
        \/ \E z \in Proc : Destroy(z)

Spec == Init /\ [][Next]_vars

-----------------------------------------------------------------------------
TypeOK ==
  /\ pageStack \in [Index -> Page] /\ stackTop \in 0..NumPages
  /\ status \in [Proc -> {"free", "building", "running", "finished"}]
  /\ stackPage \in [Proc -> Page \cup {NULL}]
  /\ heap \in [Proc -> Seq([page : Page, used : Header..PageSize])]
  /\ streams \subseteq Page
  /\ blocks \in [Proc -> Seq([page : Page \cup {NULL}, from : Header..PageSize,
                              size : 0..(PageSize - Header)])]
  /\ cpu \in Proc /\ pc \in [Proc -> Point] /\ calls \in 0..MaxCalls
  /\ local \in [Proc -> [op : {"none", "malloc", "create", "open", "close"},
                         size : 0..(PageSize - Header), child : Proc,
                         top : 0..NumPages, page : Page \cup {NULL}]]

(* Where a page is: free on the stack, in the kernel's tables, a stack, in *)
(* a heap, a stream, or on its way between two of these.                   *)
Places(page) ==
       {<<"free", i>> : i \in {j \in stackTop..(NumPages - 1) : pageStack[j] = page}}
  \cup {<<"kernel", 0>> : k \in {j \in 1..KernelPages : j = page}}
  \cup {<<"stack", p>> : p \in {q \in Proc : stackPage[q] = page}}
  \cup {<<"heap", p>> : p \in {q \in Proc : \E k \in 1..Len(heap[q]) : heap[q][k].page = page}}
  \cup {<<"stream", 0>> : s \in streams \cap {page}}
  \cup {<<"local", p>> : p \in {q \in Proc : local[q].page = page
                                               /\ pc[q] \notin {"pushed", "pushWrite"}}}

(* While one is taking or giving back a page, its place is open.           *)
Quiet == \A p \in Proc : pc[p] \notin {"popRead", "pushWrite"}

(* No page is in two places: two stacks, or a stack and somebody's heap.   *)
NoSharedPage == Quiet => \A page \in Page : Cardinality(Places(page)) <= 1

(* Every page has a place.                                                 *)
NoLostPage == Quiet => \A page \in Page : Places(page) # {}

(* The page of a lost file stays in the table of files: it is out of use,  *)
(* and nobody else's.                                                      *)
OrphansKept == orphans \subseteq streams

(* Every page has exactly one place, and stackTop stays in the stack       *)
(* (memory.c:53-71); those of lost files keep theirs (basicFile.c:169-172).*)
PagesConserved == TypeOK /\ NoSharedPage /\ NoLostPage /\ OrphansKept

(* malloc returns <size> bytes available in a page of the heap, different  *)
(* for each call.                                                          *)
Overlap(b, c) == b.page = c.page /\ b.from < c.from + c.size /\ c.from < b.from + b.size
BlocksDisjoint ==
  \A p, q \in Proc : \A i \in 1..Len(blocks[p]), j \in 1..Len(blocks[q]) :
    /\ blocks[p][i].from >= Header /\ blocks[p][i].from + blocks[p][i].size <= PageSize
    /\ Overlap(blocks[p][i], blocks[q][j]) => p = q /\ i = j
=============================================================================

----------------------------- MODULE Scheduler -----------------------------
(***************************************************************************)
(* The scheduler (Kernel/c/scheduler.c) and the part of the process table  *)
(* it drives (Kernel/c/process.c), on the kernel's single CPU.             *)
(*                                                                         *)
(* int20 (timer) and int81 (yield) are interrupt gates: nextProcess runs to*)
(* its end with interrupts off.  int80 (system calls) turns interrupts back*)
(* on, so the timer may switch processes in the middle of one.  Each       *)
(* process is a thread of control with a program point pc[p] in a system   *)
(* call, or "user" outside; each action of a process is one access to the  *)
(* scheduler's statics, in the order of the code.                          *)
(*                                                                         *)
(* TickPoints are the program points the timer is assumed to hit: the code *)
(* does not restrict them, and runs with smaller and larger sets tell      *)
(* which points the scheduler survives an interrupt at.                    *)
(***************************************************************************)
EXTENDS Integers, Sequences, FiniteSets, FiniteSetsExt

CONSTANTS
  MaxProcesses,   \* MAX_PROCESSES, also the number of entries of the PCB page
  MaxPid,         \* bound: pids 1..MaxPid are ever given out
  Waited,         \* bound: the pids waitpid is called with
  TickPoints,     \* program points at which a timer tick may come
  CreateMayFail   \* whether createProcess may run out of pages or files

ASSUME MaxProcessesAssumption == MaxProcesses \in Nat \ {0}
ASSUME MaxPidAssumption       == MaxPid \in Nat \ {0}
ASSUME CreateMayFailAssumption == CreateMayFail \in BOOLEAN

Node  == 0..(MaxProcesses - 1)     \* indices in the page of nodes
PCB   == 0..(MaxProcesses - 1)     \* indices in the page of PCB entries
Pid   == 1..MaxPid
NULL  == -1                        \* the null Node
BadPCB == -2                       \* a negative int, converted to uint64_t

(* What the CPU executes: a process, kernel_main, the interrupt handler,   *)
(* or whatever is found at a null stack pointer.                           *)
Kernel  == 0
ISR     == -1
NoStack == -2

(* pc[p] is the next access of p; a tick that comes while pc[p] = "link2"  *)
(* comes just before the store to last.                                    *)
CreatePoints == {"lock", "getFreeNode", "createProcess", "fill",
                 "link2", "link3", "link4", "getPID", "unlock"}
WaitPoints   == {"wait2", "walk1", "walk2", "walk3"}
ExitPoints   == {"exit2", "exited"}
Point        == {"user"} \cup CreatePoints \cup WaitPoints \cup ExitPoints

ASSUME WaitedAssumption     == Waited \subseteq Pid
ASSUME TickPointsAssumption == TickPoints \subseteq Point

VARIABLES
  usedNodes, last, firstIteration,      \* scheduler.c's statics
  PCBIndex, state, next,                \* the fields of struct node_t
  occupied, pid, stack, nextPid,        \* process.c's PCB table
  createProcessMutex,                   \* interruptHandlers.c
  cpu,                                  \* whose instructions are executed
  pc, local                             \* the processes' stacks

nodes   == <<usedNodes, last, firstIteration, PCBIndex, state, next>>
pcbs    == <<occupied, pid, stack, nextPid>>
threads == <<pc, local>>
vars    == <<nodes, pcbs, createProcessMutex, cpu, threads>>

(* The locals of the system call a process is in; wasAlive and astray are  *)
(* no locals but history: whether the target of waitpid existed when it was*)
(* called, and whether the node its walk stands on has been given back.    *)
NoLocals == [newNode |-> NULL, newPCB |-> BadPCB, aux |-> NULL,
             current |-> NULL, pointer |-> NULL, target |-> 0, result |-> 0,
             wasAlive |-> FALSE, astray |-> FALSE]

(* kernel_main: the scheduler is on, init.d is its only process, and       *)
(* interrupts are about to be enabled.                                     *)
Init ==
  /\ usedNodes = {0} /\ last = 0 /\ firstIteration = TRUE
  /\ PCBIndex = [n \in Node |-> 0]
  /\ state = [n \in Node |-> "RUNNING"]
  /\ next = [n \in Node |-> n]
  /\ occupied = {0} /\ nextPid = 2
  /\ pid = [i \in PCB |-> IF i = 0 THEN 1 ELSE 0]
  /\ stack = [i \in PCB |-> IF i = 0 THEN 1 ELSE NoStack]
  /\ createProcessMutex = 0
  /\ cpu = Kernel
  /\ pc = [p \in Pid |-> "user"]
  /\ local = [p \in Pid |-> NoLocals]

-----------------------------------------------------------------------------
Lowest(S) == CHOOSE i \in S : \A j \in S : i <= j

getProcessPID(i)   == IF i \in PCB THEN pid[i] ELSE -1
getProcessStack(i) == IF i \in PCB THEN stack[i] ELSE NoStack

(* While a node is half linked, the ring is still the one that starts and  *)
(* ends at aux; otherwise it starts and ends at last.                      *)
Linking == {p \in Pid : pc[p] \in {"link3", "link4"}}
Base    == IF Linking = {} THEN last ELSE local[CHOOSE p \in Linking : TRUE].aux

(* The nodes met when links are followed from a node, and those of the ring*)
(* that ends at base, in their order (if the list does not close, an       *)
(* unending walk is cut).                                                  *)
Ahead(link, node) ==
  LET ahead[k \in 0..MaxProcesses] == IF k = 0 THEN node ELSE link[ahead[k - 1]]
  IN  ahead
RingFrom(link, base) ==
  LET ahead == Ahead(link, base)
      laps  == {k \in 1..MaxProcesses : ahead[k] = base}
  IN  [k \in 1..(IF laps = {} THEN MaxProcesses ELSE Lowest(laps)) |-> ahead[k]]

(* The first node of the ring has the CPU, and the last is Base.           *)
Ring == IF Base = NULL THEN <<>> ELSE RingFrom(next, Base)

QueuedAt(ring, k) == getProcessPID(PCBIndex[ring[k]])
Alive(p) == LET ring == Ring IN
            \E k \in 1..Len(ring) : QueuedAt(ring, k) = p /\ state[ring[k]] # "FINISHED"

-----------------------------------------------------------------------------
(* Mutants of SwitchFrom: the stack saved in the entry of the node before; *)
(* the ring never turned.                                                  *)
SwitchFromSavesInLast(rsp) ==
  /\ stack' = IF ~firstIteration /\ PCBIndex[last] \in PCB
              THEN [stack EXCEPT ![PCBIndex[last]] = rsp] ELSE stack
  /\ firstIteration' = FALSE /\ last' = next[last] /\ cpu' = ISR
  /\ UNCHANGED <<usedNodes, PCBIndex, next, occupied, pid, nextPid, createProcessMutex>>
SwitchFromStays(rsp) ==
  /\ stack' = IF ~firstIteration /\ PCBIndex[next[last]] \in PCB
              THEN [stack EXCEPT ![PCBIndex[next[last]]] = rsp] ELSE stack
  /\ firstIteration' = FALSE /\ last' = last /\ cpu' = ISR
  /\ UNCHANGED <<usedNodes, PCBIndex, next, occupied, pid, nextPid, createProcessMutex>>

(* nextProcess, up to the choice of the next process: the stack of whoever *)
(* is interrupted is saved in the PCB of the node at the head of the ring. *)
SwitchFrom(rsp) ==
  LET current == next[last] IN
  /\ stack' = IF ~firstIteration /\ PCBIndex[current] \in PCB
              THEN [stack EXCEPT ![PCBIndex[current]] = rsp] ELSE stack
  /\ firstIteration' = FALSE
  /\ last' = current
  /\ cpu' = ISR
  /\ UNCHANGED <<usedNodes, PCBIndex, next, occupied, pid, nextPid, createProcessMutex>>

(* The first tick leaves kernel_main, which waits for it halted.           *)
FirstTick ==
  /\ cpu = Kernel /\ firstIteration
  /\ SwitchFrom(Kernel)
  /\ UNCHANGED <<state, threads>>

(* A node is given back under the walks that are suspended on it.          *)
Astray(node) ==
  [p \in Pid |-> IF pc[p] = "walk3" /\ local[p].pointer = node
                 THEN [local[p] EXCEPT !.astray = TRUE] ELSE local[p]]

(* Mutant of Reap: the PCB entry is not cleared.                           *)
ReapKeepsPCB ==
  LET head == next[last] IN
  /\ cpu = ISR /\ state[head] = "FINISHED"
  /\ usedNodes' = usedNodes \ {head}
  /\ IF head = last
     THEN last' = NULL /\ next' = next /\ cpu' = Kernel
     ELSE last' = last /\ next' = [next EXCEPT ![last] = next[head]] /\ cpu' = ISR
  /\ local' = Astray(head)
  /\ UNCHANGED <<firstIteration, PCBIndex, state, pcbs, createProcessMutex, pc>>

(* nextProcessRecursive finds a finished process at the head: its node and *)
(* PCB are given back.  With the last process gone, kernel_main resumes.   *)
Reap ==
  LET head == next[last] IN
  /\ cpu = ISR /\ state[head] = "FINISHED"
  /\ usedNodes' = usedNodes \ {head}
  /\ IF head = last
     THEN last' = NULL /\ next' = next /\ cpu' = Kernel
     ELSE last' = last /\ next' = [next EXCEPT ![last] = next[head]] /\ cpu' = ISR
  /\ IF PCBIndex[head] \in PCB
     THEN /\ occupied' = occupied \ {PCBIndex[head]}
          /\ pid' = [pid EXCEPT ![PCBIndex[head]] = 0]
          /\ stack' = [stack EXCEPT ![PCBIndex[head]] = NoStack]
     ELSE UNCHANGED <<occupied, pid, stack>>
  /\ local' = Astray(head)
  /\ UNCHANGED <<firstIteration, PCBIndex, state, nextPid, createProcessMutex, pc>>

(* Otherwise the handler loads the stack of the process at the head.       *)
Dispatch ==
  /\ cpu = ISR /\ state[next[last]] # "FINISHED"
  /\ cpu' = getProcessStack(PCBIndex[next[last]])
  /\ UNCHANGED <<nodes, pcbs, createProcessMutex, threads>>

(* finishKernel: it is now safe to turn off the computer.                  *)
finishKernel == cpu = Kernel /\ ~firstIteration /\ UNCHANGED vars

-----------------------------------------------------------------------------
At(p, point) == cpu = p /\ pc[p] = point
Goto(p, point) == pc' = [pc EXCEPT ![p] = point]
Return(p) == Goto(p, "user") /\ local' = [local EXCEPT ![p] = NoLocals]

Tick(p) ==
  /\ cpu = p /\ pc[p] \in TickPoints
  /\ SwitchFrom(p)
  /\ UNCHANGED <<state, threads>>

(* int81, or the YIELD system call                                         *)
Yield(p) ==
  /\ At(p, "user")
  /\ SwitchFrom(p)
  /\ UNCHANGED <<state, threads>>

(* A step of a system call that stays on the CPU and leaves the statics.   *)
Unmoved == UNCHANGED <<nodes, pcbs, createProcessMutex, cpu>>

-----------------------------------------------------------------------------
(* CREATE_PROCESS, bounded so that no pid above MaxPid is given out.       *)
CallCreate(p) ==
  /\ At(p, "user")
  /\ nextPid + Cardinality({q \in Pid : pc[q] \in {"lock", "getFreeNode", "createProcess"}})
       <= MaxPid
  /\ Goto(p, "lock")
  /\ Unmoved /\ UNCHANGED local

Lock(p) ==
  /\ At(p, "lock") /\ createProcessMutex = 0
  /\ createProcessMutex' = 1
  /\ Goto(p, "getFreeNode")
  /\ UNCHANGED <<nodes, pcbs, cpu, local>>

LockBusy(p) ==
  /\ At(p, "lock") /\ createProcessMutex = 1
  /\ SwitchFrom(p)
  /\ UNCHANGED <<state, threads>>

getFreeNode(p) ==
  /\ At(p, "getFreeNode")
  /\ IF usedNodes = Node
     THEN /\ local' = [local EXCEPT ![p].result = -1]
          /\ Goto(p, "unlock")
          /\ UNCHANGED usedNodes
     ELSE LET n == Lowest(Node \ usedNodes) IN
          /\ usedNodes' = usedNodes \cup {n}
          /\ local' = [local EXCEPT ![p].newNode = n]
          /\ Goto(p, "createProcess")
  /\ UNCHANGED <<last, firstIteration, PCBIndex, state, next, pcbs,
                 createProcessMutex, cpu>>

(* createProcess takes an entry and a pid, then builds the initial stack   *)
(* and opens the standard files.                                           *)
createProcess(p) ==
  /\ At(p, "createProcess") /\ occupied # PCB
  /\ LET i == Lowest(PCB \ occupied) IN
     /\ occupied' = occupied \cup {i}
     /\ pid' = [pid EXCEPT ![i] = nextPid]
     /\ stack' = [stack EXCEPT ![i] = nextPid]
     /\ local' = [local EXCEPT ![p].newPCB = i]
  /\ nextPid' = nextPid + 1
  /\ Goto(p, "fill")
  /\ UNCHANGED <<nodes, createProcessMutex, cpu>>

(* It fails with no entry left (-2), or half way (-3 to -6), which leaves  *)
(* the entry taken.  The caller's PCBIndex < 0 is never true of a uint64_t.*)
createProcessFails(p) ==
  /\ At(p, "createProcess") /\ (CreateMayFail \/ occupied = PCB)
  /\ IF occupied = PCB
     THEN UNCHANGED <<occupied, pid, nextPid>>
     ELSE LET i == Lowest(PCB \ occupied) IN
          /\ occupied' = occupied \cup {i}
          /\ pid' = [pid EXCEPT ![i] = nextPid]
          /\ nextPid' = nextPid + 1
  /\ Goto(p, "fill")
  /\ UNCHANGED <<nodes, stack, createProcessMutex, cpu, local>>

(* The fields of *newNode, which points to itself for the time being; then *)
(* aux is read from last.                                                  *)
FillNode(p) ==
  LET n == local[p].newNode IN
  /\ At(p, "fill")
  /\ PCBIndex' = [PCBIndex EXCEPT ![n] = local[p].newPCB]
  /\ state' = [state EXCEPT ![n] = "RUNNING"]
  /\ next' = [next EXCEPT ![n] = n]
  /\ local' = [local EXCEPT ![p].aux = last]
  /\ Goto(p, "link2")
  /\ UNCHANGED <<usedNodes, last, firstIteration, pcbs, createProcessMutex, cpu>>

(* Mutant of Link2: last is not moved to the new node.                     *)
Link2Missing(p) ==
  /\ At(p, "link2")
  /\ Goto(p, "link3")
  /\ Unmoved /\ UNCHANGED local

Link2(p) ==
  /\ At(p, "link2")
  /\ last' = local[p].newNode
  /\ Goto(p, "link3")
  /\ UNCHANGED <<usedNodes, firstIteration, PCBIndex, state, next, pcbs,
                 createProcessMutex, cpu, local>>

Link3(p) ==
  /\ At(p, "link3")
  /\ next' = [next EXCEPT ![local[p].newNode] = next[local[p].aux]]
  /\ Goto(p, "link4")
  /\ UNCHANGED <<usedNodes, last, firstIteration, PCBIndex, state, pcbs,
                 createProcessMutex, cpu, local>>

Link4(p) ==
  /\ At(p, "link4")
  /\ next' = [next EXCEPT ![local[p].aux] = local[p].newNode]
  /\ Goto(p, "getPID")
  /\ UNCHANGED <<usedNodes, last, firstIteration, PCBIndex, state, pcbs,
                 createProcessMutex, cpu, local>>

(* The pid returned is read from the PCB after the process is on its way.  *)
GetPID(p) ==
  /\ At(p, "getPID")
  /\ local' = [local EXCEPT ![p].result = getProcessPID(local[p].newPCB)]
  /\ Goto(p, "unlock")
  /\ Unmoved

Unlock(p) ==
  /\ At(p, "unlock")
  /\ createProcessMutex' = 0
  /\ Return(p)
  /\ UNCHANGED <<nodes, pcbs, cpu>>

-----------------------------------------------------------------------------
(* EXIT: finishProcess reads last, marks the node after it, and the        *)
(* process yields.                                                         *)
CallExit(p) ==
  /\ At(p, "user")
  /\ local' = [local EXCEPT ![p].aux = last]
  /\ Goto(p, "exit2")
  /\ Unmoved

Exit2(p) ==
  /\ At(p, "exit2")
  /\ state' = [state EXCEPT ![next[local[p].aux]] = "FINISHED"]
  /\ local' = [local EXCEPT ![p] = NoLocals]
  /\ Goto(p, "exited")
  /\ SwitchFrom(p)

-----------------------------------------------------------------------------
(* WAITPID of any pid, alive, dead or yet to come; last is read first.     *)
CallWait(p, target) ==
  /\ At(p, "user")
  /\ local' = [local EXCEPT ![p] = [NoLocals EXCEPT !.target = target, !.aux = last,
                                                   !.wasAlive = Alive(target)]]
  /\ Goto(p, "wait2")
  /\ Unmoved

(* -1 at once for the caller's own pid                                     *)
Wait2(p) ==
  /\ At(p, "wait2")
  /\ IF local[p].target = getProcessPID(PCBIndex[next[local[p].aux]])
     THEN Return(p)
     ELSE Goto(p, "walk1") /\ UNCHANGED local
  /\ Unmoved

(* isProcessRunning walks the ring from the caller's node                  *)
Walk1(p) ==
  /\ At(p, "walk1")
  /\ local' = [local EXCEPT ![p].aux = last]
  /\ Goto(p, "walk2")
  /\ Unmoved

Walk2(p) ==
  LET head == next[local[p].aux] IN
  /\ At(p, "walk2")
  /\ local' = [local EXCEPT ![p].current = head, ![p].pointer = head]
  /\ Goto(p, "walk3")
  /\ Unmoved

Found(p) == local[p].target = getProcessPID(PCBIndex[local[p].pointer])

(* Mutants of WalkEnd: the walk leaves out the last node; it looks for the *)
(* NULL at the end of a list that is circular.                             *)
WalkEndEarly(p) == next[next[local[p].pointer]] = local[p].current
WalkEndNull(p)  == next[local[p].pointer] = NULL
WalkEnd(p) == next[local[p].pointer] = local[p].current

Walk3(p) ==
  /\ At(p, "walk3") /\ ~Found(p) /\ ~WalkEnd(p)
  /\ local' = [local EXCEPT ![p].pointer = next[local[p].pointer]]
  /\ Unmoved /\ UNCHANGED pc

(* while (isProcessRunning(pid)) yield()                                   *)
WalkFound(p) ==
  /\ At(p, "walk3") /\ Found(p)
  /\ local' = [local EXCEPT ![p].pointer = NULL, ![p].current = NULL, ![p].aux = NULL,
                            ![p].astray = FALSE]
  /\ Goto(p, "walk1")
  /\ SwitchFrom(p)
  /\ UNCHANGED state

WaitReturn(p) ==
  /\ At(p, "walk3") /\ ~Found(p) /\ WalkEnd(p)
  /\ Return(p)
  /\ Unmoved

-----------------------------------------------------------------------------
Create(p) == \/ Lock(p) \/ LockBusy(p) \/ getFreeNode(p) \/ createProcess(p)
             \/ createProcessFails(p) \/ FillNode(p) \/ Link2(p) \/ Link3(p)
             \/ Link4(p) \/ GetPID(p) \/ Unlock(p)

Wait(p) == \/ Wait2(p) \/ Walk1(p) \/ Walk2(p) \/ Walk3(p)
           \/ WalkFound(p) \/ WaitReturn(p)

(* Inside a system call the CPU goes on; outside, a program does as it     *)
(* likes.                                                                  *)
SystemCall(p) == Create(p) \/ Exit2(p) \/ Wait(p)

User(p) == \/ Yield(p) \/ CallCreate(p) \/ CallExit(p)
           \/ \E target \in Waited : CallWait(p, target)

Interrupt == FirstTick \/ Reap \/ Dispatch

Next == Interrupt \/ finishKernel \/ \E p \in Pid : Tick(p) \/ SystemCall(p) \/ User(p)

Spec == Init /\ [][Next]_vars

-----------------------------------------------------------------------------
TypeOK ==
  /\ usedNodes \subseteq Node /\ last \in Node \cup {NULL}
  /\ firstIteration \in BOOLEAN
  /\ PCBIndex \in [Node -> PCB \cup {BadPCB}]
  /\ state \in [Node -> {"RUNNING", "FINISHED"}]
  /\ next \in [Node -> Node]
  /\ occupied \subseteq PCB /\ pid \in [PCB -> 0..MaxPid]
  /\ stack \in [PCB -> Pid \cup {NoStack}] /\ nextPid \in 1..(MaxPid + 1)
  /\ createProcessMutex \in {0, 1}
  /\ cpu \in Pid \cup {Kernel, ISR, NoStack}
  /\ pc \in [Pid -> Point]
  /\ local \in [Pid -> [newNode : Node \cup {NULL}, newPCB : PCB \cup {BadPCB},
                         aux : Node \cup {NULL}, current : Node \cup {NULL},
                         pointer : Node \cup {NULL}, target : 0..MaxPid,
                         result : -1..MaxPid, wasAlive : BOOLEAN,
                         astray : BOOLEAN]]

(* The circular list with its lazily removed nodes, changed in the middle  *)
(* of system calls, is a round-robin queue of processes.                   *)
Queued   == LET ring == Ring IN [k \in 1..Len(ring) |-> QueuedAt(ring, k)]
Finished == LET ring == Ring IN
            {QueuedAt(ring, k) : k \in {j \in 1..Len(ring) : state[ring[j]] = "FINISHED"}}
RR == INSTANCE RoundRobin WITH queue <- Queued, finished <- Finished
ImplementsRoundRobin == RR!Spec

Building == {p \in Pid : pc[p] \in {"createProcess", "fill", "link2", "link3", "link4"}}

(* No node is lost: the ring closes, and goes through every used node but  *)
(* one being built.                                                        *)
RingComplete ==
  LET ring == Ring IN
  /\ {ring[k] : k \in 1..Len(ring)} = usedNodes \ {local[p].newNode : p \in Building}
  /\ ring # <<>> => ring[Len(ring)] = Base

(* Each process of the ring has a PCB entry of its own, and every other    *)
(* occupied entry is that of a process being created.                      *)
OwnPCB ==
  LET ring == Ring
      entries == {PCBIndex[ring[k]] : k \in 1..Len(ring)} IN
  /\ Cardinality(entries) = Len(ring)
  /\ occupied = entries \cup {local[p].newPCB : p \in Building \ {q \in Pid : pc[q] = "createProcess"}}

(* No creation has failed half way: a process made so never runs, and stays*)
(* in the ring.                                                            *)
NoneFailed ==
  /\ \A p \in Building : pc[p] = "createProcess" \/ local[p].newPCB # BadPCB
  /\ LET ring == Ring IN \A k \in 1..Len(ring) : PCBIndex[ring[k]] # BadPCB

(* The tables stay whole, and everything in its range: no node is lost or  *)
(* shared, however processes come and go, and no PCB entry as long as no   *)
(* creation has failed half way (scheduler.c:278-331).                     *)
TablesComplete == TypeOK /\ RingComplete /\ (NoneFailed => OwnPCB)

(* The instructions executed are those of the process at the head of the   *)
(* ring, and every other process's PCB keeps that process's own stack.     *)
OnOwnStack ==
  LET ring == Ring IN
  \A k \in {j \in 1..Len(ring) : PCBIndex[ring[j]] \in PCB} :
    IF k = 1 /\ cpu \in Pid THEN cpu = QueuedAt(ring, 1)
                            ELSE getProcessStack(PCBIndex[ring[k]]) = QueuedAt(ring, k)

(* EXIT never comes back to the process that called it.                    *)
ExitDoesNotReturn == \A p \in Pid : cpu = p => pc[p] # "exited"

(* nextProcess always resumes the right process at the right place: its    *)
(* own stack, and never one that has exited (scheduler.c:165-182).         *)
RightProcessRuns == OnOwnStack /\ ExitDoesNotReturn

(* waitpid of another process, alive when it was called, does not return   *)
(* before that process has finished, even if ticks suspend its walk of the *)
(* list and processes come and go in the meantime.  The exception is a walk*)
(* that went astray: the node it stood on was given back.                  *)
WaitpidWaits ==
  [][\A p \in Pid : /\ pc[p] \in WaitPoints /\ pc'[p] = "user"
                    /\ local[p].wasAlive /\ ~local[p].astray
        => local[p].target = p \/ ~Alive(local[p].target)]_vars

(* What the comment of waitpid says (scheduler.c:138): it returns the pid  *)
(* when the process to be waited for finishes.  No walk is excepted.       *)
ReturnsWhenFinished ==
  [][\A p \in Pid : pc[p] \in WaitPoints /\ pc'[p] = "user" /\ local[p].wasAlive
        => local[p].target = p \/ ~Alive(local[p].target)]_vars

-----------------------------------------------------------------------------
(* The timer keeps ticking, so that no process keeps the CPU for ever, even*)
(* one that makes one system call after another; but there is time between *)
(* ticks (5 ms) for a system call to get on.                               *)
Fairness == /\ WF_vars(Interrupt)
            /\ SF_vars(\E p \in Pid : Tick(p))
            /\ \A p \in Pid : SF_vars(SystemCall(p))
FairSpec == Spec /\ Fairness

(* No process starves, whatever the others do: neither a busy one, nor one *)
(* that spins on createProcessMutex, nor a busy-waiting waitpid.           *)
EveryoneGetsTheCPU == \A p \in Pid : Alive(p) ~> (cpu = p \/ ~Alive(p))

(* waitpid returns once the process waited for is gone.                    *)
WaitpidReturns ==
  \A p \in Pid : (pc[p] = "walk1" /\ local[p].wasAlive /\ ~Alive(local[p].target))
                   ~> pc[p] = "user"

(* Whoever gets createProcessMutex gives it back.                          *)
MutexReleased == createProcessMutex = 1 ~> createProcessMutex = 0

(* So the calls that busy-wait, waitpid and the creation of a process,     *)
(* come to an end (scheduler.c:152, interruptHandlers.c:69).               *)
BusyWaitsEnd == WaitpidReturns /\ MutexReleased
=============================================================================

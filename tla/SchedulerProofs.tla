-------------------------- MODULE SchedulerProofs --------------------------
(***************************************************************************)
(* What holds of the scheduler and the process table of every size, for    *)
(* every number of processes created and whatever fails in createProcess,  *)
(* as long as ticks spare the windows that the README describes: the       *)
(* circular list stays closed and complete, nextProcess resumes the right  *)
(* process, no node or entry is lost or shared, the list is a round-robin  *)
(* queue of processes, and waitpid waits.                                  *)
(***************************************************************************)
EXTENDS Scheduler, WellFoundedInduction, FiniteSetTheorems, SequenceTheorems, TLAPS

(* A set of naturals that is not empty has a least element.                *)
LEMMA LeastNat == \A S \in SUBSET Nat : S # {} => \E m \in S : \A n \in S : m <= n
<1> SUFFICES ASSUME NEW S \in SUBSET Nat, S # {} PROVE \E m \in S : \A n \in S : m <= n
  OBVIOUS
<1>1. PICK m \in S : \A n \in S : ~ (<<n, m>> \in OpToRel(<, Nat))
  BY NatLessThanWellFounded, WFMin
<1>2. \A n \in S : ~(n < m)
  BY <1>1 DEF OpToRel
<1> QED BY <1>2

(* A set that holds 0 and the successor of each natural in it holds every  *)
(* natural: induction, over sets.                                          *)
LEMMA NatIsInductive ==
  ASSUME NEW S, 0 \in S, \A n \in S \cap Nat : n + 1 \in S
  PROVE  Nat \subseteq S
<1> SUFFICES ASSUME Nat \ S # {} PROVE FALSE
  OBVIOUS
<1>1. PICK m \in Nat \ S : \A n \in Nat \ S : m <= n
  BY LeastNat
<1>2. m # 0 /\ m - 1 \in Nat /\ m - 1 \in S
  BY <1>1
<1>3. (m - 1) + 1 = m /\ m \notin S
  BY <1>1
<1> QED BY <1>2, <1>3

(* Following links from a node any number of times up to MaxProcesses is   *)
(* well defined: Ahead is the function its recursive definition describes. *)
LEMMA AheadIsDefined ==
  ASSUME NEW link \in [Node -> Node], NEW node \in Node
  PROVE  Ahead(link, node) = [k \in 0..MaxProcesses |->
                                IF k = 0 THEN node ELSE link[Ahead(link, node)[k - 1]]]
<1> DEFINE Walk(g, m) == /\ g \in [0..m -> Node] /\ g[0] = node
                         /\ \A k \in 1..m : g[k] = link[g[k - 1]]
           Walked == {m \in Nat : \E g : Walk(g, m)}
<1>1. 0 \in Walked
  <2>1. Walk([k \in 0..0 |-> node], 0)
    OBVIOUS
  <2> QED BY <2>1
<1>2. ASSUME NEW m \in Walked PROVE m + 1 \in Walked
  <2>1. PICK g : Walk(g, m)
    BY <1>2
  <2> DEFINE h == [k \in 0..(m + 1) |-> IF k = m + 1 THEN link[g[m]] ELSE g[k]]
  <2>2. Walk(h, m + 1)
    BY <2>1
  <2> HIDE DEF h, Walk
  <2> QED BY <2>2
<1>3. PICK g : Walk(g, MaxProcesses)
  <2> HIDE DEF Walked
  <2>1. MaxProcesses \in Walked
    BY <1>1, <1>2, NatIsInductive, MaxProcessesAssumption
  <2> QED BY <2>1 DEF Walked
<1>4. g = [k \in 0..MaxProcesses |-> IF k = 0 THEN node ELSE link[g[k - 1]]]
  BY <1>3, MaxProcessesAssumption
<1> QED BY <1>4 DEF Ahead

(* The links go through the nodes of r in their order, each once, and from *)
(* the last back to the first: the circular list that scheduler.c keeps.   *)
Closes(r, link) ==
    /\ r \in Seq(Node)
    /\ \A j, k \in 1..Len(r) : r[j] = r[k] => j = k
    /\ \A k \in 1..Len(r) : link[r[k]] = IF k = Len(r) THEN r[1] ELSE r[k + 1]

(* A list of different nodes is no longer than the page of nodes.          *)
LEMMA RingFits ==
  ASSUME NEW r \in Seq(Node), \A j, k \in 1..Len(r) : r[j] = r[k] => j = k
  PROVE  Len(r) <= MaxProcesses
<1>1. r \in Injection(1..Len(r), Node)
  BY DEF Injection, IsInjective
<1>2. IsFiniteSet(Node) /\ Cardinality(Node) = MaxProcesses
  BY FS_Interval, MaxProcessesAssumption DEF Node
<1>3. Cardinality(1..Len(r)) = Len(r)
  BY FS_Interval
<1> QED BY <1>1, <1>2, <1>3, FS_Injection

(* The lowest member of a set of integers is the one below all others.     *)
LEMMA LowestIs ==
  ASSUME NEW S \in SUBSET Int, NEW m \in S, \A k \in S : m <= k
  PROVE  S # {} /\ Lowest(S) = m
<1>1. Lowest(S) \in S /\ \A k \in S : Lowest(S) <= k
  BY DEF Lowest
<1>2. Lowest(S) <= m /\ m <= Lowest(S) /\ Lowest(S) \in Int /\ m \in Int
  BY <1>1
<1> QED BY <1>2

(* Links that close over r have r as their ring: the walk that starts and  *)
(* ends at the last node of r meets the nodes of r, in that order.         *)
LEMMA RingUnique ==
  ASSUME NEW link \in [Node -> Node], NEW r, Closes(r, link), r # <<>>
  PROVE  RingFrom(link, r[Len(r)]) = r
<1> DEFINE n == Len(r)
           base == r[n]
           ahead == Ahead(link, base)
           laps == {k \in 1..MaxProcesses : ahead[k] = base}
<1>0. r \in Seq(Node) /\ n \in Nat \ {0} /\ n <= MaxProcesses /\ base \in Node
  BY RingFits, MaxProcessesAssumption DEF Closes
<1>1. ahead = [k \in 0..MaxProcesses |-> IF k = 0 THEN base ELSE link[ahead[k - 1]]]
  BY <1>0, AheadIsDefined
<1>b. ahead[0] = base /\ \A k \in 0..(MaxProcesses - 1) : ahead[k + 1] = link[ahead[k]]
  <2> HIDE DEF ahead
  <2>1. ASSUME NEW k \in 0..(MaxProcesses - 1) PROVE ahead[k + 1] = link[ahead[k]]
    <3>1. k + 1 \in 0..MaxProcesses /\ k + 1 # 0 /\ (k + 1) - 1 = k
      BY MaxProcessesAssumption
    <3> QED BY <3>1, <1>1
  <2> QED BY <2>1, <1>1, MaxProcessesAssumption
<1>2. \A k \in 1..n : ahead[k] = r[k]
  <2> DEFINE S == {k \in Nat : k + 1 \in 1..n => ahead[k + 1] = r[k + 1]}
  <2> HIDE DEF ahead
  <2>1. 0 \in S
    <3>1. ahead[1] = link[ahead[0]] /\ ahead[0] = base
      BY <1>0, <1>b, MaxProcessesAssumption
    <3>2. link[base] = r[1]
      BY <1>0 DEF Closes
    <3> QED BY <3>1, <3>2
  <2>2. ASSUME NEW m \in S PROVE m + 1 \in S
    <3> SUFFICES ASSUME m + 2 \in 1..n PROVE ahead[m + 2] = r[m + 2]
      OBVIOUS
    <3>1. ahead[m + 2] = link[ahead[m + 1]]
      BY <1>0, <1>b, <2>2, MaxProcessesAssumption
    <3>2. ahead[m + 1] = r[m + 1]
      BY <2>2
    <3>3. link[r[m + 1]] = r[m + 2]
      BY <1>0, <2>2 DEF Closes
    <3> QED BY <3>1, <3>2, <3>3
  <2>3. Nat \subseteq S
    <3> HIDE DEF S
    <3> QED BY <2>1, <2>2, NatIsInductive
  <2> SUFFICES ASSUME NEW k \in 1..n PROVE ahead[k] = r[k]
    OBVIOUS
  <2>4. k - 1 \in S /\ (k - 1) + 1 = k
    BY <2>3, <1>0
  <2> QED BY <2>4
<1> HIDE DEF ahead
<1>3. n \in laps /\ \A k \in laps : n <= k
  BY <1>0, <1>2 DEF Closes
<1>4. Lowest(laps) = n /\ laps # {}
  <2>1. laps \subseteq Int
    BY MaxProcessesAssumption
  <2> HIDE DEF laps
  <2> QED BY <1>3, <2>1, LowestIs
<1>5. RingFrom(link, base) = [k \in 1..n |-> ahead[k]]
  BY <1>4 DEF RingFrom, ahead
<1> QED BY <1>0, <1>2, <1>5

-----------------------------------------------------------------------------
(* Between the reads and the stores of enqueueProcess, and between those   *)
(* of finishProcess, a tick would turn the list under the code's feet (the *)
(* windows the README lists). TicksSpareLists is the one assumption about  *)
(* ticks that the invariant needs: fewer program points than               *)
(* OutsideWindows leaves out, since waitpid's walk may be suspended        *)
(* anywhere without harm to the list.                                      *)
Sealed == {"link2", "link3", "link4", "exit2"}
TicksSpareLists == TickPoints \cap Sealed = {}

(* One process at a time is inside createProcess, and it holds             *)
(* createProcessMutex.                                                     *)
Inside == CreatePoints \ {"lock"}
Alone ==
    \A p \in Pid : pc[p] \in Inside =>
       createProcessMutex = 1 /\ \A q \in Pid : pc[q] \in Inside => q = p

(* Nobody else runs while a process is in the windows above.               *)
Undisturbed == \A p \in Pid : pc[p] \in Sealed => cpu = p

(* The occupied entries of the process table have pids already given out,  *)
(* no two the same; and a process that has no pid yet has done nothing.    *)
OwnPid ==
    /\ \A i \in occupied : pid[i] \in 1..(nextPid - 1)
    /\ \A i, j \in occupied : pid[i] = pid[j] => i = j
    /\ \A p \in Pid : p >= nextPid => pc[p] = "user"

(* Those who have yet to take a pid, and the pids that are left for them:  *)
(* the bound on nextPid, kept.                                             *)
Creators == {q \in Pid : pc[q] \in {"lock", "getFreeNode", "createProcess"}}
PidsLast == nextPid + Cardinality(Creators) <= MaxPid + 1

(* The ring closes, and ends at Base.                                      *)
RingClosed ==
    /\ Closes(Ring, next)
    /\ Base = IF Ring = <<>> THEN NULL ELSE Ring[Len(Ring)]

(* The used nodes are those of the ring and the one being built.           *)
NodesUsed ==
    /\ \A n \in Node : (\E k \in 1..Len(Ring) : Ring[k] = n)
                        <=> n \in usedNodes /\ \A p \in Building : local[p].newNode # n
    /\ \A p \in Building : local[p].newNode \in usedNodes

(* The PCB entry of the k-th process of the ring: occupied, and of no      *)
(* other node (a node whose creation failed has a BadPCB).                 *)
Entry(k) == PCBIndex[Ring[k]]
EntriesTaken ==
    \A j, k \in 1..Len(Ring) : Entry(j) \in PCB =>
       Entry(j) \in occupied /\ (Entry(j) = Entry(k) => j = k)

(* While a process is being built, its entry is taken, its stack is set    *)
(* up, it has not run, and it is not in the ring.                          *)
HasChild(p) == pc[p] \in {"fill", "link2", "link3", "link4"}
ChildReady ==
    \A p \in Pid : HasChild(p) /\ local[p].newPCB \in PCB =>
       LET child == local[p].newPCB IN
       /\ child \in occupied /\ stack[child] = pid[child] /\ pc[pid[child]] = "user"
       /\ \A k \in 1..Len(Ring) : Entry(k) # child

(* What enqueueProcess has stored by each of its program points.           *)
NodeFilled ==
    \A p \in Pid : pc[p] \in {"link2", "link3", "link4"} =>
       LET node == local[p].newNode IN
       /\ PCBIndex[node] = local[p].newPCB /\ state[node] = "RUNNING" /\ local[p].aux \in Node
       /\ pc[p] = "link2" => next[node] = node /\ local[p].aux = last
       /\ pc[p] \in {"link3", "link4"} => last = node
       /\ pc[p] = "link4" => next[node] = next[local[p].aux]

(* Before createProcess returns and after the node is linked, no entry is  *)
(* remembered.                                                             *)
NoChildYet ==
    \A p \in Pid : pc[p] \notin {"fill", "link2", "link3", "link4", "getPID", "unlock"} =>
       local[p].newPCB = BadPCB

(* The pointers of isProcessRunning are never null when they are followed. *)
WalkInside ==
    \A p \in Pid : /\ pc[p] = "walk2" => local[p].aux \in Node
                   /\ pc[p] = "walk3" => local[p].pointer \in Node

(* finishProcess holds the last it read until it has marked the node after *)
(* it.                                                                     *)
ExitAtHead == \A p \in Pid : pc[p] = "exit2" => local[p].aux = last

(* The process that runs is that of the first node, and every other entry  *)
(* keeps its own stack.                                                    *)
HeadRuns ==
    /\ cpu \in Pid => Ring # <<>> /\ Entry(1) \in PCB /\ cpu = pid[Entry(1)]
    /\ \A k \in 1..Len(Ring) : Entry(k) \in PCB /\ ~(k = 1 /\ cpu \in Pid)
          => stack[Entry(k)] = pid[Entry(k)]

(* A process that called EXIT does not run, and its node is marked.        *)
ExitedFinished ==
    \A p \in Pid : pc[p] = "exited" =>
       cpu # p /\ \A k \in 1..Len(Ring) : Entry(k) \in PCB /\ pid[Entry(k)] = p
          => state[Ring[k]] = "FINISHED"

(* kernel_main runs only before the first tick and after the last process. *)
KernelLeft ==
    /\ firstIteration => cpu = Kernel
    /\ Ring = <<>> => cpu = Kernel /\ ~firstIteration
    /\ cpu = Kernel /\ ~firstIteration => Ring = <<>>

(* The inductive invariant. RingComplete and RightProcessRuns are not      *)
(* inductive: whether a switch saves a stack in the right entry depends on *)
(* the list being closed (RingClosed) and starting with the process that   *)
(* runs (HeadRuns); whether it stays closed depends on who may be in the   *)
(* middle of changing it (Alone, Undisturbed, NodeFilled); and that the    *)
(* entries are different depends on what getFreeNode and createProcess     *)
(* find free (NodesUsed, EntriesTaken, ChildReady).                        *)
IInv ==
    /\ TypeOK
    /\ Alone /\ Undisturbed /\ OwnPid /\ PidsLast
    /\ RingClosed /\ NodesUsed /\ EntriesTaken /\ ChildReady /\ NoChildYet /\ WalkInside
    /\ NodeFilled /\ ExitAtHead
    /\ HeadRuns /\ ExitedFinished /\ KernelLeft

-----------------------------------------------------------------------------
(* A ring whose first node has gone to the back: what nextProcess makes of *)
(* it.                                                                     *)
Turned(r) == Append(Tail(r), Head(r))

(* Turning a sequence moves each element one place to the front, and the   *)
(* first to the back.                                                      *)
LEMMA Turns ==
  ASSUME NEW S, NEW r \in Seq(S), r # <<>>
  PROVE  /\ Turned(r) \in Seq(S) /\ Len(Turned(r)) = Len(r) /\ Turned(r) # <<>>
         /\ \A k \in 1..Len(r) : Turned(r)[k] = IF k = Len(r) THEN r[1] ELSE r[k + 1]
<1> DEFINE rest == Tail(r)
<1>1. Len(r) \in Nat \ {0} /\ Head(r) = r[1] /\ r[1] \in S
  OBVIOUS
<1>2. rest \in Seq(S) /\ Len(rest) = Len(r) - 1 /\ \A k \in 1..Len(rest) : rest[k] = r[k + 1]
  BY HeadTailProperties
<1>3. Turned(r) = Append(rest, r[1])
  BY <1>1 DEF Turned
<1> HIDE DEF rest
<1>4. /\ Turned(r) \in Seq(S) /\ Turned(r) # <<>> /\ Len(Turned(r)) = Len(r)
      /\ \A k \in 1..Len(rest) : Turned(r)[k] = rest[k]
      /\ Turned(r)[Len(r)] = r[1]
  BY <1>1, <1>2, <1>3, AppendProperties
<1> QED BY <1>1, <1>2, <1>4

(* The same links close over the turned ring: last = last->next needs no   *)
(* other store.                                                            *)
LEMMA TurnedCloses ==
  ASSUME NEW link, NEW r, Closes(r, link), r # <<>>
  PROVE  Closes(Turned(r), link)
<1>0. r \in Seq(Node) /\ Len(r) \in Nat \ {0}
  BY DEF Closes
<1> DEFINE t == Turned(r)
<1>1. t \in Seq(Node) /\ Len(t) = Len(r)
         /\ \A k \in 1..Len(r) : t[k] = IF k = Len(r) THEN r[1] ELSE r[k + 1]
  BY <1>0, Turns
<1> HIDE DEF t
<1>2. \A j, k \in 1..Len(r) : t[j] = t[k] => j = k
  BY <1>0, <1>1 DEF Closes
<1>3. \A k \in 1..Len(r) : link[t[k]] = IF k = Len(r) THEN t[1] ELSE t[k + 1]
  BY <1>0, <1>1 DEF Closes
<1>4. Closes(t, link)
  BY <1>1, <1>2, <1>3 DEF Closes
<1> QED BY <1>4 DEF t

(* Linking the last node to the second leaves the first node out and       *)
(* closes over the rest: how nextProcessRecursive removes a finished       *)
(* process.                                                                *)
LEMMA TailCloses ==
  ASSUME NEW link \in [Node -> Node], NEW r, Closes(r, link), Len(r) > 1
  PROVE  LET t == Tail(r) IN
         /\ Closes(t, [link EXCEPT ![r[Len(r)]] = link[r[1]]])
         /\ t # <<>> /\ Len(t) = Len(r) - 1 /\ t[Len(t)] = r[Len(r)]
         /\ \A k \in 1..Len(t) : t[k] = r[k + 1]
<1>0. r \in Seq(Node) /\ Len(r) \in Nat \ {0, 1}
  BY DEF Closes
<1> DEFINE t == Tail(r)
           made == [link EXCEPT ![r[Len(r)]] = link[r[1]]]
<1>a. t \in Seq(Node) /\ Len(t) = Len(r) - 1 /\ \A k \in 1..Len(t) : t[k] = r[k + 1]
  <2>1. r # <<>>
    BY <1>0
  <2> QED BY <1>0, <2>1, HeadTailProperties
<1>1. /\ t \in Seq(Node) /\ Len(t) = Len(r) - 1 /\ t # <<>>
      /\ \A k \in 1..Len(t) : t[k] = r[k + 1]
  <2> HIDE DEF t
  <2> QED BY <1>0, <1>a
<1>2. \A k \in 1..Len(r) : made[r[k]] = IF k = Len(r) THEN r[2] ELSE r[k + 1]
  BY <1>0 DEF Closes
<1> HIDE DEF t, made
<1>3. \A j, k \in 1..Len(t) : t[j] = t[k] => j = k
  BY <1>0, <1>1 DEF Closes
<1>4. \A k \in 1..Len(t) : made[t[k]] = IF k = Len(t) THEN t[1] ELSE t[k + 1]
  BY <1>0, <1>1, <1>2
<1>5. t[Len(t)] = r[Len(r)]
  BY <1>0, <1>1
<1> QED BY <1>1, <1>3, <1>4, <1>5 DEF Closes, t, made

(* A node that points to the first one, and that the last one points to,   *)
(* is the new last node: the three stores of enqueueProcess together.      *)
LEMMA AppendCloses ==
  ASSUME NEW link \in [Node -> Node], NEW r, Closes(r, link), r # <<>>,
         NEW node \in Node, \A k \in 1..Len(r) : r[k] # node, link[node] = r[1]
  PROVE  /\ Closes(Append(r, node), [link EXCEPT ![r[Len(r)]] = node])
         /\ Append(r, node) # <<>> /\ Len(Append(r, node)) = Len(r) + 1
         /\ Append(r, node)[Len(Append(r, node))] = node
         /\ \A k \in 1..Len(r) : Append(r, node)[k] = r[k]
<1>0. r \in Seq(Node) /\ Len(r) \in Nat \ {0}
  BY DEF Closes
<1> DEFINE t == Append(r, node)
           made == [link EXCEPT ![r[Len(r)]] = node]
<1>1. /\ t \in Seq(Node) /\ Len(t) = Len(r) + 1 /\ t # <<>> /\ t[Len(t)] = node
      /\ \A k \in 1..Len(r) : t[k] = r[k]
  BY <1>0
<1>2. \A k \in 1..Len(r) : made[r[k]] = IF k = Len(r) THEN node ELSE r[k + 1]
  BY <1>0 DEF Closes
<1>3. made[node] = r[1]
  BY <1>0
<1> HIDE DEF t, made
<1>4. \A j, k \in 1..Len(t) : t[j] = t[k] => j = k
  BY <1>0, <1>1 DEF Closes
<1>5. \A k \in 1..Len(t) : made[t[k]] = IF k = Len(t) THEN t[1] ELSE t[k + 1]
  BY <1>0, <1>1, <1>2, <1>3
<1> QED BY <1>1, <1>4, <1>5 DEF Closes, t, made

(* A store to a node outside the ring leaves it closed.                    *)
LEMMA OthersClose ==
  ASSUME NEW link, NEW r, Closes(r, link), NEW node, NEW to, \A k \in 1..Len(r) : r[k] # node
  PROVE  Closes(r, [link EXCEPT ![node] = to])
BY DEF Closes

-----------------------------------------------------------------------------
(* The type invariant in three parts, which the steps disturb one at a     *)
(* time.                                                                   *)
Locals == [newNode : Node \cup {NULL}, newPCB : PCB \cup {BadPCB},
           aux : Node \cup {NULL}, current : Node \cup {NULL},
           pointer : Node \cup {NULL}, target : 0..MaxPid,
           result : -1..MaxPid, wasAlive : BOOLEAN, astray : BOOLEAN]

StaticsOK ==
    /\ usedNodes \subseteq Node /\ last \in Node \cup {NULL}
    /\ firstIteration \in BOOLEAN
    /\ PCBIndex \in [Node -> PCB \cup {BadPCB}]
    /\ next \in [Node -> Node]
    /\ occupied \subseteq PCB /\ pid \in [PCB -> 0..MaxPid]
    /\ stack \in [PCB -> Pid \cup {NoStack}] /\ nextPid \in 1..(MaxPid + 1)
    /\ createProcessMutex \in {0, 1}
    /\ cpu \in Pid \cup {Kernel, ISR, NoStack}
StateOK   == state \in [Node -> {"RUNNING", "FINISHED"}]
ThreadsOK == pc \in [Pid -> Point] /\ local \in [Pid -> Locals]

(* TypeOK is its three parts, before and after a step.                     *)
LEMMA TypeParts ==
  /\ TypeOK <=> StaticsOK /\ StateOK /\ ThreadsOK
  /\ TypeOK' <=> StaticsOK' /\ StateOK' /\ ThreadsOK'
BY DEF TypeOK, StaticsOK, StateOK, ThreadsOK, Locals

(* The locals of a process that has none are of their type.                *)
LEMMA NoLocalsAre == NoLocals \in Locals
BY MaxPidAssumption DEF NoLocals, Locals, NULL, BadPCB

(* Each assignment to a local that the system calls make keeps its type.   *)
LEMMA LocalsExcept ==
  ASSUME NEW l \in Locals, NEW v \in Node \cup {NULL}
  PROVE  /\ [l EXCEPT !.aux = v] \in Locals
         /\ [l EXCEPT !.newNode = v] \in Locals
         /\ [l EXCEPT !.pointer = v] \in Locals
         /\ \A w \in Node \cup {NULL} : [l EXCEPT !.current = w, !.pointer = v] \in Locals
         /\ [l EXCEPT !.pointer = NULL, !.current = NULL, !.aux = NULL, !.astray = FALSE] \in Locals
         /\ \A i \in PCB : [l EXCEPT !.newPCB = i] \in Locals
         /\ \A x \in -1..MaxPid : [l EXCEPT !.result = x] \in Locals
         /\ \A x \in 0..MaxPid, b \in BOOLEAN :
               [l EXCEPT !.target = x, !.aux = v, !.wasAlive = b] \in Locals
BY DEF Locals

(* Giving a node back changes no local, only what is remembered of walks.  *)
LEMMA AstrayLocals ==
  ASSUME NEW n, local \in [Pid -> Locals]
  PROVE  /\ Astray(n) \in [Pid -> Locals]
         /\ \A q \in Pid :
              /\ Astray(n)[q].newNode = local[q].newNode /\ Astray(n)[q].newPCB = local[q].newPCB
              /\ Astray(n)[q].aux = local[q].aux /\ Astray(n)[q].current = local[q].current
              /\ Astray(n)[q].pointer = local[q].pointer
              /\ Astray(n)[q].target = local[q].target
              /\ Astray(n)[q].wasAlive = local[q].wasAlive
<1>1. ASSUME NEW l \in Locals
      PROVE  LET m == [l EXCEPT !.astray = TRUE] IN
             /\ m \in Locals
             /\ m.newNode = l.newNode /\ m.newPCB = l.newPCB /\ m.aux = l.aux
             /\ m.current = l.current /\ m.pointer = l.pointer /\ m.target = l.target
             /\ m.wasAlive = l.wasAlive
  BY DEF Locals
<1>2. ASSUME NEW q \in Pid
      PROVE  /\ local[q] \in Locals
             /\ Astray(n)[q] = local[q] \/ Astray(n)[q] = [local[q] EXCEPT !.astray = TRUE]
  BY DEF Astray
<1>3. \A q \in Pid : Astray(n)[q] \in Locals
  BY <1>1, <1>2
<1>4. Astray(n) \in [Pid -> Locals]
  BY <1>3 DEF Astray
<1>5. ASSUME NEW q \in Pid, NEW a, NEW l \in Locals,
             a = l \/ a = [l EXCEPT !.astray = TRUE]
      PROVE  /\ a.newNode = l.newNode /\ a.newPCB = l.newPCB /\ a.aux = l.aux
             /\ a.current = l.current /\ a.pointer = l.pointer /\ a.target = l.target
             /\ a.wasAlive = l.wasAlive
  BY <1>1, <1>5
<1> QED BY <1>2, <1>4, <1>5

(* Indices in the two pages are naturals.                                  *)
LEMMA NodesAreNat == Node \subseteq Nat /\ PCB \subseteq Nat
BY MaxProcessesAssumption DEF Node, PCB

(* The first free index found is a free one.                               *)
LEMMA LowestFree ==
  ASSUME NEW S \in SUBSET Nat, S # {}
  PROVE  Lowest(S) \in S
<1>1. \E m \in S : \A n \in S : m <= n
  BY LeastNat
<1> QED BY <1>1 DEF Lowest

(* How many are about to take a pid, with one more of them and one less.   *)
LEMMA CreatorsAre ==
  /\ IsFiniteSet(Creators) /\ Cardinality(Creators) \in Nat
  /\ \A p \in Creators : Cardinality(Creators) >= 1 /\ IsFiniteSet(Creators \ {p})
                         /\ Cardinality(Creators \ {p}) = Cardinality(Creators) - 1
  /\ \A p \in Pid \ Creators : Cardinality(Creators \cup {p}) = Cardinality(Creators) + 1
<1>1. IsFiniteSet(Pid)
  BY FS_Interval, MaxPidAssumption DEF Pid
<1>2. IsFiniteSet(Creators) /\ Cardinality(Creators) \in Nat
  BY <1>1, FS_Subset, FS_CardinalityType DEF Creators
<1>3. ASSUME NEW p \in Creators
      PROVE  /\ Cardinality(Creators) >= 1 /\ IsFiniteSet(Creators \ {p})
             /\ Cardinality(Creators \ {p}) = Cardinality(Creators) - 1
  <2>1. IsFiniteSet(Creators \ {p}) /\ Cardinality(Creators \ {p}) = Cardinality(Creators) - 1
    BY <1>2, FS_RemoveElement
  <2>2. Cardinality(Creators \ {p}) \in Nat
    BY <2>1, FS_CardinalityType
  <2> QED BY <1>2, <2>1, <2>2
<1>4. ASSUME NEW p \in Pid \ Creators
      PROVE Cardinality(Creators \cup {p}) = Cardinality(Creators) + 1
  BY <1>2, FS_AddElement
<1> QED BY <1>2, <1>3, <1>4

(* Whoever is about to take a pid has one left to take.                    *)
LEMMA PidLeft ==
  ASSUME TypeOK, PidsLast, NEW p \in Pid, pc[p] = "createProcess"
  PROVE  nextPid \in Pid
<1>1. p \in Creators
  BY DEF Creators
<1>2. Cardinality(Creators) >= 1 /\ Cardinality(Creators) \in Nat
  BY <1>1, CreatorsAre
<1> QED BY <1>2, MaxPidAssumption DEF TypeOK, PidsLast, Pid

(* When nobody is between the stores of enqueueProcess, last is the last   *)
(* node of the ring and the node after it the first.                       *)
LEMMA HeadIs ==
  ASSUME TypeOK, Undisturbed, RingClosed, KernelLeft, cpu # Kernel \/ firstIteration,
         \A p \in Pid : cpu = p => pc[p] \notin {"link3", "link4"}
  PROVE  /\ Base = last
         /\ Ring \in Seq(Node) /\ Len(Ring) \in Nat \ {0} /\ Ring # <<>>
         /\ last \in Node /\ last = Ring[Len(Ring)]
         /\ next[last] = Ring[1] /\ Ring[1] \in Node
<1>1. \A p \in Pid : pc[p] \notin {"link3", "link4"}
  BY DEF Undisturbed, Sealed
<1>2. Base = last
  BY <1>1 DEF Base, Linking
<1>3. Ring # <<>>
  BY DEF KernelLeft
<1>4. Ring \in Seq(Node) /\ Len(Ring) \in Nat \ {0} /\ Base = Ring[Len(Ring)]
  BY <1>3 DEF RingClosed, Closes
<1>5. next[Ring[Len(Ring)]] = Ring[1]
  BY <1>4 DEF RingClosed, Closes
<1> QED BY <1>2, <1>3, <1>4, <1>5

(* A switch keeps the scheduler's statics and the tables in their types.   *)
LEMMA SwitchType ==
  ASSUME StaticsOK, last \in Node, NEW rsp, rsp \in Pid \/ firstIteration, SwitchFrom(rsp)
  PROVE  StaticsOK'
BY DEF SwitchFrom, StaticsOK

(* Every step keeps every variable in its type: in particular nextProcess  *)
(* never follows a null link, the entries of the tables are in range, and  *)
(* no pid above the bound is given out.                                    *)
LEMMA TypeInv ==
  ASSUME IInv, TicksSpareLists, Next
  PROVE  TypeOK'
<1>t. TypeOK /\ StaticsOK /\ StateOK /\ ThreadsOK
  BY TypeParts DEF IInv
<1>i. Undisturbed /\ RingClosed /\ KernelLeft
  BY DEF IInv
<1> SUFFICES StaticsOK' /\ StateOK' /\ ThreadsOK'
  BY TypeParts
<1>c. Kernel \notin Pid /\ ISR \notin Pid /\ NoStack \notin Pid /\ Kernel # ISR
  BY MaxPidAssumption DEF Pid, Kernel, ISR, NoStack
<1>n. NoLocals \in Locals
  BY NoLocalsAre
<1>1. CASE Interrupt
  <2>1. CASE FirstTick
    <3>1. last \in Node /\ next[last] \in Node
      BY <2>1, <1>c, <1>t, <1>i, HeadIs DEF FirstTick
    <3>2. StaticsOK'
      BY <2>1, <3>1, <1>t, SwitchType DEF FirstTick
    <3> QED BY <2>1, <3>2, <1>t DEF FirstTick, threads, StateOK, ThreadsOK
  <2>2. CASE Reap
    <3>1. last \in Node /\ next[last] \in Node
      BY <2>2, <1>c, <1>t, <1>i, HeadIs DEF Reap
    <3>2. UNCHANGED <<firstIteration, PCBIndex, nextPid, createProcessMutex>>
             /\ usedNodes' \subseteq Node
      BY <2>2, <1>t DEF Reap, StaticsOK
    <3>3. last' \in Node \cup {NULL} /\ next' \in [Node -> Node] /\ cpu' \in {Kernel, ISR}
      BY <2>2, <3>1, <1>t DEF Reap, StaticsOK
    <3>4. occupied' \subseteq PCB /\ pid' \in [PCB -> 0..MaxPid]
             /\ stack' \in [PCB -> Pid \cup {NoStack}]
      <4>1. CASE PCBIndex[next[last]] \in PCB
        BY <2>2, <4>1, <1>t, MaxPidAssumption DEF Reap, StaticsOK
      <4>2. CASE PCBIndex[next[last]] \notin PCB
        BY <2>2, <4>2, <1>t DEF Reap, StaticsOK
      <4> QED BY <4>1, <4>2
    <3>5. StaticsOK'
      BY <3>2, <3>3, <3>4, <1>t DEF StaticsOK
    <3>6. local' \in [Pid -> Locals]
      BY <2>2, <1>t, AstrayLocals DEF Reap, ThreadsOK
    <3> QED BY <2>2, <3>5, <3>6, <1>t DEF Reap, StateOK, ThreadsOK
  <2>3. CASE Dispatch
    <3>1. cpu' \in Pid \cup {NoStack}
      BY <2>3, <1>t DEF Dispatch, getProcessStack, StaticsOK
    <3>2. UNCHANGED <<nodes, pcbs, createProcessMutex, state, pc, local>>
      BY <2>3 DEF Dispatch, nodes, threads
    <3>3. StaticsOK'
      BY <3>1, <3>2, <1>t DEF StaticsOK, nodes, pcbs
    <3> QED BY <3>2, <3>3, <1>t DEF StateOK, ThreadsOK
  <2> QED BY <1>1, <2>1, <2>2, <2>3 DEF Interrupt
<1>2. CASE finishKernel
  BY <1>2, <1>t DEF finishKernel, vars, nodes, pcbs, threads, StaticsOK, StateOK, ThreadsOK
<1>3. ASSUME NEW p \in Pid, Tick(p) \/ SystemCall(p) \/ User(p)
      PROVE StaticsOK' /\ StateOK' /\ ThreadsOK'
  <2>a. cpu = p /\ pc[p] \notin {"link3", "link4"} => last \in Node /\ next[last] \in Node
    BY <1>c, <1>t, <1>i, HeadIs
  <2>b. ASSUME cpu = p, pc[p] \notin {"link3", "link4"}, SwitchFrom(p) PROVE StaticsOK'
    BY <2>a, <2>b, <1>t, SwitchType
  <2>c. ASSUME Unmoved PROVE StaticsOK' /\ StateOK'
    BY <2>c, <1>t DEF Unmoved, StaticsOK, StateOK, nodes, pcbs
  <2>d. /\ \A point \in Point : Goto(p, point) => pc' \in [Pid -> Point]
        /\ Return(p) => ThreadsOK'
    BY <1>t, <1>n DEF Goto, Return, ThreadsOK, Point
  <2>1. CASE Tick(p)
    <3>1. StaticsOK'
      BY <2>1, <2>b DEF Tick, TicksSpareLists, Sealed
    <3> QED BY <2>1, <3>1, <1>t DEF Tick, threads, StateOK, ThreadsOK
  <2>2. CASE Yield(p)
    <3>1. StaticsOK'
      BY <2>2, <2>b DEF Yield, At
    <3> QED BY <2>2, <3>1, <1>t DEF Yield, threads, StateOK, ThreadsOK
  <2>3. CASE LockBusy(p)
    <3>1. StaticsOK'
      BY <2>3, <2>b DEF LockBusy, At
    <3> QED BY <2>3, <3>1, <1>t DEF LockBusy, threads, StateOK, ThreadsOK
  <2>4. CASE CallCreate(p) \/ CallExit(p) \/ Walk1(p)
    <3>1. StaticsOK' /\ StateOK' /\ pc' \in [Pid -> Point]
      BY <2>4, <2>c, <2>d
         DEF CallCreate, CallExit, Walk1, Point, CreatePoints, ExitPoints, WaitPoints
    <3>2. local' \in [Pid -> Locals]
      <4>1. [local[p] EXCEPT !.aux = last] \in Locals
        BY <1>t, LocalsExcept DEF ThreadsOK, StaticsOK
      <4> QED BY <2>4, <4>1, <1>t DEF CallCreate, CallExit, Walk1, ThreadsOK
    <3> QED BY <3>1, <3>2 DEF ThreadsOK
  <2>5. CASE \E target \in Waited : CallWait(p, target)
    <3>1. PICK target \in Waited : CallWait(p, target)
      BY <2>5
    <3>2. StaticsOK' /\ StateOK' /\ pc' \in [Pid -> Point]
      BY <3>1, <2>c, <2>d DEF CallWait, Point, WaitPoints
    <3>3. target \in 0..MaxPid /\ Alive(target) \in BOOLEAN /\ last \in Node \cup {NULL}
      BY <1>t, WaitedAssumption, MaxPidAssumption DEF Alive, Pid, StaticsOK
    <3>4. [NoLocals EXCEPT !.target = target, !.aux = last, !.wasAlive = Alive(target)] \in Locals
      BY <3>3, <1>n, LocalsExcept
    <3>5. local' \in [Pid -> Locals]
      BY <3>1, <3>4, <1>t DEF CallWait, ThreadsOK
    <3> QED BY <3>2, <3>5 DEF ThreadsOK
  <2>6. CASE Lock(p)
    BY <2>6, <2>d, <1>t DEF Lock, ThreadsOK, StaticsOK, StateOK, nodes, pcbs, Point, CreatePoints
  <2>7. CASE Unlock(p)
    BY <2>7, <2>d, <1>t DEF Unlock, ThreadsOK, StaticsOK, StateOK, nodes, pcbs
  <2>8. CASE getFreeNode(p)
    <3>1. pc' \in [Pid -> Point]
      BY <2>8, <2>d DEF getFreeNode, Point, CreatePoints
    <3>2. usedNodes # Node => Lowest(Node \ usedNodes) \in Node
      <4>1. Node \ usedNodes \in SUBSET Nat /\ (usedNodes # Node => Node \ usedNodes # {})
        BY <1>t, NodesAreNat DEF StaticsOK
      <4> QED BY <4>1, LowestFree
    <3>3. usedNodes' \subseteq Node /\ local' \in [Pid -> Locals]
      <4>1. CASE usedNodes = Node
        <5>1. [local[p] EXCEPT !.result = -1] \in Locals
          <6>1. local[p] \in Locals /\ -1 \in -1..MaxPid
            BY <1>t, MaxPidAssumption DEF ThreadsOK
          <6> QED BY <6>1, LocalsExcept DEF NULL
        <5> QED BY <2>8, <4>1, <5>1, <1>t DEF getFreeNode, ThreadsOK, StaticsOK
      <4>2. CASE usedNodes # Node
        <5>1. [local[p] EXCEPT !.newNode = Lowest(Node \ usedNodes)] \in Locals
          BY <4>2, <3>2, <1>t, LocalsExcept DEF ThreadsOK
        <5> QED BY <2>8, <4>2, <3>2, <5>1, <1>t DEF getFreeNode, ThreadsOK, StaticsOK
      <4> QED BY <4>1, <4>2
    <3>4. UNCHANGED <<last, firstIteration, PCBIndex, state, next, occupied, pid, stack,
             nextPid, createProcessMutex, cpu>>
      BY <2>8 DEF getFreeNode, pcbs
    <3> QED BY <3>1, <3>3, <3>4, <1>t DEF StaticsOK, StateOK, ThreadsOK
  <2>9. CASE createProcess(p) \/ createProcessFails(p)
    <3>1. pc' \in [Pid -> Point] /\ pc[p] = "createProcess"
      BY <2>9, <2>d DEF createProcess, createProcessFails, At, Point, CreatePoints
    <3>2. nextPid \in Pid /\ nextPid \in 0..MaxPid /\ nextPid + 1 \in 1..(MaxPid + 1)
      <4>1. nextPid \in Pid
        BY <1>t, <3>1, PidLeft DEF IInv
      <4> QED BY <4>1, MaxPidAssumption DEF Pid
    <3>3. occupied # PCB => Lowest(PCB \ occupied) \in PCB
      <4>1. PCB \ occupied \in SUBSET Nat /\ (occupied # PCB => PCB \ occupied # {})
        BY <1>t, NodesAreNat DEF StaticsOK
      <4> QED BY <4>1, LowestFree
    <3>4. local' \in [Pid -> Locals]
      <4>1. occupied # PCB => [local[p] EXCEPT !.newPCB = Lowest(PCB \ occupied)] \in Locals
        BY <3>3, <1>t, LocalsExcept DEF ThreadsOK, NULL
      <4> QED BY <2>9, <4>1, <1>t DEF createProcess, createProcessFails, ThreadsOK
    <3>5. occupied' \subseteq PCB /\ pid' \in [PCB -> 0..MaxPid]
             /\ stack' \in [PCB -> Pid \cup {NoStack}]
      BY <2>9, <3>2, <3>3, <1>t DEF createProcess, createProcessFails, StaticsOK
    <3>6. nextPid' \in 1..(MaxPid + 1)
      BY <2>9, <3>2, <1>t DEF createProcess, createProcessFails, StaticsOK
    <3>7. UNCHANGED <<usedNodes, last, firstIteration, PCBIndex, state, next,
             createProcessMutex, cpu>>
      BY <2>9 DEF createProcess, createProcessFails, nodes
    <3> QED BY <3>1, <3>4, <3>5, <3>6, <3>7, <1>t DEF StaticsOK, StateOK, ThreadsOK
  <2>10. CASE FillNode(p)
    <3>1. pc' \in [Pid -> Point]
      BY <2>10, <2>d DEF FillNode, Point, CreatePoints
    <3>2. local[p] \in Locals /\ local[p].newPCB \in PCB \cup {BadPCB} /\ local[p].newNode \in Node
      <4>1. local[p].newNode \in usedNodes
        BY <2>10 DEF FillNode, At, IInv, NodesUsed, Building
      <4> QED BY <4>1, <1>t DEF ThreadsOK, StaticsOK, Locals
    <3>3. local' \in [Pid -> Locals]
      <4>1. [local[p] EXCEPT !.aux = last] \in Locals
        BY <3>2, <1>t, LocalsExcept DEF StaticsOK
      <4> QED BY <2>10, <4>1, <1>t DEF FillNode, ThreadsOK
    <3> QED BY <2>10, <3>1, <3>2, <3>3, <1>t DEF FillNode, StaticsOK, StateOK, ThreadsOK, pcbs
  <2>11. CASE Link2(p) \/ Link3(p) \/ Link4(p)
    <3>1. pc' \in [Pid -> Point] /\ local' \in [Pid -> Locals]
      BY <2>11, <2>d, <1>t DEF Link2, Link3, Link4, Point, CreatePoints, ThreadsOK
    <3>2. local[p].newNode \in Node /\ local[p].aux \in Node
      <4>1. local[p].newNode \in usedNodes /\ local[p].aux \in Node
        BY <2>11 DEF Link2, Link3, Link4, At, IInv, NodesUsed, Building, NodeFilled
      <4> QED BY <4>1, <1>t DEF StaticsOK
    <3> QED BY <2>11, <3>1, <3>2, <1>t DEF Link2, Link3, Link4, StaticsOK, StateOK, ThreadsOK, pcbs
  <2>12. CASE GetPID(p)
    <3>1. StaticsOK' /\ StateOK' /\ pc' \in [Pid -> Point]
      BY <2>12, <2>c, <2>d DEF GetPID, Point, CreatePoints
    <3>2. getProcessPID(local[p].newPCB) \in -1..MaxPid
      BY <1>t, MaxPidAssumption DEF getProcessPID, StaticsOK
    <3>3. [local[p] EXCEPT !.result = getProcessPID(local[p].newPCB)] \in Locals
      BY <3>2, <1>t, LocalsExcept DEF ThreadsOK, NULL
    <3> QED BY <2>12, <3>1, <3>3, <1>t DEF GetPID, ThreadsOK
  <2>13. CASE Exit2(p)
    <3>1. StaticsOK' /\ pc' \in [Pid -> Point]
      BY <2>13, <2>b, <2>d DEF Exit2, At, Point, ExitPoints
    <3> QED BY <2>13, <3>1, <1>t, <1>n DEF Exit2, StateOK, ThreadsOK
  <2>14. CASE Wait2(p) \/ WaitReturn(p)
    <3>1. StaticsOK' /\ StateOK'
      BY <2>14, <2>c DEF Wait2, WaitReturn
    <3>2. ThreadsOK'
      BY <2>14, <2>d, <1>t DEF Wait2, WaitReturn, Point, WaitPoints, ThreadsOK
    <3> QED BY <3>1, <3>2
  <2>15. CASE Walk2(p) \/ Walk3(p)
    <3>1. StaticsOK' /\ StateOK' /\ pc' \in [Pid -> Point]
      BY <2>15, <2>c, <2>d, <1>t DEF Walk2, Walk3, Point, WaitPoints, ThreadsOK
    <3>2. /\ pc[p] = "walk2" => next[local[p].aux] \in Node
          /\ pc[p] = "walk3" => next[local[p].pointer] \in Node
      BY <1>t DEF IInv, WalkInside, StaticsOK
    <3>3. local' \in [Pid -> Locals]
      <4>1. CASE Walk2(p)
        <5>1. [local[p] EXCEPT !.current = next[local[p].aux],
                 !.pointer = next[local[p].aux]] \in Locals
          BY <4>1, <3>2, <1>t, LocalsExcept DEF Walk2, At, ThreadsOK
        <5> QED BY <4>1, <5>1, <1>t DEF Walk2, ThreadsOK
      <4>2. CASE Walk3(p)
        <5>1. [local[p] EXCEPT !.pointer = next[local[p].pointer]] \in Locals
          BY <4>2, <3>2, <1>t, LocalsExcept DEF Walk3, At, ThreadsOK
        <5> QED BY <4>2, <5>1, <1>t DEF Walk3, ThreadsOK
      <4> QED BY <2>15, <4>1, <4>2
    <3> QED BY <3>1, <3>3 DEF ThreadsOK
  <2>16. CASE WalkFound(p)
    <3>1. StaticsOK' /\ pc' \in [Pid -> Point]
      BY <2>16, <2>b, <2>d DEF WalkFound, At, Point, WaitPoints
    <3>2. [local[p] EXCEPT !.pointer = NULL, !.current = NULL, !.aux = NULL, !.astray = FALSE] \in Locals
      BY <1>t, LocalsExcept DEF ThreadsOK
    <3> QED BY <2>16, <3>1, <3>2, <1>t DEF WalkFound, StateOK, ThreadsOK
  <2> QED BY <1>3, <2>1, <2>2, <2>3, <2>4, <2>5, <2>6, <2>7, <2>8, <2>9, <2>10, <2>11, <2>12,
                <2>13, <2>14, <2>15, <2>16
             DEF SystemCall, User, Create, Wait
<1> QED BY <1>1, <1>2, <1>3 DEF Next

-----------------------------------------------------------------------------
(* Links that close over r, with Base at its end, make r the ring.         *)
LEMMA RingIs ==
  ASSUME next' \in [Node -> Node], NEW r, Closes(r, next'),
         Base' = IF r = <<>> THEN NULL ELSE r[Len(r)]
  PROVE  Ring' = r /\ RingClosed'
<1>1. Ring' = r
  <2>1. CASE r = <<>>
    BY <2>1 DEF Ring
  <2>2. CASE r # <<>>
    <3>1. r \in Seq(Node) /\ Len(r) \in 1..Len(r)
      BY <2>2 DEF Closes
    <3>2. Base' = r[Len(r)] /\ r[Len(r)] \in Node
      BY <2>2, <3>1
    <3>0. NULL \notin Node
      BY MaxProcessesAssumption DEF Node, NULL
    <3>3. RingFrom(next', r[Len(r)]) = r
      BY <2>2, RingUnique
    <3> QED BY <3>0, <3>2, <3>3 DEF Ring
  <2> QED BY <2>1, <2>2
<1> QED BY <1>1 DEF RingClosed

(* Links that still close over the ring, with the same Base, leave it as   *)
(* it is.                                                                  *)
LEMMA RingStays ==
  ASSUME IInv, next' \in [Node -> Node], Closes(Ring, next'), Base' = Base
  PROVE  Ring' = Ring /\ RingClosed'
<1>1. Base' = IF Ring = <<>> THEN NULL ELSE Ring[Len(Ring)]
  BY DEF IInv, RingClosed
<1> QED BY <1>1, RingIs

(* The process that runs is the one of the first node of the ring, and of  *)
(* no other node or entry.                                                 *)
LEMMA RunnerIs ==
  ASSUME IInv, NEW p \in Pid, cpu = p
  PROVE  /\ Ring # <<>> /\ Ring \in Seq(Node) /\ Len(Ring) \in Nat \ {0}
         /\ Entry(1) \in PCB /\ Entry(1) \in occupied /\ p = pid[Entry(1)]
         /\ p < nextPid /\ ~firstIteration /\ cpu # ISR /\ cpu # Kernel
         /\ \A k \in 1..Len(Ring) : Entry(k) \in PCB /\ pid[Entry(k)] = p => k = 1
         /\ \A q \in Pid : HasChild(q) /\ local[q].newPCB \in PCB => pid[local[q].newPCB] # p
<1>1. /\ Ring # <<>> /\ Entry(1) \in PCB /\ p = pid[Entry(1)]
  BY DEF IInv, HeadRuns
<1>2. Ring \in Seq(Node) /\ Len(Ring) \in Nat \ {0}
  BY <1>1 DEF IInv, RingClosed, Closes
<1>3. 1 \in 1..Len(Ring)
  BY <1>2
<1>4. Entry(1) \in occupied
  BY <1>1, <1>3 DEF IInv, EntriesTaken
<1>5. p < nextPid
  <2>1. pid[Entry(1)] \in 1..(nextPid - 1) /\ nextPid \in Int
    BY <1>4 DEF IInv, OwnPid, TypeOK
  <2> QED BY <1>1, <2>1
<1>6. cpu # ISR /\ cpu # Kernel /\ ~firstIteration
  BY MaxPidAssumption DEF IInv, KernelLeft, Pid, Kernel, ISR
<1>7. ASSUME NEW k \in 1..Len(Ring), Entry(k) \in PCB, pid[Entry(k)] = p PROVE k = 1
  <2>1. Entry(k) \in occupied
    BY <1>7 DEF IInv, EntriesTaken
  <2>2. Entry(k) = Entry(1)
    BY <1>1, <1>4, <1>7, <2>1 DEF IInv, OwnPid
  <2> QED BY <1>3, <1>7, <2>2 DEF IInv, EntriesTaken
<1>8. ASSUME NEW q \in Pid, HasChild(q), local[q].newPCB \in PCB PROVE pid[local[q].newPCB] # p
  <2>1. local[q].newPCB \in occupied /\ Entry(1) # local[q].newPCB
    BY <1>3, <1>8 DEF IInv, ChildReady
  <2> QED BY <1>1, <1>4, <2>1 DEF IInv, OwnPid
<1> QED BY <1>1, <1>2, <1>4, <1>5, <1>6, <1>7, <1>8

(* A step of a system call that stays on the CPU and leaves the scheduler  *)
(* and the tables as they are keeps the invariant, as long as the locals   *)
(* it sets are those the invariant tells of.                               *)
LEMMA LocalStep ==
  ASSUME IInv, TypeOK', Alone', PidsLast',
         NEW p \in Pid, cpu = p, UNCHANGED <<nodes, pcbs, cpu>>,
         pc[p] \notin {"createProcess", "fill", "link2", "link3", "link4", "exit2", "exited"},
         NEW to \in Point \ {"createProcess", "fill", "link2", "link3", "link4", "exited"},
         pc' = [pc EXCEPT ![p] = to],
         \A q \in Pid : q # p => local'[q] = local[q],
         to \notin {"getPID", "unlock"} => local'[p].newPCB = BadPCB,
         to = "walk2" => local'[p].aux = last,
         to = "walk3" => local'[p].pointer \in Node,
         to = "exit2" => local'[p].aux = last
  PROVE  IInv' /\ Ring' = Ring
<1>r. /\ Ring # <<>> /\ Entry(1) \in PCB /\ p = pid[Entry(1)]
      /\ p < nextPid
      /\ \A q \in Pid : HasChild(q) /\ local[q].newPCB \in PCB => pid[local[q].newPCB] # p
  BY RunnerIs
<1>u. UNCHANGED <<usedNodes, last, firstIteration, PCBIndex, state, next, occupied, pid, stack,
         nextPid, cpu>>
  BY DEF nodes, pcbs
<1>p. /\ pc \in [Pid -> Point] /\ pc' \in [Pid -> Point]
      /\ pc'[p] = to /\ \A q \in Pid : q # p => pc'[q] = pc[q]
      /\ nextPid \in Int
  BY DEF IInv, TypeOK
<1>s. last \in Node /\ \A q \in Pid : pc[q] \notin {"link3", "link4"}
         /\ pc'[q] \notin {"link3", "link4"}
  <2>1. \A q \in Pid : pc[q] \notin {"link3", "link4"}
    BY DEF IInv, Undisturbed, Sealed
  <2>2. \A q \in Pid : pc'[q] \notin {"link3", "link4"}
    BY <1>p, <2>1
  <2>3. last \in Node
    BY <2>1, <1>r, RunnerIs, HeadIs DEF IInv
  <2> QED BY <2>1, <2>2, <2>3
<1>1. Ring' = Ring /\ RingClosed'
  <2>1. Base' = Base
    BY <1>s, <1>u DEF Base, Linking
  <2>2. Closes(Ring, next') /\ next' \in [Node -> Node]
    BY <1>u DEF IInv, RingClosed, TypeOK
  <2> QED BY <2>1, <2>2, RingStays
<1>2. \A k : Entry(k)' = Entry(k)
  BY <1>1, <1>u DEF Entry
<1>3. Undisturbed'
  BY <1>p, <1>u DEF IInv, Undisturbed, Sealed
<1>4. OwnPid'
  BY <1>p, <1>u, <1>r DEF IInv, OwnPid, Pid
<1>5. NodesUsed'
  <2>1. Building' = Building /\ p \notin Building
    BY <1>p DEF Building
  <2> QED BY <2>1, <1>1, <1>u DEF IInv, NodesUsed, Building
<1>6. EntriesTaken'
  BY <1>1, <1>2, <1>u DEF IInv, EntriesTaken
<1>7. ChildReady'
  <2> SUFFICES ASSUME NEW q \in Pid, HasChild(q)', local'[q].newPCB \in PCB
               PROVE  LET child == local'[q].newPCB IN
                      /\ child \in occupied' /\ stack'[child] = pid'[child]
                            /\ pc'[pid'[child]] = "user"
                      /\ \A k \in 1..Len(Ring') : Entry(k)' # child
    BY DEF ChildReady
  <2>1. q # p /\ HasChild(q) /\ local'[q] = local[q] /\ local[q].newPCB \in PCB
    BY <1>p DEF HasChild
  <2>2. /\ local[q].newPCB \in occupied /\ stack[local[q].newPCB] = pid[local[q].newPCB]
        /\ pc[pid[local[q].newPCB]] = "user"
        /\ \A k \in 1..Len(Ring) : Entry(k) # local[q].newPCB
    BY <2>1 DEF IInv, ChildReady
  <2>3. pid[local[q].newPCB] # p
    BY <1>r, <2>1
  <2>4. pc'[pid[local[q].newPCB]] = pc[pid[local[q].newPCB]]
    BY <2>3 DEF IInv, TypeOK
  <2> QED BY <2>1, <2>2, <2>4, <1>1, <1>2, <1>u
<1>8. NoChildYet'
  BY <1>p DEF IInv, NoChildYet
<1>9. WalkInside'
  BY <1>p, <1>s DEF IInv, WalkInside
<1>10. NodeFilled'
  <2> SUFFICES ASSUME NEW q \in Pid, pc'[q] \in {"link2", "link3", "link4"} PROVE FALSE
    BY DEF NodeFilled
  <2> QED BY <1>p DEF IInv, Undisturbed, Sealed
<1>11. ExitAtHead'
  BY <1>p, <1>u DEF IInv, ExitAtHead
<1>12. HeadRuns'
  BY <1>1, <1>2, <1>u DEF IInv, HeadRuns
<1>13. ExitedFinished'
  BY <1>1, <1>2, <1>u, <1>p DEF IInv, ExitedFinished
<1>14. KernelLeft'
  BY <1>1, <1>u DEF IInv, KernelLeft
<1> QED BY <1>1, <1>3, <1>4, <1>5, <1>6, <1>7, <1>8, <1>9, <1>10, <1>11, <1>12, <1>13, <1>14
           DEF IInv

(* Moving on inside createProcess, or elsewhere, leaves its holder alone.  *)
LEMMA AloneStep ==
  ASSUME IInv, NEW p \in Pid, cpu = p, NEW to \in Point, pc' = [pc EXCEPT ![p] = to],
         pc[p] \in Inside \/ to \notin Inside,
         createProcessMutex' = createProcessMutex
  PROVE  Alone'
BY DEF IInv, Alone, TypeOK

(* How a step of one process changes the number of those about to take a   *)
(* pid.                                                                    *)
LEMMA CreatorsKept ==
  ASSUME IInv, NEW p \in Pid, NEW to \in Point, pc' = [pc EXCEPT ![p] = to]
  PROVE  /\ pc[p] \in {"lock", "getFreeNode", "createProcess"} =>
              /\ to \in {"lock", "getFreeNode", "createProcess"}
                    => Cardinality(Creators') = Cardinality(Creators)
              /\ to \notin {"lock", "getFreeNode", "createProcess"}
                    => Cardinality(Creators') = Cardinality(Creators) - 1
         /\ pc[p] \notin {"lock", "getFreeNode", "createProcess"} =>
              /\ to \notin {"lock", "getFreeNode", "createProcess"}
                    => Cardinality(Creators') = Cardinality(Creators)
              /\ to \in {"lock", "getFreeNode", "createProcess"}
                    => Cardinality(Creators') = Cardinality(Creators) + 1
         /\ Cardinality(Creators) \in Nat
<1>1. \A q \in Pid : pc'[q] = IF q = p THEN to ELSE pc[q]
  BY DEF IInv, TypeOK
<1>2. \A q : q \in Creators <=> q \in Pid /\ pc[q] \in {"lock", "getFreeNode", "createProcess"}
  BY DEF Creators
<1>3. \A q : q \in Creators' <=> q \in Pid /\ pc'[q] \in {"lock", "getFreeNode", "createProcess"}
  BY DEF Creators
<1>4. CASE pc[p] \in {"lock", "getFreeNode", "createProcess"}
              /\ to \in {"lock", "getFreeNode", "createProcess"}
  <2>1. Creators' = Creators
    BY <1>1, <1>2, <1>3, <1>4
  <2> QED BY <1>4, <2>1, CreatorsAre
<1>5. CASE pc[p] \in {"lock", "getFreeNode", "createProcess"}
              /\ to \notin {"lock", "getFreeNode", "createProcess"}
  <2>1. Creators' = Creators \ {p} /\ p \in Creators
    BY <1>1, <1>2, <1>3, <1>5
  <2> QED BY <1>5, <2>1, CreatorsAre
<1>6. CASE pc[p] \notin {"lock", "getFreeNode", "createProcess"}
              /\ to \notin {"lock", "getFreeNode", "createProcess"}
  <2>1. Creators' = Creators
    BY <1>1, <1>2, <1>3, <1>6
  <2> QED BY <1>6, <2>1, CreatorsAre
<1>7. CASE pc[p] \notin {"lock", "getFreeNode", "createProcess"}
              /\ to \in {"lock", "getFreeNode", "createProcess"}
  <2>1. Creators' = Creators \cup {p} /\ p \in Pid \ Creators
    BY <1>1, <1>2, <1>3, <1>7
  <2> QED BY <1>7, <2>1, CreatorsAre
<1> QED BY <1>4, <1>5, <1>6, <1>7

(* A step that does not call createProcess leaves pids for those who have. *)
LEMMA PidsLastStep ==
  ASSUME IInv, NEW p \in Pid, NEW to \in Point, pc' = [pc EXCEPT ![p] = to],
         \/ nextPid' = nextPid /\ to \notin {"lock", "getFreeNode", "createProcess"}
         \/ nextPid' = nextPid /\ pc[p] \in {"lock", "getFreeNode", "createProcess"}
         \/ nextPid' = nextPid + 1 /\ pc[p] = "createProcess" /\ to = "fill"
  PROVE  PidsLast'
<1>1. nextPid \in Int /\ nextPid' \in Int /\ nextPid + Cardinality(Creators) <= MaxPid + 1
         /\ MaxPid \in Nat
  BY MaxPidAssumption DEF IInv, TypeOK, PidsLast
<1>2. Cardinality(Creators) \in Nat
  BY CreatorsAre
<1>3. \/ nextPid' = nextPid /\ Cardinality(Creators') = Cardinality(Creators)
      \/ nextPid' = nextPid /\ Cardinality(Creators') = Cardinality(Creators) - 1
      \/ nextPid' = nextPid + 1 /\ Cardinality(Creators') = Cardinality(Creators) - 1
  BY CreatorsKept
<1>4. nextPid' + Cardinality(Creators') <= MaxPid + 1
  BY <1>1, <1>2, <1>3
<1> QED BY <1>4 DEF PidsLast

(* The steps of the system calls that only read the scheduler's statics.   *)
LEMMA LocalSteps ==
  ASSUME IInv, TypeOK', NEW p \in Pid,
         \/ CallCreate(p) \/ CallExit(p) \/ \E target \in Waited : CallWait(p, target)
         \/ Lock(p) \/ (getFreeNode(p) /\ usedNodes = Node) \/ GetPID(p) \/ Unlock(p)
         \/ Wait2(p) \/ Walk1(p) \/ Walk2(p) \/ Walk3(p) \/ WaitReturn(p)
  PROVE  IInv' /\ Ring' = Ring
<1>t. pc \in [Pid -> Point] /\ local \in [Pid -> Locals] /\ TypeOK
  BY TypeParts DEF ThreadsOK, IInv
<1>n. NoLocals.newPCB = BadPCB
         /\ DOMAIN NoLocals = {"newNode", "newPCB", "aux", "current", "pointer", "target",
               "result", "wasAlive", "astray"}
  BY DEF NoLocals
<1>h. cpu = p /\ pc[p] \notin {"link3", "link4"} => last \in Node /\ next[last] \in Node
  <2> SUFFICES ASSUME cpu = p, pc[p] \notin {"link3", "link4"}
               PROVE last \in Node /\ next[last] \in Node
    OBVIOUS
  <2>1. cpu # Kernel
    BY RunnerIs
  <2> QED BY <2>1, <1>t, HeadIs DEF IInv
<1>e. \A q \in Pid : DOMAIN local[q] = DOMAIN NoLocals
  BY <1>t, <1>n DEF Locals
<1>1. CASE CallCreate(p)
  <2>1. Alone'
    BY <1>1, AloneStep DEF CallCreate, Goto, At, Inside, CreatePoints, Unmoved, Point
  <2>2. PidsLast'
    <3>1. nextPid + Cardinality(Creators) + 1 <= MaxPid + 1 /\ nextPid \in Int
      BY <1>1, <1>t, CreatorsAre, MaxPidAssumption DEF CallCreate, TypeOK, Creators
    <3>2. Cardinality(Creators') = Cardinality(Creators) + 1
             /\ Cardinality(Creators) \in Nat /\ nextPid' = nextPid
      BY <1>1, CreatorsKept DEF CallCreate, Goto, At, Unmoved, pcbs, Point, CreatePoints
    <3> QED BY <3>1, <3>2 DEF PidsLast
  <2>3. local'[p].newPCB = BadPCB
    BY <1>1 DEF CallCreate, At, IInv, NoChildYet
  <2> QED BY <1>1, <2>1, <2>2, <2>3, LocalStep
             DEF CallCreate, At, Goto, Unmoved, Point, CreatePoints
<1>2. CASE CallExit(p)
  <2>1. Alone' /\ PidsLast'
    BY <1>2, AloneStep, PidsLastStep
       DEF CallExit, Goto, At, Inside, CreatePoints, Unmoved, Point, ExitPoints, pcbs
  <2>3. local'[p].newPCB = BadPCB /\ local'[p].aux = last /\ \A q \in Pid : q # p
           => local'[q] = local[q]
    BY <1>2, <1>t, <1>e, <1>n DEF CallExit, At, IInv, NoChildYet
  <2> QED BY <1>2, <2>1, <2>3, LocalStep DEF CallExit, At, Goto, Unmoved, Point, ExitPoints
<1>3. CASE \E target \in Waited : CallWait(p, target)
  <2>0. PICK target \in Waited : CallWait(p, target)
    BY <1>3
  <2>1. Alone' /\ PidsLast'
    BY <2>0, AloneStep, PidsLastStep
       DEF CallWait, Goto, At, Inside, CreatePoints, Unmoved, Point, WaitPoints, pcbs
  <2>3. local'[p].newPCB = BadPCB /\ \A q \in Pid : q # p => local'[q] = local[q]
    BY <2>0, <1>t, <1>n DEF CallWait
  <2> QED BY <2>0, <2>1, <2>3, LocalStep DEF CallWait, At, Goto, Unmoved, Point, WaitPoints
<1>4. CASE Lock(p)
  <2>1. Alone'
    <3>1. \A q \in Pid : pc[q] \notin Inside
      BY <1>4 DEF Lock, IInv, Alone
    <3>2. \A q \in Pid : pc'[q] \in Inside => q = p
      BY <1>4, <1>t, <3>1 DEF Lock, Goto
    <3> QED BY <1>4, <3>2 DEF Lock, Alone
  <2>2. PidsLast'
    BY <1>4, PidsLastStep DEF Lock, Goto, At, pcbs, Point, CreatePoints
  <2>3. local'[p].newPCB = BadPCB
    BY <1>4 DEF Lock, At, IInv, NoChildYet
  <2> QED BY <1>4, <2>1, <2>2, <2>3, LocalStep DEF Lock, At, Goto, Point, CreatePoints
<1>5. CASE getFreeNode(p) /\ usedNodes = Node
  <2>0. UNCHANGED <<nodes, pcbs, createProcessMutex, cpu>>
           /\ pc' = [pc EXCEPT ![p] = "unlock"] /\ At(p, "getFreeNode")
        /\ local' = [local EXCEPT ![p].result = -1]
    BY <1>5 DEF getFreeNode, Goto, nodes
  <2>1. Alone' /\ PidsLast'
    BY <2>0, AloneStep, PidsLastStep DEF At, Inside, CreatePoints, pcbs, Point
  <2> QED BY <2>0, <2>1, <1>t, LocalStep DEF At, Point, CreatePoints
<1>6. CASE GetPID(p)
  <2>1. Alone' /\ PidsLast'
    BY <1>6, AloneStep, PidsLastStep
       DEF GetPID, Goto, At, Inside, CreatePoints, Unmoved, pcbs, Point
  <2> QED BY <1>6, <2>1, <1>t, LocalStep DEF GetPID, At, Goto, Unmoved, Point, CreatePoints
<1>7. CASE Unlock(p)
  <2>0. UNCHANGED <<nodes, pcbs, cpu>> /\ pc' = [pc EXCEPT ![p] = "user"] /\ At(p, "unlock")
           /\ local' = [local EXCEPT ![p] = NoLocals]
    BY <1>7 DEF Unlock, Return, Goto
  <2>1. PidsLast'
    BY <2>0, PidsLastStep DEF At, pcbs, Point
  <2>2. Alone'
    <3>1. \A q \in Pid : pc[q] \in Inside => q = p
      BY <2>0 DEF At, Inside, CreatePoints, IInv, Alone
    <3>2. \A q \in Pid : pc'[q] \notin Inside
      BY <2>0, <1>t, <3>1 DEF Inside, CreatePoints
    <3> QED BY <3>2 DEF Alone
  <2> QED BY <2>0, <2>1, <2>2, <1>t, <1>n, LocalStep DEF At, Point
<1>8. CASE Wait2(p) /\ pc' = [pc EXCEPT ![p] = "walk1"]
  <2>0. UNCHANGED <<nodes, pcbs, createProcessMutex, cpu>> /\ At(p, "wait2") /\ UNCHANGED local
    <3>1. pc'[p] = "walk1"
      BY <1>8, <1>t
    <3>2. ~Return(p)
      BY <3>1, <1>t DEF Return, Goto
    <3> QED BY <1>8, <3>2 DEF Wait2, Unmoved
  <2>1. Alone' /\ PidsLast'
    BY <1>8, <2>0, AloneStep, PidsLastStep DEF At, Inside, CreatePoints, pcbs, Point, WaitPoints
  <2>3. local'[p].newPCB = BadPCB
    BY <2>0 DEF At, IInv, NoChildYet
  <2> QED BY <1>8, <2>0, <2>1, <2>3, LocalStep DEF At, Point, WaitPoints
<1>9. CASE (Wait2(p) /\ Return(p)) \/ WaitReturn(p)
  <2>0. /\ UNCHANGED <<nodes, pcbs, createProcessMutex, cpu>> /\ pc' = [pc EXCEPT ![p] = "user"]
        /\ (At(p, "wait2") \/ At(p, "walk3")) /\ local' = [local EXCEPT ![p] = NoLocals]
    BY <1>9 DEF Wait2, WaitReturn, Return, Goto, Unmoved
  <2>1. Alone' /\ PidsLast'
    BY <2>0, AloneStep, PidsLastStep DEF At, Inside, CreatePoints, pcbs, Point
  <2> QED BY <2>0, <2>1, <1>t, <1>n, LocalStep DEF At, Point
<1>10. CASE Walk1(p)
  <2>1. Alone' /\ PidsLast'
    BY <1>10, AloneStep, PidsLastStep
       DEF Walk1, Goto, At, Inside, CreatePoints, Unmoved, Point, WaitPoints, pcbs
  <2>3. local'[p].newPCB = BadPCB /\ local'[p].aux = last /\ \A q \in Pid : q # p
           => local'[q] = local[q]
    BY <1>10, <1>t, <1>e, <1>n DEF Walk1, At, IInv, NoChildYet
  <2> QED BY <1>10, <2>1, <2>3, LocalStep DEF Walk1, At, Goto, Unmoved, Point, WaitPoints
<1>11. CASE Walk2(p)
  <2>1. Alone' /\ PidsLast'
    BY <1>11, AloneStep, PidsLastStep
       DEF Walk2, Goto, At, Inside, CreatePoints, Unmoved, Point, WaitPoints, pcbs
  <2>2. next[local[p].aux] \in Node
    BY <1>11, <1>t DEF Walk2, At, IInv, WalkInside, TypeOK
  <2>3. local'[p].newPCB = BadPCB /\ local'[p].pointer \in Node /\ \A q \in Pid : q # p
           => local'[q] = local[q]
    BY <1>11, <1>t, <1>e, <1>n, <2>2 DEF Walk2, At, IInv, NoChildYet
  <2> QED BY <1>11, <2>1, <2>3, LocalStep DEF Walk2, At, Goto, Unmoved, Point, WaitPoints
<1>12. CASE Walk3(p)
  <2>0. UNCHANGED <<nodes, pcbs, createProcessMutex, cpu>> /\ At(p, "walk3")
           /\ pc' = [pc EXCEPT ![p] = "walk3"]
    BY <1>12, <1>t DEF Walk3, At, Unmoved
  <2>1. Alone' /\ PidsLast'
    BY <2>0, AloneStep, PidsLastStep DEF At, Inside, CreatePoints, pcbs, Point, WaitPoints
  <2>2. next[local[p].pointer] \in Node
    BY <2>0, <1>t DEF At, IInv, WalkInside, TypeOK
  <2>3. local'[p].newPCB = BadPCB /\ local'[p].pointer \in Node /\ \A q \in Pid : q # p
           => local'[q] = local[q]
    BY <1>12, <2>0, <1>t, <1>e, <1>n, <2>2 DEF Walk3, At, IInv, NoChildYet
  <2> QED BY <2>0, <2>1, <2>3, LocalStep DEF At, Point, WaitPoints
<1> QED BY <1>1, <1>2, <1>3, <1>4, <1>5, <1>6, <1>7, <1>8, <1>9, <1>10, <1>11, <1>12 DEF Wait2, Goto

(* What a switch may change of the processes: at most the program point of *)
(* the one that leaves the CPU; and of the nodes, only the first may       *)
(* become FINISHED.                                                        *)
ThreadsSwitch ==
    \A q \in Pid : /\ cpu = q => pc[q] \notin {"link2", "link3", "link4"}
                   /\ pc'[q] = "exit2" => cpu # q
                   /\ \/ pc'[q] = pc[q] /\ local'[q] = local[q]
                      \/ /\ cpu = q /\ pc[q] \in {"exit2", "walk3"}
                               /\ pc'[q] \in {"exited", "walk1"}
                         /\ local'[q].newPCB = BadPCB
                   /\ pc'[q] = "exited"
                         => pc[q] = "exited" \/ (cpu = q /\ state'[next[last]] = "FINISHED")
StatesSwitch ==
    \A n \in Node : /\ n # next[last] => state'[n] = state[n]
                    /\ state[n] = "FINISHED" => state'[n] = "FINISHED"

(* nextProcess, whoever calls it, turns the ring and keeps the invariant:  *)
(* the stack it saves is that of the process at the head, in that          *)
(* process's entry.                                                        *)
LEMMA SwitchStep ==
  ASSUME IInv, TypeOK', NEW rsp, SwitchFrom(rsp),
         (rsp \in Pid /\ cpu = rsp) \/ (cpu = Kernel /\ firstIteration),
         ThreadsSwitch, StatesSwitch
  PROVE  IInv' /\ Ring' = Turned(Ring)
<1>q. \A q \in Pid : /\ cpu = q => pc[q] \notin {"link2", "link3", "link4"}
                     /\ pc'[q] = "exit2" => cpu # q
                     /\ \/ pc'[q] = pc[q] /\ local'[q] = local[q]
                        \/ /\ cpu = q /\ pc[q] \in {"exit2", "walk3"}
                                 /\ pc'[q] \in {"exited", "walk1"}
                           /\ local'[q].newPCB = BadPCB
                     /\ pc'[q] = "exited"
                           => pc[q] = "exited" \/ (cpu = q /\ state'[next[last]] = "FINISHED")
  BY DEF ThreadsSwitch
<1>n. \A n \in Node : /\ n # next[last] => state'[n] = state[n]
                      /\ state[n] = "FINISHED" => state'[n] = "FINISHED"
  BY DEF StatesSwitch
<1>u. /\ firstIteration' = FALSE /\ last' = next[last] /\ cpu' = ISR
      /\ UNCHANGED <<usedNodes, PCBIndex, next, occupied, pid, nextPid, createProcessMutex>>
  BY DEF SwitchFrom
<1>c. ISR \notin Pid /\ Kernel \notin Pid /\ ISR # Kernel
  BY MaxPidAssumption DEF Pid, ISR, Kernel
<1>h. /\ Base = last
      /\ Ring \in Seq(Node) /\ Len(Ring) \in Nat \ {0} /\ Ring # <<>>
      /\ last \in Node /\ last = Ring[Len(Ring)]
      /\ next[last] = Ring[1] /\ Ring[1] \in Node
  <2>1. cpu # Kernel \/ firstIteration
    BY <1>c
  <2> QED BY <2>1, <1>q, HeadIs DEF IInv
<1>s. \A q \in Pid : pc'[q] \notin Sealed
  BY <1>c, <1>q DEF IInv, Undisturbed, Sealed
<1>t. /\ \A k \in 1..Len(Ring) : Turned(Ring)[k] = IF k = Len(Ring) THEN Ring[1] ELSE Ring[k + 1]
      /\ Len(Turned(Ring)) = Len(Ring) /\ Turned(Ring) # <<>>
  BY <1>h, Turns
<1>1. Ring' = Turned(Ring) /\ RingClosed'
  <2>1. Base' = last'
    BY <1>s DEF Base, Linking, Sealed
  <2>2. Base' = Turned(Ring)[Len(Turned(Ring))]
    BY <2>1, <1>u, <1>h, <1>t
  <2>3. Closes(Turned(Ring), next')
    BY <1>u, <1>h, TurnedCloses DEF IInv, RingClosed
  <2>4. next' \in [Node -> Node]
    BY DEF TypeOK
  <2> QED BY <2>2, <2>3, <2>4, <1>t, RingIs
<1>2. /\ Len(Ring') = Len(Ring)
      /\ \A k \in 1..Len(Ring) : Entry(k)' = Entry(IF k = Len(Ring) THEN 1 ELSE k + 1)
      /\ \A k \in 1..Len(Ring) : Ring'[k] = Ring[IF k = Len(Ring) THEN 1 ELSE k + 1]
      /\ \A k \in 1..Len(Ring) : (IF k = Len(Ring) THEN 1 ELSE k + 1) \in 1..Len(Ring)
  BY <1>1, <1>t, <1>u, <1>h DEF Entry
<1>3. Alone' /\ Undisturbed' /\ NodeFilled' /\ ExitAtHead'
  <2>1. Undisturbed' /\ NodeFilled' /\ ExitAtHead'
    BY <1>s DEF Undisturbed, NodeFilled, ExitAtHead, Sealed
  <2>2. \A q \in Pid : pc'[q] \in Inside => pc[q] \in Inside
    BY <1>q DEF Inside, CreatePoints
  <2> QED BY <2>1, <2>2, <1>u DEF IInv, Alone
<1>4. OwnPid'
  <2>1. \A q \in Pid : pc[q] = "user" => pc'[q] = "user"
    BY <1>q
  <2> QED BY <2>1, <1>u DEF IInv, OwnPid
<1>5. PidsLast'
  <2>1. Creators' = Creators
    BY <1>q DEF Creators
  <2> QED BY <2>1, <1>u DEF IInv, PidsLast
<1>6. NodesUsed'
  <2>1. Building' = Building /\ \A q \in Building : q \in Pid /\ local'[q] = local[q]
    BY <1>q DEF Building
  <2>2. \A n \in Node : (\E k \in 1..Len(Ring') : Ring'[k] = n)
           <=> (\E k \in 1..Len(Ring) : Ring[k] = n)
    <3> SUFFICES ASSUME NEW n \in Node
                 PROVE (\E k \in 1..Len(Ring') : Ring'[k] = n)
                          <=> (\E k \in 1..Len(Ring) : Ring[k] = n)
      OBVIOUS
    <3>1. ASSUME NEW k \in 1..Len(Ring), Ring[k] = n PROVE \E j \in 1..Len(Ring') : Ring'[j] = n
      <4>1. CASE k = 1
        <5>1. Len(Ring) \in 1..Len(Ring')
          BY <1>2, <1>h
        <5>2. Ring'[Len(Ring)] = Ring[1]
          BY <1>2, <1>h
        <5>3. Ring'[Len(Ring)] = n
          BY <3>1, <4>1, <5>2
        <5> QED BY <5>1, <5>3
      <4>2. CASE k # 1
        <5>1. k - 1 \in 1..Len(Ring) /\ k - 1 # Len(Ring) /\ (k - 1) + 1 = k
          BY <4>2, <1>h
        <5> QED BY <3>1, <5>1, <1>2
      <4> QED BY <4>1, <4>2
    <3> QED BY <3>1, <1>2
  <2> QED BY <2>1, <2>2, <1>u DEF IInv, NodesUsed
<1>7. EntriesTaken'
  BY <1>2, <1>u, <1>h DEF IInv, EntriesTaken
<1>8. ASSUME NEW k \in 1..Len(Ring), Entry(k) \in PCB PROVE stack'[Entry(k)] = pid[Entry(k)]
  <2>0. 1 \in 1..Len(Ring) /\ Entry(1) = PCBIndex[next[last]]
           /\ stack \in [PCB -> Pid \cup {NoStack}]
    BY <1>h DEF Entry, IInv, TypeOK
  <2>1. CASE cpu = Kernel /\ firstIteration
    <3>1. stack' = stack
      BY <2>1 DEF SwitchFrom
    <3> QED BY <3>1, <2>1, <1>c, <1>8 DEF IInv, HeadRuns
  <2>2. CASE rsp \in Pid /\ cpu = rsp
    <3>1. Entry(1) \in PCB /\ rsp = pid[Entry(1)] /\ ~firstIteration
      BY <2>2, RunnerIs
    <3>2. stack' = [stack EXCEPT ![Entry(1)] = rsp]
      BY <2>0, <3>1 DEF SwitchFrom
    <3>3. CASE k = 1
      BY <3>1, <3>2, <3>3, <2>0
    <3>4. CASE k # 1
      <4>1. Entry(k) # Entry(1)
        BY <1>8, <3>4, <2>0 DEF IInv, EntriesTaken
      <4>2. stack[Entry(k)] = pid[Entry(k)]
        BY <1>8, <3>4 DEF IInv, HeadRuns
      <4> QED BY <3>2, <4>1, <4>2, <2>0, <1>8
    <3> QED BY <3>3, <3>4
  <2> QED BY <2>1, <2>2
<1>9. ChildReady'
  <2> SUFFICES ASSUME NEW q \in Pid, HasChild(q)', local'[q].newPCB \in PCB
               PROVE  LET child == local'[q].newPCB IN
                      /\ child \in occupied' /\ stack'[child] = pid'[child]
                            /\ pc'[pid'[child]] = "user"
                      /\ \A k \in 1..Len(Ring') : Entry(k)' # child
    BY DEF ChildReady
  <2>1. HasChild(q) /\ local'[q] = local[q] /\ local[q].newPCB \in PCB
    BY <1>q DEF HasChild
  <2> DEFINE child == local[q].newPCB
  <2>2. /\ child \in occupied /\ stack[child] = pid[child] /\ pc[pid[child]] = "user"
        /\ \A k \in 1..Len(Ring) : Entry(k) # child
    BY <2>1 DEF IInv, ChildReady
  <2>3. \A k \in 1..Len(Ring') : Entry(k)' # child
    BY <2>2, <1>2
  <2>4. stack'[child] = stack[child]
    <3>1. child # PCBIndex[next[last]]
      BY <2>2, <1>h DEF Entry
    <3> QED BY <3>1 DEF SwitchFrom, IInv, TypeOK
  <2>5. pc'[pid[child]] = "user"
    <3>1. pid[child] \in Pid
      BY <2>2, MaxPidAssumption DEF IInv, OwnPid, TypeOK, Pid
    <3> QED BY <3>1, <2>2, <1>q
  <2> QED BY <2>1, <2>2, <2>3, <2>4, <2>5, <1>u
<1>10. NoChildYet' /\ WalkInside'
  <2>1. NoChildYet'
    BY <1>q DEF IInv, NoChildYet
  <2>2. WalkInside'
    BY <1>q DEF IInv, WalkInside
  <2> QED BY <2>1, <2>2
<1>11. HeadRuns'
  <2>1. \A k \in 1..Len(Ring') : Entry(k)' \in PCB => stack'[Entry(k)'] = pid'[Entry(k)']
    BY <1>2, <1>8, <1>u
  <2> QED BY <2>1, <1>u, <1>c DEF HeadRuns
<1>12. ExitedFinished'
  <2> SUFFICES ASSUME NEW q \in Pid, pc'[q] = "exited", NEW k \in 1..Len(Ring'),
                  Entry(k)' \in PCB, pid'[Entry(k)'] = q
               PROVE  state'[Ring'[k]] = "FINISHED"
    BY <1>u, <1>c DEF ExitedFinished
  <2> DEFINE j == IF k = Len(Ring) THEN 1 ELSE k + 1
  <2>1. j \in 1..Len(Ring) /\ Entry(j) \in PCB /\ pid[Entry(j)] = q /\ Ring'[k] = Ring[j]
           /\ Ring[j] \in Node
    BY <1>2, <1>u, <1>h
  <2> HIDE DEF j
  <2>2. CASE pc[q] = "exited"
    <3>1. state[Ring[j]] = "FINISHED"
      BY <2>1, <2>2 DEF IInv, ExitedFinished
    <3>2. state'[Ring[j]] = "FINISHED"
      BY <3>1, <2>1, <1>n
    <3> QED BY <3>2, <2>1
  <2>3. CASE cpu = q /\ state'[next[last]] = "FINISHED"
    <3>1. j = 1
      BY <2>1, <2>3, RunnerIs
    <3> QED BY <3>1, <2>1, <2>3, <1>h
  <2> QED BY <2>2, <2>3, <1>q
<1>13. KernelLeft'
  BY <1>1, <1>t, <1>u, <1>c DEF KernelLeft
<1> QED BY <1>1, <1>3, <1>4, <1>5, <1>6, <1>7, <1>9, <1>10, <1>11, <1>12, <1>13 DEF IInv

(* The six ways to a switch: the first tick, the others, int81, the busy-  *)
(* wait for the mutex, EXIT, and the wait in waitpid.                      *)
LEMMA SwitchSteps ==
  ASSUME IInv, TypeOK', TicksSpareLists,
         \/ FirstTick \/ \E p \in Pid : Tick(p) \/ Yield(p) \/ LockBusy(p) \/ Exit2(p) \/ WalkFound(p)
  PROVE  IInv' /\ Ring' = Turned(Ring)
<1>t. pc \in [Pid -> Point] /\ local \in [Pid -> Locals] /\ TypeOK
         /\ state \in [Node -> {"RUNNING", "FINISHED"}]
  BY TypeParts DEF ThreadsOK, StateOK, IInv
<1>c. Kernel \notin Pid
  BY MaxPidAssumption DEF Pid, Kernel
<1>1. CASE FirstTick
  <2>1. cpu = Kernel /\ firstIteration /\ SwitchFrom(Kernel) /\ UNCHANGED <<state, pc, local>>
    BY <1>1 DEF FirstTick, threads
  <2>2. ThreadsSwitch /\ StatesSwitch
    BY <2>1, <1>c DEF ThreadsSwitch, StatesSwitch
  <2> QED BY <2>1, <2>2, SwitchStep
<1>2. ASSUME NEW p \in Pid, Tick(p) \/ Yield(p) \/ LockBusy(p) PROVE IInv' /\ Ring' = Turned(Ring)
  <2>1. cpu = p /\ pc[p] \notin Sealed /\ SwitchFrom(p) /\ UNCHANGED <<state, pc, local>>
    BY <1>2 DEF Tick, Yield, LockBusy, At, threads, TicksSpareLists, Sealed
  <2>2. ThreadsSwitch /\ StatesSwitch
    BY <2>1 DEF Sealed, ThreadsSwitch, StatesSwitch
  <2> QED BY <2>1, <2>2, SwitchStep
<1>3. ASSUME NEW p \in Pid, Exit2(p) PROVE IInv' /\ Ring' = Turned(Ring)
  <2>1. /\ cpu = p /\ pc[p] = "exit2" /\ SwitchFrom(p) /\ pc' = [pc EXCEPT ![p] = "exited"]
        /\ state' = [state EXCEPT ![next[last]] = "FINISHED"]
              /\ local' = [local EXCEPT ![p] = NoLocals]
    BY <1>3 DEF Exit2, At, Goto, IInv, ExitAtHead
  <2>2. last \in Node /\ next[last] \in Node
    BY <2>1, <1>t, RunnerIs, HeadIs DEF IInv
  <2>3. NoLocals.newPCB = BadPCB
    BY DEF NoLocals
  <2>4. StatesSwitch
    BY <2>1, <1>t DEF StatesSwitch
  <2>5. state'[next[last]] = "FINISHED" /\ pc'[p] = "exited" /\ local'[p].newPCB = BadPCB
    BY <2>1, <2>2, <2>3, <1>t
  <2>6. \A q \in Pid : q # p => pc'[q] = pc[q] /\ local'[q] = local[q]
    BY <2>1, <1>t
  <2>7. ThreadsSwitch
    BY <2>1, <2>5, <2>6 DEF ThreadsSwitch
  <2> QED BY <2>1, <2>4, <2>7, SwitchStep
<1>4. ASSUME NEW p \in Pid, WalkFound(p) PROVE IInv' /\ Ring' = Turned(Ring)
  <2>1. /\ cpu = p /\ pc[p] = "walk3" /\ SwitchFrom(p) /\ pc' = [pc EXCEPT ![p] = "walk1"]
              /\ state' = state
        /\ local' = [local EXCEPT ![p].pointer = NULL, ![p].current = NULL, ![p].aux = NULL,
                                  ![p].astray = FALSE]
    BY <1>4 DEF WalkFound, At, Goto
  <2>2. local[p].newPCB = BadPCB
    BY <2>1 DEF IInv, NoChildYet
  <2>3. local'[p].newPCB = BadPCB /\ \A q \in Pid : q # p => local'[q] = local[q]
    BY <2>1, <2>2, <1>t DEF Locals
  <2>4. pc'[p] = "walk1" /\ \A q \in Pid : q # p => pc'[q] = pc[q] /\ local'[q] = local[q]
    BY <2>1, <2>3, <1>t
  <2>5. ThreadsSwitch /\ StatesSwitch
    BY <2>1, <2>3, <2>4 DEF ThreadsSwitch, StatesSwitch
  <2> QED BY <2>1, <2>5, SwitchStep
<1> QED BY <1>1, <1>2, <1>3, <1>4

(* Loading the stack of the process at the head: its own, as the invariant *)
(* says.                                                                   *)
LEMMA DispatchStep ==
  ASSUME IInv, TypeOK', Dispatch
  PROVE  IInv' /\ Ring' = Ring
<1>c. ISR \notin Pid /\ Kernel \notin Pid /\ ISR # Kernel /\ NoStack # Kernel /\ NoStack \notin Pid
  BY MaxPidAssumption DEF Pid, ISR, Kernel, NoStack
<1>u. /\ UNCHANGED <<usedNodes, last, firstIteration, PCBIndex, state, next, occupied, pid,
            stack, nextPid, createProcessMutex, pc, local>>
      /\ cpu = ISR
  BY DEF Dispatch, nodes, pcbs, threads
<1>s. \A q \in Pid : pc[q] \notin Sealed
  BY <1>c, <1>u DEF IInv, Undisturbed
<1>h. /\ Base = last
      /\ Ring \in Seq(Node) /\ Len(Ring) \in Nat \ {0} /\ Ring # <<>>
      /\ last \in Node /\ last = Ring[Len(Ring)]
      /\ next[last] = Ring[1] /\ Ring[1] \in Node
  BY <1>u, <1>c, HeadIs DEF IInv
<1>1. Ring' = Ring /\ RingClosed'
  <2>1. Base' = Base
    BY <1>u DEF Base, Linking
  <2>2. Closes(Ring, next') /\ next' \in [Node -> Node]
    BY <1>u DEF IInv, RingClosed, TypeOK
  <2> QED BY <2>1, <2>2, RingStays
<1>2. \A k : Entry(k)' = Entry(k)
  BY <1>1, <1>u DEF Entry
<1>3. cpu' = IF Entry(1) \in PCB THEN pid[Entry(1)] ELSE NoStack
  <2>1. Entry(1) = PCBIndex[next[last]] /\ 1 \in 1..Len(Ring)
    BY <1>h DEF Entry
  <2>2. Entry(1) \in PCB => stack[Entry(1)] = pid[Entry(1)]
    BY <2>1, <1>u, <1>c DEF IInv, HeadRuns
  <2> QED BY <2>1, <2>2 DEF Dispatch, getProcessStack
<1>4. cpu' # Kernel
  BY <1>3, <1>c DEF TypeOK, Dispatch, IInv, getProcessStack
<1>5. Undisturbed' /\ NodeFilled' /\ ExitAtHead'
  BY <1>s, <1>u DEF Undisturbed, NodeFilled, ExitAtHead, Sealed
<1>6. Alone' /\ OwnPid' /\ PidsLast' /\ NodesUsed' /\ EntriesTaken' /\ ChildReady'
         /\ NoChildYet' /\ WalkInside'
  <2>1. Alone' /\ OwnPid' /\ NoChildYet' /\ WalkInside'
    BY <1>u DEF IInv, Alone, OwnPid, NoChildYet, WalkInside
  <2>2. PidsLast'
    BY <1>u DEF IInv, PidsLast, Creators
  <2>3. NodesUsed' /\ EntriesTaken' /\ ChildReady'
    BY <1>u, <1>1, <1>2 DEF IInv, NodesUsed, EntriesTaken, ChildReady, Building, HasChild
  <2> QED BY <2>1, <2>2, <2>3
<1>7. HeadRuns'
  <2>1. \A k \in 1..Len(Ring) : Entry(k) \in PCB => stack[Entry(k)] = pid[Entry(k)]
    BY <1>u, <1>c DEF IInv, HeadRuns
  <2> QED BY <2>1, <1>u, <1>1, <1>2, <1>3, <1>c, <1>h DEF HeadRuns
<1>8. ExitedFinished'
  <2>1. ASSUME NEW q \in Pid, pc[q] = "exited" PROVE cpu' # q
    <3>1. \A k \in 1..Len(Ring) : Entry(k) \in PCB /\ pid[Entry(k)] = q
             => state[Ring[k]] = "FINISHED"
      BY <2>1 DEF IInv, ExitedFinished
    <3>2. state[Ring[1]] # "FINISHED" /\ 1 \in 1..Len(Ring)
      BY <1>h DEF Dispatch
    <3> QED BY <3>1, <3>2, <1>3, <1>c
  <2>2. \A q \in Pid : pc[q] = "exited"
           => \A k \in 1..Len(Ring) : Entry(k) \in PCB /\ pid[Entry(k)] = q
              => state[Ring[k]] = "FINISHED"
    BY DEF IInv, ExitedFinished
  <2> QED BY <2>1, <2>2, <1>u, <1>1, <1>2 DEF ExitedFinished
<1>9. KernelLeft'
  BY <1>u, <1>1, <1>4, <1>c, <1>h DEF IInv, KernelLeft
<1> QED BY <1>1, <1>5, <1>6, <1>7, <1>8, <1>9 DEF IInv

(* Removing a finished process from the head of the ring gives back its    *)
(* node and its entry and no other.                                        *)
LEMMA ReapStep ==
  ASSUME IInv, TypeOK', Reap
  PROVE  IInv' /\ Ring' = Tail(Ring)
<1>c. ISR \notin Pid /\ Kernel \notin Pid /\ ISR # Kernel
  BY MaxPidAssumption DEF Pid, ISR, Kernel
<1>u. /\ UNCHANGED <<firstIteration, PCBIndex, state, nextPid, createProcessMutex, pc>>
      /\ cpu = ISR /\ cpu' \notin Pid /\ ~firstIteration
  BY <1>c DEF Reap, IInv, KernelLeft
<1>l. \A q \in Pid : /\ local'[q].newNode = local[q].newNode /\ local'[q].newPCB = local[q].newPCB
                     /\ local'[q].aux = local[q].aux /\ local'[q].pointer = local[q].pointer
  <2>1. local \in [Pid -> Locals] /\ local' = Astray(next[last])
    BY TypeParts DEF Reap, IInv, ThreadsOK
  <2> QED BY <2>1, AstrayLocals
<1>s. \A q \in Pid : pc[q] \notin Sealed
  BY <1>c, <1>u DEF IInv, Undisturbed
<1>h. /\ Base = last
      /\ Ring \in Seq(Node) /\ Len(Ring) \in Nat \ {0} /\ Ring # <<>>
      /\ last \in Node /\ last = Ring[Len(Ring)]
      /\ next[last] = Ring[1] /\ Ring[1] \in Node
      /\ 1 \in 1..Len(Ring) /\ Len(Ring) \in 1..Len(Ring)
  BY <1>u, <1>c, HeadIs DEF IInv
<1>b. Base' = last'
  BY <1>s, <1>u DEF Base, Linking, Sealed
<1>d. \A j, k \in 1..Len(Ring) : Ring[j] = Ring[k] => j = k
  BY DEF IInv, RingClosed, Closes
<1>1. /\ Ring' = Tail(Ring) /\ RingClosed' /\ Len(Ring') = Len(Ring) - 1
      /\ \A k \in 1..Len(Ring') : Ring'[k] = Ring[k + 1]
      /\ Ring' = <<>> <=> cpu' = Kernel
  <2>1. CASE Ring[1] = last
    <3>1. Len(Ring) = 1
      BY <2>1, <1>h, <1>d
    <3>2. last' = NULL /\ next' = next /\ cpu' = Kernel
      BY <2>1, <1>h DEF Reap
    <3>3. Tail(Ring) = <<>>
      <4>1. Tail(Ring) \in Seq(Node) /\ Len(Tail(Ring)) = 0
        BY <3>1, <1>h, HeadTailProperties
      <4> QED BY <4>1, EmptySeq
    <3>4. Closes(<<>>, next')
      BY DEF Closes
    <3>5. next' \in [Node -> Node]
      BY DEF TypeOK
    <3>6. Ring' = <<>> /\ RingClosed'
      BY <3>2, <3>4, <3>5, <1>b, RingIs
    <3> QED BY <3>1, <3>2, <3>3, <3>6
  <2>2. CASE Ring[1] # last
    <3>1. Len(Ring) > 1
      BY <2>2, <1>h
    <3>2. last' = last /\ next' = [next EXCEPT ![last] = next[Ring[1]]] /\ cpu' = ISR
      BY <2>2, <1>h DEF Reap
    <3>3. /\ Closes(Tail(Ring), next')
          /\ Tail(Ring) # <<>> /\ Len(Tail(Ring)) = Len(Ring) - 1
                /\ Tail(Ring)[Len(Tail(Ring))] = last
          /\ \A k \in 1..Len(Tail(Ring)) : Tail(Ring)[k] = Ring[k + 1]
      <4>1. next \in [Node -> Node] /\ Closes(Ring, next)
        BY DEF IInv, RingClosed, TypeOK
      <4> QED BY <3>1, <3>2, <4>1, <1>h, TailCloses
    <3>4. next' \in [Node -> Node]
      BY DEF TypeOK
    <3>5. Ring' = Tail(Ring) /\ RingClosed'
      BY <3>2, <3>3, <3>4, <1>b, RingIs
    <3> QED BY <3>2, <3>3, <3>5, <1>c
  <2> QED BY <2>1, <2>2
<1>2. /\ \A k \in 1..Len(Ring') : Entry(k)' = Entry(k + 1)
      /\ \A k \in 1..Len(Ring') : k + 1 \in 1..Len(Ring) /\ k + 1 # 1
      /\ \A k \in 1..Len(Ring) : k # 1 => k - 1 \in 1..Len(Ring') /\ (k - 1) + 1 = k
  <2>1. \A k \in 1..Len(Ring') : Entry(k)' = Entry(k + 1)
    BY <1>1, <1>u DEF Entry
  <2> QED BY <2>1, <1>1, <1>h
<1>a. /\ Entry(1) = PCBIndex[next[last]]
      /\ Entry(1) \in PCB => /\ occupied' = occupied \ {Entry(1)}
                             /\ pid' = [pid EXCEPT ![Entry(1)] = 0]
                             /\ stack' = [stack EXCEPT ![Entry(1)] = NoStack]
      /\ Entry(1) \notin PCB => UNCHANGED <<occupied, pid, stack>>
  <2>1. Entry(1) = PCBIndex[next[last]]
    BY <1>h DEF Entry
  <2> QED BY <2>1 DEF Reap
<1>e. /\ \A i \in occupied' : i \in occupied /\ pid'[i] = pid[i]
      /\ \A i \in PCB : i # Entry(1) => (i \in occupied'
            <=> i \in occupied) /\ pid'[i] = pid[i] /\ stack'[i] = stack[i]
      /\ occupied \subseteq PCB
  BY <1>a DEF IInv, TypeOK
<1>f. \A k \in 1..Len(Ring') : Entry(k)' \in PCB => Entry(k)' # Entry(1)
  BY <1>2, <1>h DEF IInv, EntriesTaken
<1>3. Alone' /\ Undisturbed' /\ NodeFilled' /\ ExitAtHead' /\ NoChildYet' /\ WalkInside'
  <2>1. Undisturbed' /\ NodeFilled' /\ ExitAtHead'
    BY <1>s, <1>u DEF Undisturbed, NodeFilled, ExitAtHead, Sealed
  <2>2. Alone' /\ NoChildYet' /\ WalkInside'
    BY <1>u, <1>l DEF IInv, Alone, NoChildYet, WalkInside
  <2> QED BY <2>1, <2>2
<1>4. OwnPid'
  BY <1>u, <1>e DEF IInv, OwnPid
<1>5. PidsLast'
  BY <1>u DEF IInv, PidsLast, Creators
<1>6. NodesUsed'
  <2>1. usedNodes' = usedNodes \ {Ring[1]} /\ Building' = Building
    BY <1>h, <1>u DEF Reap, Building
  <2>2. \A n \in Node : (\E k \in 1..Len(Ring') : Ring'[k] = n)
           <=> n # Ring[1] /\ \E k \in 1..Len(Ring) : Ring[k] = n
    <3> SUFFICES ASSUME NEW n \in Node
                 PROVE  (\E k \in 1..Len(Ring') : Ring'[k] = n)
                           <=> n # Ring[1] /\ \E k \in 1..Len(Ring) : Ring[k] = n
      OBVIOUS
    <3>1. ASSUME NEW k \in 1..Len(Ring'), Ring'[k] = n
          PROVE n # Ring[1] /\ \E j \in 1..Len(Ring) : Ring[j] = n
      <4>1. k + 1 \in 1..Len(Ring) /\ k + 1 # 1 /\ Ring[k + 1] = n
        BY <3>1, <1>1, <1>2
      <4> QED BY <4>1, <1>d, <1>h
    <3>2. ASSUME NEW k \in 1..Len(Ring), Ring[k] = n, n # Ring[1]
          PROVE \E j \in 1..Len(Ring') : Ring'[j] = n
      <4>1. k - 1 \in 1..Len(Ring') /\ (k - 1) + 1 = k
        BY <3>2, <1>2
      <4>2. Ring'[k - 1] = n
        BY <3>2, <4>1, <1>1
      <4> QED BY <4>1, <4>2
    <3> QED BY <3>1, <3>2
  <2>3. \A q \in Building : q \in Pid /\ local[q].newNode \in usedNodes
           /\ local[q].newNode # Ring[1]
    BY <1>h DEF IInv, NodesUsed, Building
  <2>4. \A n \in Node : (\E k \in 1..Len(Ring') : Ring'[k] = n)
                        <=> n \in usedNodes' /\ \A q \in Building : local[q].newNode # n
    BY <2>1, <2>2, <2>3 DEF IInv, NodesUsed
  <2>5. Building \subseteq Pid /\ \A q \in Building : local'[q].newNode = local[q].newNode
    BY <1>l DEF Building
  <2> QED BY <2>1, <2>3, <2>4, <2>5, <1>u DEF NodesUsed
<1>7. EntriesTaken'
  <2> SUFFICES ASSUME NEW j \in 1..Len(Ring'), NEW k \in 1..Len(Ring'), Entry(j)' \in PCB
               PROVE  Entry(j)' \in occupied' /\ (Entry(j)' = Entry(k)' => j = k)
    BY DEF EntriesTaken
  <2>1. Entry(j + 1) \in occupied /\ (Entry(j + 1) = Entry(k + 1) => j + 1 = k + 1)
    BY <1>2 DEF IInv, EntriesTaken
  <2> QED BY <2>1, <1>2, <1>e, <1>f
<1>8. ChildReady'
  <2> SUFFICES ASSUME NEW q \in Pid, HasChild(q)', local'[q].newPCB \in PCB
               PROVE  LET child == local'[q].newPCB IN
                      /\ child \in occupied' /\ stack'[child] = pid'[child]
                            /\ pc'[pid'[child]] = "user"
                      /\ \A k \in 1..Len(Ring') : Entry(k)' # child
    BY DEF ChildReady
  <2> DEFINE child == local[q].newPCB
  <2>1. HasChild(q) /\ local'[q].newPCB = local[q].newPCB /\ child \in PCB
    BY <1>u, <1>l DEF HasChild
  <2>2. /\ child \in occupied /\ stack[child] = pid[child] /\ pc[pid[child]] = "user"
        /\ \A k \in 1..Len(Ring) : Entry(k) # child
    BY <2>1 DEF IInv, ChildReady
  <2>3. child # Entry(1) /\ \A k \in 1..Len(Ring') : Entry(k)' # child
    BY <2>2, <1>2, <1>h
  <2> QED BY <2>1, <2>2, <2>3, <1>e, <1>u
<1>9. HeadRuns'
  <2> SUFFICES ASSUME NEW k \in 1..Len(Ring'), Entry(k)' \in PCB
               PROVE stack'[Entry(k)'] = pid'[Entry(k)']
    BY <1>u DEF HeadRuns
  <2>1. stack[Entry(k + 1)] = pid[Entry(k + 1)]
    BY <1>2, <1>u, <1>c DEF IInv, HeadRuns
  <2> QED BY <2>1, <1>2, <1>e, <1>f
<1>10. ExitedFinished'
  <2> SUFFICES ASSUME NEW q \in Pid, pc[q] = "exited", NEW k \in 1..Len(Ring'),
                  Entry(k)' \in PCB, pid'[Entry(k)'] = q
               PROVE  state[Ring'[k]] = "FINISHED"
    BY <1>u DEF ExitedFinished
  <2>1. Entry(k + 1) \in PCB /\ pid[Entry(k + 1)] = q /\ k + 1 \in 1..Len(Ring)
           /\ Ring'[k] = Ring[k + 1]
    BY <1>1, <1>2, <1>e, <1>f
  <2> QED BY <2>1 DEF IInv, ExitedFinished
<1>11. KernelLeft'
  BY <1>u, <1>1 DEF KernelLeft
<1> QED BY <1>1, <1>3, <1>4, <1>5, <1>6, <1>7, <1>8, <1>9, <1>10, <1>11 DEF IInv

(* getFreeNode takes a node that is in no ring.                            *)
LEMMA GetNodeStep ==
  ASSUME IInv, TypeOK', NEW p \in Pid, getFreeNode(p), usedNodes # Node
  PROVE  IInv' /\ Ring' = Ring
<1>t. pc \in [Pid -> Point] /\ local \in [Pid -> Locals] /\ TypeOK /\ local' \in [Pid -> Locals]
  BY TypeParts DEF ThreadsOK, IInv
<1> DEFINE n == Lowest(Node \ usedNodes)
<1>n. n \in Node /\ n \notin usedNodes
  <2>1. Node \ usedNodes \in SUBSET Nat /\ Node \ usedNodes # {}
    BY <1>t, NodesAreNat DEF TypeOK
  <2> QED BY <2>1, LowestFree
<1>u. /\ UNCHANGED <<last, firstIteration, PCBIndex, state, next, occupied, pid, stack,
            nextPid, createProcessMutex, cpu>>
      /\ cpu = p /\ pc[p] = "getFreeNode" /\ pc' = [pc EXCEPT ![p] = "createProcess"]
      /\ usedNodes' = usedNodes \cup {n} /\ local' = [local EXCEPT ![p].newNode = n]
  BY DEF getFreeNode, At, Goto, pcbs
<1> HIDE DEF n
<1>p. /\ pc'[p] = "createProcess" /\ \A q \in Pid : q # p => pc'[q] = pc[q] /\ local'[q] = local[q]
      /\ local'[p].newNode = n /\ local'[p].newPCB = local[p].newPCB
  BY <1>t, <1>u DEF Locals
<1>s. \A q \in Pid : pc[q] \notin Sealed /\ pc'[q] \notin Sealed
  BY <1>u, <1>p DEF IInv, Undisturbed, Sealed
<1>1. Ring' = Ring /\ RingClosed'
  <2>1. Base' = Base
    BY <1>s, <1>u DEF Base, Linking, Sealed
  <2>2. Closes(Ring, next') /\ next' \in [Node -> Node]
    BY <1>u DEF IInv, RingClosed, TypeOK
  <2> QED BY <2>1, <2>2, RingStays
<1>2. \A k : Entry(k)' = Entry(k)
  BY <1>1, <1>u DEF Entry
<1>3. Alone'
  BY <1>u, AloneStep DEF Inside, CreatePoints, Point
<1>4. PidsLast'
  BY <1>u, PidsLastStep DEF CreatePoints, Point
<1>5. Undisturbed' /\ NodeFilled' /\ ExitAtHead'
  BY <1>s DEF Undisturbed, NodeFilled, ExitAtHead, Sealed
<1>6. OwnPid'
  BY <1>u, <1>p DEF IInv, OwnPid
<1>7. NodesUsed'
  <2>0. \A q \in Pid : pc[q] \in Inside => q = p
    BY <1>u DEF IInv, Alone, Inside, CreatePoints
  <2>1. Building = {}
    BY <1>u, <2>0 DEF Building, Inside, CreatePoints
  <2>2. Building' = {p}
    BY <1>p, <2>1 DEF Building
  <2>3. \A m \in Node : (\E k \in 1..Len(Ring) : Ring[k] = m) <=> m \in usedNodes
    BY <2>1 DEF IInv, NodesUsed
  <2>4. \A m \in Node : (\E k \in 1..Len(Ring') : Ring'[k] = m)
           <=> m \in usedNodes' /\ \A q \in Building' : local'[q].newNode # m
    BY <2>2, <2>3, <1>1, <1>u, <1>p, <1>n
  <2> QED BY <2>2, <2>4, <1>u, <1>p DEF NodesUsed
<1>8. EntriesTaken' /\ HeadRuns' /\ KernelLeft'
  BY <1>1, <1>2, <1>u DEF IInv, EntriesTaken, HeadRuns, KernelLeft
<1>9. ChildReady'
  <2>1. \A q \in Pid : pc'[q] \in Inside => q = p
    BY <1>p, <1>u DEF IInv, Alone, Inside, CreatePoints
  <2> QED BY <2>1, <1>p DEF ChildReady, HasChild, Inside, CreatePoints
<1>10. NoChildYet' /\ WalkInside'
  <2>1. NoChildYet'
    BY <1>p, <1>u DEF IInv, NoChildYet
  <2>2. WalkInside'
    BY <1>p DEF IInv, WalkInside
  <2> QED BY <2>1, <2>2
<1>11. ExitedFinished'
  BY <1>1, <1>2, <1>u, <1>p DEF IInv, ExitedFinished
<1> QED BY <1>1, <1>3, <1>4, <1>5, <1>6, <1>7, <1>8, <1>9, <1>10, <1>11 DEF IInv

(* createProcess takes an entry that no process has, or fails.             *)
LEMMA CreateStep ==
  ASSUME IInv, TypeOK', NEW p \in Pid, createProcess(p) \/ createProcessFails(p)
  PROVE  IInv' /\ Ring' = Ring
<1>t. pc \in [Pid -> Point] /\ local \in [Pid -> Locals] /\ TypeOK /\ local' \in [Pid -> Locals]
  BY TypeParts DEF ThreadsOK, IInv
<1>u. /\ UNCHANGED <<usedNodes, last, firstIteration, PCBIndex, state, next,
            createProcessMutex, cpu>>
      /\ cpu = p /\ pc[p] = "createProcess" /\ pc' = [pc EXCEPT ![p] = "fill"]
  BY DEF createProcess, createProcessFails, At, Goto, nodes
<1>r. /\ Ring # <<>> /\ p = pid[Entry(1)] /\ p < nextPid /\ nextPid \in Pid /\ nextPid \in Nat
  <2>1. nextPid \in Pid
    BY <1>t, <1>u, PidLeft DEF IInv
  <2> QED BY <2>1, <1>u, RunnerIs, MaxPidAssumption DEF Pid
<1> DEFINE i == Lowest(PCB \ occupied)
<1>n. occupied # PCB => i \in PCB /\ i \notin occupied
  <2>1. PCB \ occupied \in SUBSET Nat /\ (occupied # PCB => PCB \ occupied # {})
    BY <1>t, NodesAreNat DEF TypeOK
  <2> QED BY <2>1, LowestFree
<1>a. \/ /\ createProcess(p) /\ i \in PCB /\ i \notin occupied
         /\ occupied' = occupied \cup {i} /\ pid' = [pid EXCEPT ![i] = nextPid]
               /\ nextPid' = nextPid + 1
         /\ stack' = [stack EXCEPT ![i] = nextPid] /\ local' = [local EXCEPT ![p].newPCB = i]
      \/ /\ i \in PCB /\ i \notin occupied
         /\ occupied' = occupied \cup {i} /\ pid' = [pid EXCEPT ![i] = nextPid]
               /\ nextPid' = nextPid + 1
         /\ stack' = stack /\ local' = local
      \/ UNCHANGED <<occupied, pid, nextPid, stack, local>>
  BY <1>n DEF createProcess, createProcessFails
<1> HIDE DEF i
<1>p. /\ pc'[p] = "fill" /\ \A q \in Pid : q # p => pc'[q] = pc[q] /\ local'[q] = local[q]
      /\ local'[p].newNode = local[p].newNode
      /\ \/ /\ local'[p].newPCB = i /\ i \in occupied' /\ i \notin occupied
            /\ stack'[i] = nextPid /\ pid'[i] = nextPid
         \/ local'[p].newPCB = BadPCB
  <2>1. local[p].newPCB = BadPCB
    BY <1>u DEF IInv, NoChildYet
  <2>2. pid \in [PCB -> 0..MaxPid] /\ stack \in [PCB -> Pid \cup {NoStack}]
    BY <1>t DEF TypeOK
  <2>3. pc'[p] = "fill" /\ \A q \in Pid : q # p => pc'[q] = pc[q] /\ local'[q] = local[q]
    BY <1>t, <1>u, <1>a
  <2>4. local'[p].newNode = local[p].newNode
    BY <1>t, <1>a DEF Locals
  <2>5. CASE /\ i \in PCB /\ i \notin occupied
             /\ occupied' = occupied \cup {i} /\ pid' = [pid EXCEPT ![i] = nextPid]
                   /\ nextPid' = nextPid + 1
             /\ stack' = [stack EXCEPT ![i] = nextPid] /\ local' = [local EXCEPT ![p].newPCB = i]
    <3>1. local'[p].newPCB = i
      BY <2>5, <1>t DEF Locals
    <3> QED BY <2>2, <2>3, <2>4, <2>5, <3>1
  <2>6. CASE local' = local
    BY <2>1, <2>3, <2>4, <2>6
  <2> QED BY <2>5, <2>6, <1>a
<1>e. /\ \A j \in occupied : j \in occupied' /\ pid'[j] = pid[j] /\ stack'[j] = stack[j]
      /\ \A j \in occupied' : \/ j \in occupied
                              \/ j = i /\ pid'[i] = nextPid /\ nextPid' = nextPid + 1
      /\ nextPid' = nextPid \/ nextPid' = nextPid + 1
      /\ \A j \in PCB : j # i => pid'[j] = pid[j]
  <2>1. pid \in [PCB -> 0..MaxPid] /\ stack \in [PCB -> Pid \cup {NoStack}]
           /\ occupied \subseteq PCB
    BY <1>t DEF TypeOK
  <2> QED BY <2>1, <1>a
<1>g. \A k \in 1..Len(Ring) : Entry(k) \in PCB => Entry(k) \in occupied
  BY DEF IInv, EntriesTaken
<1>s. \A q \in Pid : pc[q] \notin Sealed /\ pc'[q] \notin Sealed
  BY <1>u, <1>p DEF IInv, Undisturbed, Sealed
<1>1. Ring' = Ring /\ RingClosed'
  <2>1. Base' = Base
    BY <1>s, <1>u DEF Base, Linking, Sealed
  <2>2. Closes(Ring, next') /\ next' \in [Node -> Node]
    BY <1>u DEF IInv, RingClosed, TypeOK
  <2> QED BY <2>1, <2>2, RingStays
<1>2. \A k : Entry(k)' = Entry(k)
  BY <1>1, <1>u DEF Entry
<1>3. Alone'
  BY <1>u, AloneStep DEF Inside, CreatePoints, Point
<1>4. PidsLast'
  BY <1>u, <1>e, PidsLastStep DEF CreatePoints, Point
<1>5. Undisturbed' /\ NodeFilled' /\ ExitAtHead'
  BY <1>s DEF Undisturbed, NodeFilled, ExitAtHead, Sealed
<1>6. OwnPid'
  <2>1. \A j \in occupied : pid[j] \in 1..(nextPid - 1)
    BY DEF IInv, OwnPid
  <2>2. ASSUME NEW j \in occupied' PROVE pid'[j] \in 1..(nextPid' - 1)
    <3>1. CASE j \in occupied
      <4>1. pid'[j] \in 1..(nextPid - 1)
        BY <2>1, <3>1, <1>e
      <4> QED BY <4>1, <1>e, <1>r
    <3>2. CASE pid'[j] = nextPid /\ nextPid' = nextPid + 1
      BY <3>2, <1>r DEF Pid
    <3> QED BY <3>1, <3>2, <1>e
  <2>3. \A j, k \in occupied' : pid'[j] = pid'[k] => j = k
    <3>1. \A j, k \in occupied : pid[j] = pid[k] => j = k
      BY DEF IInv, OwnPid
    <3> QED BY <3>1, <2>1, <1>e, <1>r
  <2>4. \A q \in Pid : q >= nextPid' => pc'[q] = "user"
    <3>1. \A q \in Pid : q >= nextPid => pc[q] = "user"
      BY DEF IInv, OwnPid
    <3> QED BY <3>1, <1>e, <1>r, <1>p DEF Pid
  <2> QED BY <2>2, <2>3, <2>4 DEF OwnPid
<1>7. NodesUsed'
  <2>1. Building' = Building
    BY <1>u, <1>p DEF Building
  <2>2. \A q \in Building : q \in Pid /\ local'[q].newNode = local[q].newNode
    BY <1>p DEF Building
  <2> QED BY <2>1, <2>2, <1>1, <1>u DEF IInv, NodesUsed
<1>8. EntriesTaken' /\ HeadRuns' /\ KernelLeft'
  <2>1. EntriesTaken'
    BY <1>1, <1>2, <1>e DEF IInv, EntriesTaken
  <2>2. HeadRuns'
    BY <1>1, <1>2, <1>e, <1>g, <1>u DEF IInv, HeadRuns
  <2>3. KernelLeft'
    BY <1>1, <1>u DEF IInv, KernelLeft
  <2> QED BY <2>1, <2>2, <2>3
<1>9. ChildReady'
  <2>1. \A q \in Pid : pc'[q] \in Inside => q = p
    BY <1>p, <1>u DEF IInv, Alone, Inside, CreatePoints
  <2> SUFFICES ASSUME NEW q \in Pid, HasChild(q)', local'[q].newPCB \in PCB
               PROVE  LET child == local'[q].newPCB IN
                      /\ child \in occupied' /\ stack'[child] = pid'[child]
                            /\ pc'[pid'[child]] = "user"
                      /\ \A k \in 1..Len(Ring') : Entry(k)' # child
    BY DEF ChildReady
  <2>2. q = p
    BY <2>1 DEF HasChild, Inside, CreatePoints
  <2>3. BadPCB \notin PCB
    BY MaxProcessesAssumption DEF BadPCB, PCB
  <2>4. /\ local'[q].newPCB = i /\ i \in occupied' /\ i \notin occupied
        /\ stack'[i] = nextPid /\ pid'[i] = nextPid /\ i \in PCB
    BY <2>2, <2>3, <1>p
  <2>5. pc'[nextPid] = "user"
    BY <1>r, <1>p DEF IInv, OwnPid
  <2>6. \A k \in 1..Len(Ring') : Entry(k)' # i
    BY <2>4, <1>1, <1>2, <1>g
  <2> QED BY <2>4, <2>5, <2>6
<1>10. NoChildYet' /\ WalkInside'
  <2>1. NoChildYet'
    BY <1>p, <1>u DEF IInv, NoChildYet
  <2>2. WalkInside'
    BY <1>p DEF IInv, WalkInside
  <2> QED BY <2>1, <2>2
<1>11. ExitedFinished'
  <2> SUFFICES ASSUME NEW q \in Pid, pc'[q] = "exited"
               PROVE  cpu' # q /\ \A k \in 1..Len(Ring') : Entry(k)' \in PCB
                         /\ pid'[Entry(k)'] = q => state'[Ring'[k]] = "FINISHED"
    BY DEF ExitedFinished
  <2>1. pc[q] = "exited"
    BY <1>p
  <2> QED BY <2>1, <1>1, <1>2, <1>e, <1>g, <1>u DEF IInv, ExitedFinished
<1> QED BY <1>1, <1>3, <1>4, <1>5, <1>6, <1>7, <1>8, <1>9, <1>10, <1>11 DEF IInv

(* Filling the new node disturbs no node of the ring.                      *)
LEMMA FillStep ==
  ASSUME IInv, TypeOK', NEW p \in Pid, FillNode(p)
  PROVE  IInv' /\ Ring' = Ring
<1>t. pc \in [Pid -> Point] /\ local \in [Pid -> Locals] /\ TypeOK /\ local' \in [Pid -> Locals]
  BY TypeParts DEF ThreadsOK, IInv
<1> DEFINE n == local[p].newNode
<1>u. /\ UNCHANGED <<usedNodes, last, firstIteration, occupied, pid, stack, nextPid,
            createProcessMutex, cpu>>
      /\ cpu = p /\ pc[p] = "fill" /\ pc' = [pc EXCEPT ![p] = "link2"]
      /\ PCBIndex' = [PCBIndex EXCEPT ![n] = local[p].newPCB]
      /\ state' = [state EXCEPT ![n] = "RUNNING"]
      /\ next' = [next EXCEPT ![n] = n]
      /\ local' = [local EXCEPT ![p].aux = last]
  BY DEF FillNode, At, Goto, pcbs
<1>n. n \in Node /\ p \in Building /\ \A k \in 1..Len(Ring) : Ring[k] # n /\ Ring[k] \in Node
  <2>1. p \in Building
    BY <1>u DEF Building
  <2>2. n \in Node
    BY <2>1 DEF IInv, NodesUsed, TypeOK
  <2>3. \A k \in 1..Len(Ring) : Ring[k] \in Node
    BY DEF IInv, RingClosed, Closes
  <2> QED BY <2>1, <2>2, <2>3 DEF IInv, NodesUsed
<1> HIDE DEF n
<1>p. /\ pc'[p] = "link2" /\ \A q \in Pid : q # p => pc'[q] = pc[q] /\ local'[q] = local[q]
      /\ local'[p].newNode = n /\ local'[p].newPCB = local[p].newPCB /\ local'[p].aux = last
  BY <1>t, <1>u DEF Locals, n
<1>r. Ring # <<>> /\ p < nextPid /\ nextPid \in Int /\ last \in Node
      /\ \A q \in Pid : HasChild(q) /\ local[q].newPCB \in PCB => pid[local[q].newPCB] # p
  <2>1. cpu # Kernel
    BY <1>u, RunnerIs
  <2> QED BY <2>1, <1>t, <1>u, RunnerIs, HeadIs DEF IInv, TypeOK
<1>s. \A q \in Pid : pc[q] \notin Sealed /\ (q # p => pc'[q] \notin Sealed)
  BY <1>u, <1>p DEF IInv, Undisturbed, Sealed
<1>o. \A q \in Pid : pc[q] \in Inside \/ pc'[q] \in Inside => q = p
  BY <1>p, <1>u DEF IInv, Alone, Inside, CreatePoints
<1>1. Ring' = Ring /\ RingClosed'
  <2>1. Base' = Base
    BY <1>s, <1>p, <1>u DEF Base, Linking, Sealed
  <2>2. Closes(Ring, next')
    BY <1>u, <1>n, OthersClose DEF IInv, RingClosed
  <2>3. next' \in [Node -> Node]
    BY DEF TypeOK
  <2> QED BY <2>1, <2>2, <2>3, RingStays
<1>2. \A k \in 1..Len(Ring) : Entry(k)' = Entry(k) /\ state'[Ring[k]] = state[Ring[k]]
  <2>1. PCBIndex \in [Node -> PCB \cup {BadPCB}] /\ state \in [Node -> {"RUNNING", "FINISHED"}]
    BY <1>t DEF TypeOK
  <2> QED BY <2>1, <1>1, <1>n, <1>u DEF Entry
<1>3. Alone'
  BY <1>u, AloneStep DEF Inside, CreatePoints, Point
<1>4. PidsLast'
  BY <1>u, PidsLastStep DEF CreatePoints, Point
<1>5. Undisturbed' /\ ExitAtHead'
  BY <1>s, <1>p, <1>u DEF Undisturbed, ExitAtHead, Sealed
<1>6. OwnPid'
  BY <1>u, <1>p, <1>r DEF IInv, OwnPid, Pid
<1>7. NodesUsed'
  <2>1. Building' = Building
    BY <1>u, <1>p DEF Building
  <2>2. \A q \in Building : q \in Pid /\ local'[q].newNode = local[q].newNode
    BY <1>p DEF Building, n
  <2> QED BY <2>1, <2>2, <1>1, <1>u DEF IInv, NodesUsed
<1>8. EntriesTaken' /\ HeadRuns' /\ KernelLeft'
  <2>1. EntriesTaken'
    BY <1>1, <1>2, <1>u DEF IInv, EntriesTaken
  <2>2. HeadRuns'
    <3>1. 1 \in 1..Len(Ring)
      BY <1>u, RunnerIs
    <3> QED BY <3>1, <1>1, <1>2, <1>u DEF IInv, HeadRuns
  <2>3. KernelLeft'
    BY <1>1, <1>u DEF IInv, KernelLeft
  <2> QED BY <2>1, <2>2, <2>3
<1>9. ChildReady'
  <2> SUFFICES ASSUME NEW q \in Pid, HasChild(q)', local'[q].newPCB \in PCB
               PROVE  LET child == local'[q].newPCB IN
                      /\ child \in occupied' /\ stack'[child] = pid'[child]
                            /\ pc'[pid'[child]] = "user"
                      /\ \A k \in 1..Len(Ring') : Entry(k)' # child
    BY DEF ChildReady
  <2>2. q = p
    BY <1>o DEF HasChild, Inside, CreatePoints
  <2> DEFINE child == local[p].newPCB
  <2>3. HasChild(p) /\ local'[q].newPCB = child /\ child \in PCB
    BY <2>2, <1>p, <1>u DEF HasChild
  <2>4. /\ child \in occupied /\ stack[child] = pid[child] /\ pc[pid[child]] = "user"
              /\ pid[child] # p
        /\ \A k \in 1..Len(Ring) : Entry(k) # child
    BY <2>3, <1>r DEF IInv, ChildReady
  <2>5. pc'[pid[child]] = "user"
    BY <2>4, <1>u, <1>t
  <2> QED BY <2>3, <2>4, <2>5, <1>1, <1>2, <1>u
<1>10. NoChildYet' /\ WalkInside'
  <2>1. NoChildYet'
    BY <1>p, <1>u DEF IInv, NoChildYet
  <2>2. WalkInside'
    BY <1>p DEF IInv, WalkInside
  <2> QED BY <2>1, <2>2
<1>11. ExitedFinished'
  <2> SUFFICES ASSUME NEW q \in Pid, pc'[q] = "exited"
               PROVE  cpu' # q /\ \A k \in 1..Len(Ring') : Entry(k)' \in PCB
                         /\ pid'[Entry(k)'] = q => state'[Ring'[k]] = "FINISHED"
    BY DEF ExitedFinished
  <2>1. pc[q] = "exited"
    BY <1>p
  <2> QED BY <2>1, <1>1, <1>2, <1>u DEF IInv, ExitedFinished
<1>12. NodeFilled'
  <2> SUFFICES ASSUME NEW q \in Pid, pc'[q] \in {"link2", "link3", "link4"}
               PROVE  LET node == local'[q].newNode IN
                      /\ PCBIndex'[node] = local'[q].newPCB /\ state'[node] = "RUNNING"
                            /\ local'[q].aux \in Node
                      /\ pc'[q] = "link2" => next'[node] = node /\ local'[q].aux = last'
                      /\ pc'[q] \in {"link3", "link4"} => last' = node
                      /\ pc'[q] = "link4" => next'[node] = next'[local'[q].aux]
    BY DEF NodeFilled
  <2>1. q = p
    BY <1>s DEF Sealed
  <2>2. PCBIndex'[n] = local[p].newPCB /\ state'[n] = "RUNNING" /\ next'[n] = n
    BY <1>n, <1>u, <1>t DEF TypeOK
  <2> QED BY <2>1, <2>2, <1>p, <1>r, <1>u
<1> QED BY <1>1, <1>3, <1>4, <1>5, <1>6, <1>7, <1>8, <1>9, <1>10, <1>11, <1>12 DEF IInv

(* The three stores that link the new node: the ring is the old one until  *)
(* the third, and has the new node at its end after it.                    *)
LEMMA LinkStep ==
  ASSUME IInv, TypeOK', NEW p \in Pid, Link2(p) \/ Link3(p) \/ Link4(p)
  PROVE  /\ IInv'
         /\ ~Link4(p) => Ring' = Ring
         /\ Link4(p) => Ring' = Append(Ring, local[p].newNode)
<1>t. pc \in [Pid -> Point] /\ local \in [Pid -> Locals] /\ TypeOK
  BY TypeParts DEF ThreadsOK, IInv
<1> DEFINE n == local[p].newNode
           aux == local[p].aux
<1>u. /\ UNCHANGED <<usedNodes, firstIteration, PCBIndex, state, occupied, pid, stack, nextPid,
            createProcessMutex, cpu, local>>
      /\ cpu = p
      /\ \/ pc[p] = "link2" /\ pc' = [pc EXCEPT ![p] = "link3"] /\ last' = n /\ next' = next
               /\ ~Link4(p)
         \/ pc[p] = "link3" /\ pc' = [pc EXCEPT ![p] = "link4"] /\ last' = last
               /\ next' = [next EXCEPT ![n] = next[aux]] /\ ~Link4(p)
         \/ pc[p] = "link4" /\ pc' = [pc EXCEPT ![p] = "getPID"] /\ last' = last
               /\ next' = [next EXCEPT ![aux] = n] /\ Link4(p)
  BY DEF Link2, Link3, Link4, At, Goto, pcbs
<1>n. n \in Node /\ p \in Building /\ \A k \in 1..Len(Ring) : Ring[k] # n /\ Ring[k] \in Node
  <2>1. p \in Building
    BY <1>u DEF Building
  <2>2. n \in Node
    BY <2>1 DEF IInv, NodesUsed, TypeOK
  <2>3. \A k \in 1..Len(Ring) : Ring[k] \in Node
    BY DEF IInv, RingClosed, Closes
  <2> QED BY <2>1, <2>2, <2>3 DEF IInv, NodesUsed
<1>f. /\ PCBIndex[n] = local[p].newPCB /\ state[n] = "RUNNING" /\ aux \in Node
      /\ pc[p] = "link2" => next[n] = n /\ aux = last
      /\ pc[p] \in {"link3", "link4"} => last = n
      /\ pc[p] = "link4" => next[n] = next[aux]
  BY <1>u DEF IInv, NodeFilled
<1>p. /\ \A q \in Pid : q # p => pc'[q] = pc[q]
      /\ pc[p] = "link2" => pc'[p] = "link3"
      /\ pc[p] = "link3" => pc'[p] = "link4"
      /\ pc[p] = "link4" => pc'[p] = "getPID"
      /\ pc[p] \in {"link2", "link3", "link4"}
  BY <1>t, <1>u
<1>s. \A q \in Pid : q # p => pc[q] \notin Sealed /\ pc'[q] \notin Sealed
  BY <1>u, <1>p DEF IInv, Undisturbed, Sealed
<1>o. \A q \in Pid : pc[q] \in Inside \/ pc'[q] \in Inside => q = p
  BY <1>p, <1>u DEF IInv, Alone, Inside, CreatePoints
<1>r. /\ Ring # <<>> /\ Ring \in Seq(Node) /\ Len(Ring) \in Nat \ {0} /\ 1 \in 1..Len(Ring)
            /\ Len(Ring) \in 1..Len(Ring)
      /\ p < nextPid /\ nextPid \in Int
      /\ \A q \in Pid : HasChild(q) /\ local[q].newPCB \in PCB => pid[local[q].newPCB] # p
  BY <1>u, <1>t, RunnerIs DEF TypeOK
<1>b. /\ Base = aux /\ aux = Ring[Len(Ring)]
      /\ pc[p] # "link4" => Base' = aux
      /\ pc[p] = "link4" => Base' = n
  <2>1. Base = aux
    <3>1. CASE pc[p] = "link2"
      <4>1. Linking = {}
        BY <3>1, <1>s DEF Linking, Sealed
      <4> QED BY <4>1, <3>1, <1>f DEF Base
    <3>2. CASE pc[p] # "link2"
      <4>1. Linking = {p}
        BY <3>2, <1>p, <1>s DEF Linking, Sealed
      <4> QED BY <4>1 DEF Base
    <3> QED BY <3>1, <3>2
  <2>2. CASE pc[p] # "link4"
    <3>1. Linking' = {p}
      BY <2>2, <1>p, <1>s DEF Linking, Sealed
    <3>2. Base' = local'[p].aux
      BY <3>1 DEF Base
    <3> QED BY <2>1, <2>2, <3>2, <1>u, <1>r DEF IInv, RingClosed
  <2>3. CASE pc[p] = "link4"
    <3>1. Linking' = {}
      BY <2>3, <1>p, <1>s DEF Linking, Sealed
    <3>2. Base' = last'
      BY <3>1 DEF Base
    <3> QED BY <2>1, <2>3, <3>2, <1>u, <1>f, <1>r DEF IInv, RingClosed
  <2> QED BY <2>1, <2>2, <2>3
<1> HIDE DEF n, aux
<1>c. Closes(Ring, next) /\ next \in [Node -> Node] /\ next' \in [Node -> Node]
         /\ next[aux] = Ring[1]
  BY <1>b, <1>r DEF IInv, RingClosed, TypeOK, Closes
<1>1. /\ RingClosed'
      /\ pc[p] # "link4" => Ring' = Ring
      /\ pc[p] = "link4" => Ring' = Append(Ring, n)
  <2>1. CASE pc[p] = "link2" \/ pc[p] = "link3"
    <3>1. Closes(Ring, next')
      <4>1. CASE pc[p] = "link2"
        BY <4>1, <1>u, <1>c
      <4>2. CASE pc[p] = "link3"
        <5>1. next' = [next EXCEPT ![n] = next[aux]]
          BY <4>2, <1>u
        <5> QED BY <5>1, <1>c, <1>n, OthersClose
      <4> QED BY <2>1, <4>1, <4>2
    <3> QED BY <2>1, <3>1, <1>b, <1>c, RingStays
  <2>2. CASE pc[p] = "link4"
    <3>1. next' = [next EXCEPT ![Ring[Len(Ring)]] = n] /\ next[n] = Ring[1]
      BY <2>2, <1>u, <1>b, <1>c, <1>f
    <3>2. /\ Closes(Append(Ring, n), next') /\ Append(Ring, n) # <<>>
          /\ Append(Ring, n)[Len(Append(Ring, n))] = n
      <4>1. \A k \in 1..Len(Ring) : Ring[k] # n
        BY <1>n
      <4>2. n \in Node /\ Ring # <<>> /\ Closes(Ring, next) /\ next \in [Node -> Node]
        BY <1>n, <1>r, <1>c
      <4>3. next[n] = Ring[1]
        BY <3>1
      <4>4. Closes(Append(Ring, n), [next EXCEPT ![Ring[Len(Ring)]] = n])
        BY <4>1, <4>2, <4>3, AppendCloses
      <4>5. Append(Ring, n)[Len(Append(Ring, n))] = n
        BY <4>1, <4>2, <4>3, AppendCloses
      <4>6. Append(Ring, n) # <<>>
        BY <4>1, <4>2, <4>3, AppendCloses
      <4> QED BY <3>1, <4>4, <4>5, <4>6
    <3>3. Ring' = Append(Ring, n) /\ RingClosed'
      BY <2>2, <3>2, <1>b, <1>c, RingIs
    <3> QED BY <2>2, <3>3
  <2> QED BY <2>1, <2>2, <1>p
<1>2. /\ \A k \in 1..Len(Ring) : Ring'[k] = Ring[k] /\ Entry(k)' = Entry(k) /\ k \in 1..Len(Ring')
      /\ \A k \in 1..Len(Ring') : \/ k \in 1..Len(Ring)
                                  \/ /\ pc[p] = "link4" /\ k = Len(Ring) + 1
                                     /\ Ring'[k] = n /\ Entry(k)' = local[p].newPCB
                                           /\ ~(k \in 1..Len(Ring))
      /\ pc[p] = "link4" => Len(Ring) + 1 \in 1..Len(Ring') /\ Ring'[Len(Ring) + 1] = n
      /\ Ring' # <<>>
  <2>1. CASE pc[p] # "link4"
    BY <2>1, <1>1, <1>r, <1>u DEF Entry
  <2>2. CASE pc[p] = "link4"
    <3>1. /\ Len(Ring') = Len(Ring) + 1 /\ Ring'[Len(Ring) + 1] = n
          /\ \A k \in 1..Len(Ring) : Ring'[k] = Ring[k]
          /\ Ring' # <<>>
      BY <2>2, <1>1, <1>r, <1>n
    <3>2. /\ \A k \in 1..Len(Ring) : Entry(k)' = Entry(k)
          /\ \A k : k = Len(Ring) + 1 => Entry(k)' = local[p].newPCB
      BY <3>1, <1>u, <1>f DEF Entry
    <3> QED BY <2>2, <3>1, <3>2, <1>r
  <2> QED BY <2>1, <2>2
<1>h. pc[p] = "link4" /\ local[p].newPCB \in PCB =>
         LET child == local[p].newPCB IN
         /\ child \in occupied /\ stack[child] = pid[child] /\ pc[pid[child]] = "user"
         /\ \A k \in 1..Len(Ring) : Entry(k) # child
  BY DEF IInv, ChildReady, HasChild
<1>3. Alone'
  <2>1. pc[p] \in Inside
    BY <1>p DEF Inside, CreatePoints
  <2> QED BY <2>1, <1>u, <1>o DEF IInv, Alone
<1>4. PidsLast'
  <2>1. Creators' = Creators
    BY <1>p DEF Creators
  <2> QED BY <2>1, <1>u DEF IInv, PidsLast
<1>5. Undisturbed' /\ ExitAtHead'
  BY <1>s, <1>p, <1>u DEF Undisturbed, ExitAtHead, Sealed
<1>6. OwnPid'
  BY <1>u, <1>p, <1>r DEF IInv, OwnPid, Pid
<1>7. NodesUsed'
  <2>1. \A q \in Building : q = p
    BY <1>o DEF Building, Inside, CreatePoints
  <2>2. \A q \in Building' : q = p
    BY <1>o DEF Building, Inside, CreatePoints
  <2>3. \A m \in Node : (\E k \in 1..Len(Ring) : Ring[k] = m) <=> m \in usedNodes /\ n # m
    BY <2>1, <1>n DEF IInv, NodesUsed, n
  <2>4. n \in usedNodes
    BY <1>n DEF IInv, NodesUsed, n
  <2>5. CASE pc[p] # "link4"
    <3>1. Building' = {p}
      BY <2>2, <2>5, <1>p DEF Building
    <3> QED BY <2>3, <2>4, <3>1, <2>5, <1>1, <1>u DEF NodesUsed, n
  <2>6. CASE pc[p] = "link4"
    <3>1. Building' = {}
      BY <2>2, <2>6, <1>p DEF Building
    <3>2. \A m \in Node : (\E k \in 1..Len(Ring') : Ring'[k] = m) <=> m \in usedNodes
      BY <2>3, <2>4, <2>6, <1>2
    <3> QED BY <3>1, <3>2, <1>u DEF NodesUsed
  <2> QED BY <2>5, <2>6
<1>8. EntriesTaken'
  <2> SUFFICES ASSUME NEW j \in 1..Len(Ring'), NEW k \in 1..Len(Ring'), Entry(j)' \in PCB
               PROVE  Entry(j)' \in occupied' /\ (Entry(j)' = Entry(k)' => j = k)
    BY DEF EntriesTaken
  <2>1. \A i, m \in 1..Len(Ring) : Entry(i) \in PCB
           => Entry(i) \in occupied /\ (Entry(i) = Entry(m) => i = m)
    BY DEF IInv, EntriesTaken
  <2> QED BY <2>1, <1>2, <1>h, <1>u
<1>9. HeadRuns'
  <2>1. /\ cpu \in Pid => Entry(1) \in PCB /\ cpu = pid[Entry(1)]
        /\ \A k \in 1..Len(Ring) : Entry(k) \in PCB /\ ~(k = 1 /\ cpu \in Pid)
              => stack[Entry(k)] = pid[Entry(k)]
    BY DEF IInv, HeadRuns
  <2>2. \A k \in 1..Len(Ring') : Entry(k)' \in PCB /\ ~(k = 1 /\ cpu \in Pid)
           => stack[Entry(k)'] = pid[Entry(k)']
    BY <2>1, <1>2, <1>h
  <2> QED BY <2>1, <2>2, <1>2, <1>u, <1>r DEF HeadRuns
<1>10. KernelLeft'
  BY <1>2, <1>r, <1>u DEF IInv, KernelLeft
<1>11. ChildReady'
  <2> SUFFICES ASSUME NEW q \in Pid, HasChild(q)', local'[q].newPCB \in PCB
               PROVE  LET child == local'[q].newPCB IN
                      /\ child \in occupied' /\ stack'[child] = pid'[child]
                            /\ pc'[pid'[child]] = "user"
                      /\ \A k \in 1..Len(Ring') : Entry(k)' # child
    BY DEF ChildReady
  <2>2. q = p
    BY <1>o DEF HasChild, Inside, CreatePoints
  <2> DEFINE child == local[p].newPCB
  <2>3. HasChild(p) /\ local'[q].newPCB = child /\ child \in PCB /\ pc[p] # "link4"
    BY <2>2, <1>p, <1>u DEF HasChild
  <2>4. /\ child \in occupied /\ stack[child] = pid[child] /\ pc[pid[child]] = "user"
              /\ pid[child] # p
        /\ \A k \in 1..Len(Ring) : Entry(k) # child
    BY <2>3, <1>r DEF IInv, ChildReady
  <2>5. pc'[pid[child]] = "user"
    <3>1. pid[child] \in Pid
      <4>1. pid[child] \in 1..(nextPid - 1) /\ nextPid \in 1..(MaxPid + 1)
        BY <2>4 DEF IInv, OwnPid, TypeOK
      <4> QED BY <4>1, MaxPidAssumption DEF Pid
    <3> QED BY <2>4, <3>1, <1>p
  <2> QED BY <2>3, <2>4, <2>5, <1>1, <1>2, <1>u
<1>12. NoChildYet' /\ WalkInside'
  <2>1. NoChildYet'
    BY <1>p, <1>u DEF IInv, NoChildYet
  <2>2. WalkInside'
    BY <1>p, <1>u DEF IInv, WalkInside
  <2> QED BY <2>1, <2>2
<1>13. ExitedFinished'
  <2> SUFFICES ASSUME NEW q \in Pid, pc'[q] = "exited"
               PROVE  cpu' # q /\ \A k \in 1..Len(Ring') : Entry(k)' \in PCB
                         /\ pid'[Entry(k)'] = q => state'[Ring'[k]] = "FINISHED"
    BY DEF ExitedFinished
  <2>1. pc[q] = "exited"
    BY <1>p
  <2>2. cpu # q /\ \A k \in 1..Len(Ring) : Entry(k) \in PCB /\ pid[Entry(k)] = q
           => state[Ring[k]] = "FINISHED"
    BY <2>1 DEF IInv, ExitedFinished
  <2> QED BY <2>1, <2>2, <1>2, <1>h, <1>u
<1>14. NodeFilled'
  <2> SUFFICES ASSUME NEW q \in Pid, pc'[q] \in {"link2", "link3", "link4"}
               PROVE  LET node == local'[q].newNode IN
                      /\ PCBIndex'[node] = local'[q].newPCB /\ state'[node] = "RUNNING"
                            /\ local'[q].aux \in Node
                      /\ pc'[q] = "link2" => next'[node] = node /\ local'[q].aux = last'
                      /\ pc'[q] \in {"link3", "link4"} => last' = node
                      /\ pc'[q] = "link4" => next'[node] = next'[local'[q].aux]
    BY DEF NodeFilled
  <2>1. q = p
    BY <1>s DEF Sealed
  <2>2. aux # n
    BY <1>b, <1>n, <1>r
  <2>3. pc[p] = "link3" => next'[n] = next'[aux]
    <3> SUFFICES ASSUME pc[p] = "link3" PROVE next'[n] = next'[aux]
      OBVIOUS
    <3>1. next' = [next EXCEPT ![n] = next[aux]]
      BY <1>u
    <3> QED BY <2>2, <3>1, <1>n, <1>c
  <2> QED BY <2>1, <2>3, <1>p, <1>f, <1>u DEF n, aux
<1> QED BY <1>1, <1>3, <1>4, <1>5, <1>6, <1>7, <1>8, <1>9, <1>10, <1>11, <1>12, <1>13, <1>14, <1>u
           DEF IInv, n

-----------------------------------------------------------------------------
(* kernel_main leaves the scheduler with init.d in a ring of its own.      *)
LEMMA InitInv == Init => IInv
<1> SUFFICES ASSUME Init PROVE IInv
  OBVIOUS
<1>0. 0 \in Node /\ 0 \in PCB /\ 1 \in Pid /\ NULL \notin Node /\ Kernel \notin Pid /\ Node = PCB
  BY MaxProcessesAssumption, MaxPidAssumption DEF Node, PCB, Pid, NULL, Kernel
<1>1. /\ usedNodes = {0} /\ last = 0 /\ firstIteration = TRUE
      /\ PCBIndex = [n \in Node |-> 0]
      /\ state = [n \in Node |-> "RUNNING"]
      /\ next = [n \in Node |-> n]
      /\ occupied = {0} /\ nextPid = 2
      /\ pid = [i \in PCB |-> IF i = 0 THEN 1 ELSE 0]
      /\ stack = [i \in PCB |-> IF i = 0 THEN 1 ELSE NoStack]
      /\ createProcessMutex = 0
      /\ cpu = Kernel
      /\ pc = [p \in Pid |-> "user"]
      /\ local = [p \in Pid |-> NoLocals]
  BY DEF Init
<1>t. TypeOK
  <2>1. StaticsOK
    BY <1>0, <1>1, MaxPidAssumption DEF StaticsOK
  <2>2. StateOK
    BY <1>1 DEF StateOK
  <2>3. ThreadsOK
    BY <1>1, NoLocalsAre DEF ThreadsOK, Point
  <2> QED BY <2>1, <2>2, <2>3, TypeParts
<1>p. \A p \in Pid : pc[p] = "user" /\ local[p].newPCB = BadPCB
  BY <1>1 DEF NoLocals
<1>2. Ring = <<0>> /\ RingClosed
  <2>1. Base = 0
    BY <1>p, <1>1 DEF Base, Linking
  <2>2. Closes(<<0>>, next) /\ <<0>> # <<>> /\ <<0>>[Len(<<0>>)] = 0
    BY <1>0, <1>1 DEF Closes
  <2>3. RingFrom(next, 0) = <<0>>
    <3>1. next \in [Node -> Node]
      BY <1>1
    <3> QED BY <2>2, <3>1, RingUnique
  <2> QED BY <2>1, <2>2, <2>3, <1>0 DEF Ring, RingClosed
<1>3. Len(Ring) = 1 /\ Ring[1] = 0 /\ Ring # <<>> /\ Entry(1) = 0
  BY <1>0, <1>1, <1>2 DEF Entry
<1>4. Alone /\ Undisturbed /\ ExitAtHead /\ NodeFilled /\ NoChildYet /\ WalkInside
         /\ ChildReady /\ ExitedFinished
  BY <1>p
     DEF Alone, Inside, CreatePoints, Undisturbed, Sealed, ExitAtHead, NodeFilled,
         NoChildYet, WalkInside, ChildReady, HasChild, ExitedFinished
<1>5. OwnPid
  BY <1>p, <1>1, <1>0 DEF OwnPid
<1>6. PidsLast
  <2>1. Creators = {}
    BY <1>p DEF Creators
  <2>2. Cardinality({}) = 0
    BY FS_EmptySet
  <2> QED BY <2>1, <2>2, <1>1, MaxPidAssumption DEF PidsLast
<1>7. NodesUsed
  <2>1. Building = {}
    BY <1>p DEF Building
  <2> QED BY <2>1, <1>3, <1>1 DEF NodesUsed
<1>8. EntriesTaken
  BY <1>3, <1>1 DEF EntriesTaken
<1>9. HeadRuns
  BY <1>3, <1>1, <1>0 DEF HeadRuns
<1>10. KernelLeft
  BY <1>3, <1>1 DEF KernelLeft
<1> QED BY <1>t, <1>2, <1>4, <1>5, <1>6, <1>7, <1>8, <1>9, <1>10 DEF IInv

(* Nothing changes when nothing changes.                                   *)
LEMMA IdleInv == IInv /\ UNCHANGED vars => IInv'
<1> SUFFICES ASSUME IInv, UNCHANGED vars PROVE IInv'
  OBVIOUS
<1>1. /\ UNCHANGED <<usedNodes, last, firstIteration, PCBIndex, state, next>>
      /\ UNCHANGED <<occupied, pid, stack, nextPid, createProcessMutex, cpu, pc, local>>
  BY DEF vars, nodes, pcbs, threads
<1>2. Ring' = Ring /\ Base' = Base
  BY <1>1 DEF Ring, Base, Linking
<1>3. TypeOK' /\ Alone' /\ Undisturbed' /\ OwnPid' /\ PidsLast'
  BY <1>1 DEF IInv, TypeOK, Alone, Undisturbed, OwnPid, PidsLast, Creators
<1>4. RingClosed' /\ NodesUsed' /\ EntriesTaken' /\ ChildReady'
  BY <1>1, <1>2 DEF IInv, RingClosed, NodesUsed, Building, EntriesTaken, Entry, ChildReady, HasChild
<1>5. NoChildYet' /\ WalkInside' /\ NodeFilled' /\ ExitAtHead'
  BY <1>1 DEF IInv, NoChildYet, WalkInside, NodeFilled, ExitAtHead
<1>6. HeadRuns' /\ ExitedFinished' /\ KernelLeft'
  BY <1>1, <1>2 DEF IInv, HeadRuns, Entry, ExitedFinished, KernelLeft
<1> QED BY <1>3, <1>4, <1>5, <1>6 DEF IInv

(* Every step keeps the inductive invariant.                               *)
LEMMA NextInv == IInv /\ TicksSpareLists /\ Next => IInv'
<1> SUFFICES ASSUME IInv, TicksSpareLists, Next PROVE IInv'
  OBVIOUS
<1>t. TypeOK'
  BY TypeInv
<1>1. CASE FirstTick
  BY <1>1, <1>t, SwitchSteps
<1>2. CASE Reap
  BY <1>2, <1>t, ReapStep
<1>3. CASE Dispatch
  BY <1>3, <1>t, DispatchStep
<1>4. CASE finishKernel
  BY <1>4, IdleInv DEF finishKernel
<1>5. ASSUME NEW p \in Pid, Tick(p) \/ Yield(p) \/ LockBusy(p) \/ Exit2(p) \/ WalkFound(p)
      PROVE IInv'
  BY <1>5, <1>t, SwitchSteps
<1>6. ASSUME NEW p \in Pid,
         \/ CallCreate(p) \/ CallExit(p) \/ \E target \in Waited : CallWait(p, target)
         \/ Lock(p) \/ (getFreeNode(p) /\ usedNodes = Node) \/ GetPID(p) \/ Unlock(p)
         \/ Wait2(p) \/ Walk1(p) \/ Walk2(p) \/ Walk3(p) \/ WaitReturn(p)
      PROVE IInv'
  BY <1>6, <1>t, LocalSteps
<1>7. ASSUME NEW p \in Pid, getFreeNode(p), usedNodes # Node PROVE IInv'
  BY <1>7, <1>t, GetNodeStep
<1>8. ASSUME NEW p \in Pid, createProcess(p) \/ createProcessFails(p) PROVE IInv'
  BY <1>8, <1>t, CreateStep
<1>9. ASSUME NEW p \in Pid, FillNode(p) PROVE IInv'
  BY <1>9, <1>t, FillStep
<1>10. ASSUME NEW p \in Pid, Link2(p) \/ Link3(p) \/ Link4(p) PROVE IInv'
  BY <1>10, <1>t, LinkStep
<1>11. ASSUME NEW p \in Pid, Tick(p) \/ SystemCall(p) \/ User(p) PROVE IInv'
  BY <1>11, <1>5, <1>6, <1>7, <1>8, <1>9, <1>10 DEF SystemCall, User, Create, Wait
<1> QED BY <1>1, <1>2, <1>3, <1>4, <1>11 DEF Next, Interrupt

(* For every number of processes and pids, whatever fails in               *)
(* createProcess, and wherever ticks come but in the windows of            *)
(* enqueueProcess and finishProcess, the list and the two tables are as    *)
(* IInv says.                                                              *)
THEOREM SchedulerInvariant ==
  ASSUME TicksSpareLists
  PROVE  Spec => []IInv
<1>1. Init => IInv
  BY InitInv
<1>2. IInv /\ [Next]_vars => IInv'
  BY NextInv, IdleInv
<1> QED BY <1>1, <1>2, PTL DEF Spec

(* No node is lost: for any number of processes, and whatever fails in     *)
(* createProcess, the circular list closes and goes through every used     *)
(* node but one being built, if no tick comes between the stores of        *)
(* enqueueProcess or of finishProcess (scheduler.c:205-296).               *)
THEOREM RingIsComplete ==
  ASSUME TicksSpareLists
  PROVE  Spec => []RingComplete
<1>1. IInv => RingComplete
  <2> SUFFICES ASSUME IInv PROVE RingComplete
    OBVIOUS
  <2>1. {Ring[k] : k \in 1..Len(Ring)} = usedNodes \ {local[p].newNode : p \in Building}
    <3>1. \A k \in 1..Len(Ring) : Ring[k] \in Node
      BY DEF IInv, RingClosed, Closes
    <3>2. usedNodes \subseteq Node
      BY DEF IInv, TypeOK
    <3> QED BY <3>1, <3>2 DEF IInv, NodesUsed
  <2>2. Ring # <<>> => Ring[Len(Ring)] = Base
    BY DEF IInv, RingClosed
  <2> QED BY <2>1, <2>2 DEF RingComplete
<1>2. Spec => []IInv
  BY SchedulerInvariant
<1> QED BY <1>1, <1>2, PTL

(* nextProcess resumes the right process at the right place, its own       *)
(* stack, and never one that called EXIT, if no tick comes between the     *)
(* stores of enqueueProcess, nor between reading last and marking the node *)
(* after it in finishProcess (scheduler.c:165-182, 205-215): such a tick   *)
(* marks another process and lets the one that called EXIT come back.      *)
THEOREM TheRightProcessRuns ==
  ASSUME TicksSpareLists
  PROVE  Spec => []RightProcessRuns
<1>1. IInv => RightProcessRuns
  <2> SUFFICES ASSUME IInv PROVE RightProcessRuns
    OBVIOUS
  <2>1. ExitDoesNotReturn
    BY DEF IInv, ExitedFinished, ExitDoesNotReturn
  <2>2. OnOwnStack
    BY DEF IInv, HeadRuns, OnOwnStack, Entry, QueuedAt, getProcessPID, getProcessStack
  <2> QED BY <2>1, <2>2 DEF RightProcessRuns
<1>2. Spec => []IInv
  BY SchedulerInvariant
<1> QED BY <1>1, <1>2, PTL

-----------------------------------------------------------------------------
(* Where createProcess does not fail half way (it leaves its entry taken   *)
(* then, and a node with no entry in the ring), every entry taken has its  *)
(* process in the ring or being built.                                     *)
EntriesOwned ==
    /\ \A k \in 1..Len(Ring) : Entry(k) \in PCB
    /\ \A p \in Pid : HasChild(p) => local[p].newPCB \in PCB
    /\ \A i \in occupied : \/ \E k \in 1..Len(Ring) : Entry(k) = i
                           \/ \E p \in Pid : HasChild(p) /\ local[p].newPCB = i

(* There are m numbers from 1 to m.                                        *)
LEMMA CountTo == \A m \in Nat : IsFiniteSet(1..m) /\ Cardinality(1..m) = m
BY FS_Interval

(* Whoever has a free node finds a free entry: there are as many of these  *)
(* as of those, and the ring's processes have one of each.                 *)
LEMMA RoomForOne ==
  ASSUME IInv, EntriesOwned, NEW p \in Pid, pc[p] = "createProcess"
  PROVE  occupied # PCB
<1>1. /\ Ring \in Seq(Node) /\ Len(Ring) \in Nat
      /\ \A j, k \in 1..Len(Ring) : Ring[j] = Ring[k] => j = k
  BY DEF IInv, RingClosed, Closes
<1>2. IsFiniteSet(Node) /\ Cardinality(Node) = MaxProcesses /\ PCB = Node
  BY FS_Interval, MaxProcessesAssumption DEF Node, PCB
<1>3. PICK n \in Node : \A k \in 1..Len(Ring) : Ring[k] # n
  <2>1. p \in Building
    BY DEF Building
  <2>2. local[p].newNode \in Node
    BY <2>1 DEF IInv, NodesUsed, TypeOK
  <2>3. \A k \in 1..Len(Ring) : Ring[k] # local[p].newNode
    BY <2>1, <2>2 DEF IInv, NodesUsed
  <2> QED BY <2>2, <2>3
<1>4. Len(Ring) <= MaxProcesses - 1
  <2>1. IsFiniteSet(Node \ {n}) /\ Cardinality(Node \ {n}) = MaxProcesses - 1
    BY <1>2, <1>3, FS_RemoveElement
  <2>2. Ring \in [1..Len(Ring) -> Node \ {n}]
    BY <1>1, <1>3
  <2>3. Ring \in Injection(1..Len(Ring), Node \ {n})
    BY <1>1, <2>2 DEF Injection, IsInjective
  <2>4. Cardinality(1..Len(Ring)) = Len(Ring) /\ IsFiniteSet(1..Len(Ring))
    BY <1>1, CountTo
  <2> QED BY <2>1, <2>3, <2>4, FS_Injection
<1>5. SUFFICES ASSUME occupied = PCB PROVE FALSE
  OBVIOUS
<1>6. \A i \in PCB : \E k \in 1..Len(Ring) : Entry(k) = i
  <2>1. \A q \in Pid : ~HasChild(q)
    BY DEF IInv, Alone, HasChild, Inside, CreatePoints
  <2> QED BY <1>5, <2>1 DEF EntriesOwned
<1> DEFINE entry == [k \in 1..Len(Ring) |-> Entry(k)]
<1>7. entry \in Surjection(1..Len(Ring), PCB)
  <2>1. entry \in [1..Len(Ring) -> PCB]
    BY DEF EntriesOwned
  <2>2. \A i \in PCB : \E k \in 1..Len(Ring) : entry[k] = i
    BY <1>6
  <2> QED BY <2>1, <2>2 DEF Surjection
<1>8. Cardinality(PCB) <= Cardinality(1..Len(Ring))
  <2>1. IsFiniteSet(1..Len(Ring))
    BY <1>1, CountTo
  <2> HIDE DEF entry
  <2> QED BY <2>1, <1>7, FS_Surjection
<1>9. Cardinality(1..Len(Ring)) = Len(Ring)
  BY <1>1, CountTo
<1> QED BY <1>1, <1>2, <1>4, <1>8, <1>9, MaxProcessesAssumption

(* The ring, its processes and which of them have finished stay as they    *)
(* are.                                                                    *)
Settled ==
    /\ Ring' = Ring
    /\ \A k \in 1..Len(Ring) : /\ Entry(k)' = Entry(k) /\ state'[Ring[k]] = state[Ring[k]]
                               /\ Entry(k) \in PCB => pid'[Entry(k)] = pid[Entry(k)]

(* The steps other than switches, removals and the last store of           *)
(* enqueueProcess leave the queue of processes as it is.                   *)
LEMMA Settles ==
  ASSUME IInv, TypeOK', NEW p \in Pid,
         \/ Dispatch \/ UNCHANGED vars
         \/ CallCreate(p) \/ CallExit(p) \/ \E target \in Waited : CallWait(p, target)
         \/ Lock(p) \/ getFreeNode(p) \/ GetPID(p) \/ Unlock(p)
         \/ Wait2(p) \/ Walk1(p) \/ Walk2(p) \/ Walk3(p) \/ WaitReturn(p)
         \/ createProcess(p) \/ createProcessFails(p)
         \/ FillNode(p) \/ Link2(p) \/ Link3(p)
  PROVE  Settled
<1>1. CASE \/ CallCreate(p) \/ CallExit(p) \/ \E target \in Waited : CallWait(p, target)
           \/ Lock(p) \/ (getFreeNode(p) /\ usedNodes = Node) \/ GetPID(p) \/ Unlock(p)
           \/ Wait2(p) \/ Walk1(p) \/ Walk2(p) \/ Walk3(p) \/ WaitReturn(p)
  <2>1. Ring' = Ring
    BY <1>1, LocalSteps
  <2>2. UNCHANGED <<PCBIndex, state, pid>>
    BY <1>1
       DEF CallCreate, CallExit, CallWait, Lock, getFreeNode, GetPID, Unlock, Wait2, Walk1,
           Walk2, Walk3, WaitReturn, Unmoved, nodes, pcbs
  <2> QED BY <2>1, <2>2 DEF Settled, Entry
<1>2. CASE getFreeNode(p) /\ usedNodes # Node
  <2>1. Ring' = Ring
    BY <1>2, GetNodeStep
  <2>2. UNCHANGED <<PCBIndex, state, pid>>
    BY <1>2 DEF getFreeNode, pcbs
  <2> QED BY <2>1, <2>2 DEF Settled, Entry
<1>3. CASE Dispatch
  <2>1. Ring' = Ring
    BY <1>3, DispatchStep
  <2>2. UNCHANGED <<PCBIndex, state, pid>>
    BY <1>3 DEF Dispatch, nodes, pcbs
  <2> QED BY <2>1, <2>2 DEF Settled, Entry
<1>4. CASE UNCHANGED vars
  <2>1. UNCHANGED <<last, next, PCBIndex, state, pid, pc, local>>
    BY <1>4 DEF vars, nodes, pcbs, threads
  <2>2. Ring' = Ring
    BY <2>1 DEF Ring, Base, Linking
  <2> QED BY <2>1, <2>2 DEF Settled, Entry
<1>5. CASE createProcess(p) \/ createProcessFails(p)
  <2>1. Ring' = Ring
    BY <1>5, CreateStep
  <2>2. UNCHANGED <<PCBIndex, state>>
    BY <1>5 DEF createProcess, createProcessFails, nodes
  <2>3. \A i \in occupied : pid'[i] = pid[i]
    <3>1. PCB \ occupied \in SUBSET Nat /\ occupied \subseteq PCB /\ (occupied # PCB
             => PCB \ occupied # {})
      BY NodesAreNat DEF IInv, TypeOK
    <3>2. occupied # PCB => Lowest(PCB \ occupied) \notin occupied
      BY <3>1, LowestFree
    <3> QED BY <1>5, <3>1, <3>2 DEF createProcess, createProcessFails, IInv, TypeOK
  <2>4. \A k \in 1..Len(Ring) : Entry(k) \in PCB => Entry(k) \in occupied
    BY DEF IInv, EntriesTaken
  <2> QED BY <2>1, <2>2, <2>3, <2>4 DEF Settled, Entry
<1>6. CASE FillNode(p)
  <2>1. Ring' = Ring
    BY <1>6, FillStep
  <2>2. /\ PCBIndex' = [PCBIndex EXCEPT ![local[p].newNode] = local[p].newPCB]
        /\ state' = [state EXCEPT ![local[p].newNode] = "RUNNING"] /\ UNCHANGED pid
    BY <1>6 DEF FillNode, pcbs
  <2>3. \A k \in 1..Len(Ring) : Ring[k] # local[p].newNode /\ Ring[k] \in Node
    <3>1. p \in Building
      BY <1>6 DEF FillNode, At, Building
    <3>2. \A k \in 1..Len(Ring) : Ring[k] \in Node
      BY DEF IInv, RingClosed, Closes
    <3> QED BY <3>1, <3>2 DEF IInv, NodesUsed
  <2>4. \A k \in 1..Len(Ring) : PCBIndex'[Ring[k]] = PCBIndex[Ring[k]]
           /\ state'[Ring[k]] = state[Ring[k]]
    BY <2>2, <2>3 DEF IInv, TypeOK
  <2> QED BY <2>1, <2>2, <2>4 DEF Settled, Entry
<1>7. CASE Link2(p) \/ Link3(p)
  <2>1. ~Link4(p)
    BY <1>7 DEF Link2, Link3, Link4, At
  <2>2. Ring' = Ring
    BY <1>7, <2>1, LinkStep
  <2>3. UNCHANGED <<PCBIndex, state, pid>>
    BY <1>7 DEF Link2, Link3, pcbs
  <2> QED BY <2>2, <2>3 DEF Settled, Entry
<1> QED BY <1>1, <1>2, <1>3, <1>4, <1>5, <1>6, <1>7

(* A step that leaves the entries and their owners leaves them owned.      *)
LEMMA OwnedStays ==
  ASSUME EntriesOwned, Settled, occupied' = occupied,
         \A p \in Pid : /\ HasChild(p)' <=> HasChild(p)
                        /\ HasChild(p) => local'[p].newPCB = local[p].newPCB
  PROVE  EntriesOwned'
BY DEF EntriesOwned, Settled

(* Every step keeps the entries owned.                                     *)
LEMMA OwnedStep ==
  ASSUME IInv, IInv', EntriesOwned, TicksSpareLists, Next, ~CreateMayFail
  PROVE  EntriesOwned'
<1>t. /\ pc \in [Pid -> Point] /\ local \in [Pid -> Locals] /\ TypeOK /\ TypeOK'
      /\ pc' \in [Pid -> Point] /\ local' \in [Pid -> Locals] /\ Pid # {}
  <2>1. TypeOK /\ TypeOK'
    BY DEF IInv
  <2>2. ThreadsOK /\ ThreadsOK'
    BY <2>1, TypeParts
  <2>3. 1 \in Pid
    BY MaxPidAssumption DEF Pid
  <2> QED BY <2>1, <2>2, <2>3 DEF ThreadsOK
<1>r. /\ Ring \in Seq(Node) /\ Len(Ring) \in Nat
      /\ Ring # <<>> => 1 \in 1..Len(Ring)
  BY DEF IInv, RingClosed, Closes
<1>1. ASSUME NEW p \in Pid,
         \/ Dispatch \/ UNCHANGED vars
         \/ CallCreate(p) \/ CallExit(p) \/ \E target \in Waited : CallWait(p, target)
         \/ Lock(p) \/ getFreeNode(p) \/ GetPID(p) \/ Unlock(p)
         \/ Wait2(p) \/ Walk1(p) \/ Walk2(p) \/ Walk3(p) \/ WaitReturn(p)
         \/ FillNode(p) \/ Link2(p) \/ Link3(p)
      PROVE EntriesOwned'
  <2>1. Settled
    BY <1>1, <1>t, Settles
  <2>2. occupied' = occupied
    BY <1>1
       DEF Dispatch, vars, CallCreate, CallExit, CallWait, Lock, getFreeNode, GetPID,
           Unlock, Wait2, Walk1, Walk2, Walk3, WaitReturn, FillNode, Link2, Link3, Unmoved,
           nodes, pcbs
  <2>3. ASSUME NEW q \in Pid PROVE /\ HasChild(q)' <=> HasChild(q)
                                   /\ HasChild(q) => local'[q].newPCB = local[q].newPCB
    <3>1. CASE \/ Dispatch \/ UNCHANGED vars
      BY <3>1 DEF Dispatch, vars, threads, HasChild
    <3>2. CASE \/ CallCreate(p) \/ CallExit(p) \/ \E target \in Waited : CallWait(p, target)
               \/ Lock(p) \/ getFreeNode(p) \/ GetPID(p) \/ Unlock(p)
               \/ Wait2(p) \/ Walk1(p) \/ Walk2(p) \/ Walk3(p) \/ WaitReturn(p)
      <4>1. pc[p] \notin {"fill", "link2", "link3", "link4"}
               /\ pc'[p] \notin {"fill", "link2", "link3", "link4"}
        BY <3>2, <1>t
           DEF CallCreate, CallExit, CallWait, Lock, getFreeNode, GetPID, Unlock, Wait2,
               Walk1, Walk2, Walk3, WaitReturn, At, Goto, Return
      <4>2. q # p => pc'[q] = pc[q] /\ local'[q] = local[q]
        BY <3>2, <1>t
           DEF CallCreate, CallExit, CallWait, Lock, getFreeNode, GetPID, Unlock, Wait2,
               Walk1, Walk2, Walk3, WaitReturn, At, Goto, Return
      <4> QED BY <4>1, <4>2 DEF HasChild
    <3>3. CASE FillNode(p) \/ Link2(p) \/ Link3(p)
      <4>1. pc[p] \in {"fill", "link2", "link3"} /\ pc'[p] \in {"link2", "link3", "link4"}
        BY <3>3, <1>t DEF FillNode, Link2, Link3, At, Goto
      <4>2. q # p => pc'[q] = pc[q] /\ local'[q] = local[q]
        BY <3>3, <1>t DEF FillNode, Link2, Link3, At, Goto
      <4>3. local'[p].newPCB = local[p].newPCB
        BY <3>3, <1>t DEF FillNode, Link2, Link3, Locals
      <4> QED BY <4>1, <4>2, <4>3 DEF HasChild
    <3> QED BY <1>1, <3>1, <3>2, <3>3
  <2> QED BY <2>1, <2>2, <2>3, OwnedStays
<1>2. ASSUME \/ FirstTick \/ \E p \in Pid : Tick(p) \/ Yield(p) \/ LockBusy(p) \/ Exit2(p) \/ WalkFound(p)
      PROVE  EntriesOwned'
  <2>1. Ring' = Turned(Ring)
    BY <1>2, <1>t, SwitchSteps
  <2>2. UNCHANGED <<PCBIndex, occupied>> /\ cpu' = ISR
    BY <1>2 DEF FirstTick, Tick, Yield, LockBusy, Exit2, WalkFound, SwitchFrom
  <2>3. \A q \in Pid : HasChild(q)' <=> HasChild(q)
    BY <1>2, <1>t
       DEF FirstTick, Tick, Yield, LockBusy, Exit2, WalkFound, threads, HasChild, At, Goto
  <2>4. \A q \in Pid : HasChild(q) => local'[q].newPCB = local[q].newPCB
    BY <1>2, <1>t
       DEF FirstTick, Tick, Yield, LockBusy, Exit2, WalkFound, threads, HasChild, At, Goto
  <2>5. Ring # <<>>
    <3>1. FirstTick => cpu = Kernel /\ firstIteration
      BY DEF FirstTick
    <3>2. ASSUME NEW p \in Pid, Tick(p) \/ Yield(p) \/ LockBusy(p) \/ Exit2(p) \/ WalkFound(p)
          PROVE cpu = p
      BY <3>2 DEF Tick, Yield, LockBusy, Exit2, WalkFound, At
    <3> QED BY <1>2, <3>1, <3>2, RunnerIs DEF IInv, KernelLeft
  <2> DEFINE from(k) == IF k = Len(Ring) THEN 1 ELSE k + 1
  <2>6. /\ Len(Ring') = Len(Ring) /\ \A k \in 1..Len(Ring) : from(k) \in 1..Len(Ring)
              /\ Entry(k)' = Entry(from(k))
    <3>1. /\ Len(Turned(Ring)) = Len(Ring)
          /\ \A k \in 1..Len(Ring) : Turned(Ring)[k] = IF k = Len(Ring) THEN Ring[1] ELSE Ring[k + 1]
      BY <1>r, <2>5, Turns
    <3> QED BY <3>1, <2>1, <2>2, <1>r DEF Entry
  <2>7. \A k \in 1..Len(Ring) : \E j \in 1..Len(Ring) : from(j) = k
    <3> SUFFICES ASSUME NEW k \in 1..Len(Ring) PROVE \E j \in 1..Len(Ring) : from(j) = k
      OBVIOUS
    <3>1. CASE k = 1
      <4>1. Len(Ring) \in 1..Len(Ring) /\ from(Len(Ring)) = 1
        BY <1>r
      <4> QED BY <3>1, <4>1
    <3>2. CASE k # 1
      <4>1. k - 1 \in 1..Len(Ring) /\ from(k - 1) = k
        BY <3>2, <1>r
      <4> QED BY <4>1
    <3> QED BY <3>1, <3>2
  <2> HIDE DEF from
  <2>8. \A k \in 1..Len(Ring') : Entry(k)' \in PCB
    BY <2>6 DEF EntriesOwned
  <2>9. \A q \in Pid : HasChild(q)' => local'[q].newPCB \in PCB
    BY <2>3, <2>4 DEF EntriesOwned
  <2>10. ASSUME NEW i \in occupied'
         PROVE  \/ \E k \in 1..Len(Ring') : Entry(k)' = i
                \/ \E q \in Pid : HasChild(q)' /\ local'[q].newPCB = i
    <3>1. CASE \E q \in Pid : HasChild(q) /\ local[q].newPCB = i
      BY <3>1, <2>3, <2>4
    <3>2. CASE \E k \in 1..Len(Ring) : Entry(k) = i
      <4>1. PICK k \in 1..Len(Ring) : Entry(k) = i
        BY <3>2
      <4>2. PICK j \in 1..Len(Ring) : from(j) = k
        BY <2>7
      <4>3. j \in 1..Len(Ring') /\ Entry(j)' = i
        BY <4>1, <4>2, <2>6
      <4> QED BY <4>3
    <3> QED BY <3>1, <3>2, <2>2 DEF EntriesOwned
  <2> QED BY <2>8, <2>9, <2>10 DEF EntriesOwned
<1>3. CASE Reap
  <2>1. /\ Ring' = Tail(Ring) /\ UNCHANGED <<PCBIndex, pc>>
        /\ \A q \in Pid : local'[q].newPCB = local[q].newPCB
    BY <1>3, <1>t, ReapStep, AstrayLocals DEF Reap
  <2>2. Ring # <<>> /\ 1 \in 1..Len(Ring) /\ Entry(1) = PCBIndex[next[last]]
    <3>1. cpu = ISR /\ ISR # Kernel /\ ISR \notin Pid
      BY <1>3, MaxPidAssumption DEF Reap, ISR, Kernel, Pid
    <3> QED BY <3>1, <1>t, <1>r, HeadIs DEF IInv, Entry
  <2>3. occupied' = occupied \ {Entry(1)}
    BY <1>3, <2>2 DEF Reap, EntriesOwned
  <2>4. Len(Ring') = Len(Ring) - 1 /\ \A k \in 1..Len(Ring') : k + 1 \in 1..Len(Ring)
           /\ Entry(k)' = Entry(k + 1)
    <3>1. /\ Len(Tail(Ring)) = Len(Ring) - 1
          /\ \A k \in 1..Len(Tail(Ring)) : Tail(Ring)[k] = Ring[k + 1]
      BY <1>r, <2>2, HeadTailProperties
    <3> QED BY <3>1, <2>1, <1>r DEF Entry
  <2>5. \A q \in Pid : HasChild(q)' <=> HasChild(q)
    BY <2>1 DEF HasChild
  <2>6. \A k \in 1..Len(Ring') : Entry(k)' \in PCB
    BY <2>4 DEF EntriesOwned
  <2>7. ASSUME NEW i \in occupied'
        PROVE  \/ \E k \in 1..Len(Ring') : Entry(k)' = i
               \/ \E q \in Pid : HasChild(q)' /\ local'[q].newPCB = i
    <3>1. i \in occupied /\ i # Entry(1)
      BY <2>3
    <3>2. CASE \E q \in Pid : HasChild(q) /\ local[q].newPCB = i
      BY <3>2, <2>1, <2>5
    <3>3. CASE \E k \in 1..Len(Ring) : Entry(k) = i
      <4>1. PICK k \in 1..Len(Ring) : Entry(k) = i
        BY <3>3
      <4>2. k - 1 \in 1..Len(Ring') /\ (k - 1) + 1 = k
        BY <3>1, <4>1, <2>4, <1>r
      <4>3. \A j : j = k - 1 => j \in 1..Len(Ring') /\ Entry(j)' = i
        BY <4>1, <4>2, <2>4
      <4> QED BY <4>3
    <3> QED BY <3>1, <3>2, <3>3 DEF EntriesOwned
  <2> QED BY <2>1, <2>5, <2>6, <2>7 DEF EntriesOwned
<1>4. ASSUME NEW p \in Pid, createProcess(p) \/ createProcessFails(p) PROVE EntriesOwned'
  <2>1. pc[p] = "createProcess"
    BY <1>4 DEF createProcess, createProcessFails, At
  <2>2. createProcess(p)
    BY <1>4, <2>1, RoomForOne DEF createProcessFails
  <2>3. Settled
    BY <1>t, <2>2, Settles
  <2> DEFINE i == Lowest(PCB \ occupied)
  <2>4. i \in PCB
    <3>1. PCB \ occupied \in SUBSET Nat /\ PCB \ occupied # {}
      BY <2>1, <1>t, RoomForOne, NodesAreNat DEF TypeOK
    <3> QED BY <3>1, LowestFree
  <2>5. occupied' = occupied \cup {i} /\ pc' = [pc EXCEPT ![p] = "fill"]
           /\ local' = [local EXCEPT ![p].newPCB = i]
    BY <2>2 DEF createProcess, Goto
  <2> HIDE DEF i
  <2>6. pc'[p] = "fill" /\ local'[p].newPCB = i /\ \A q \in Pid : q # p
           => pc'[q] = pc[q] /\ local'[q] = local[q]
    BY <2>5, <1>t DEF Locals
  <2>7. \A q \in Pid : HasChild(q) => q # p
    BY <2>1 DEF HasChild
  <2>8. \A q \in Pid : HasChild(q)' <=> q = p \/ HasChild(q)
    BY <2>6 DEF HasChild
  <2> QED BY <2>3, <2>4, <2>5, <2>6, <2>7, <2>8 DEF EntriesOwned, Settled
<1>5. ASSUME NEW p \in Pid, Link4(p) PROVE EntriesOwned'
  <2>1. Ring' = Append(Ring, local[p].newNode)
    BY <1>5, <1>t, LinkStep
  <2>2. pc[p] = "link4" /\ pc' = [pc EXCEPT ![p] = "getPID"]
           /\ UNCHANGED <<occupied, PCBIndex, local>>
    BY <1>5 DEF Link4, At, Goto, pcbs
  <2>3. PCBIndex[local[p].newNode] = local[p].newPCB /\ HasChild(p) /\ local[p].newPCB \in PCB
    BY <2>2 DEF IInv, NodeFilled, HasChild, EntriesOwned
  <2>4. /\ \A k \in 1..Len(Ring) : k \in 1..Len(Ring') /\ Entry(k)' = Entry(k)
        /\ \A k \in 1..Len(Ring') : k \in 1..Len(Ring) \/ k = Len(Ring) + 1
        /\ \A k : k = Len(Ring) + 1 => k \in 1..Len(Ring') /\ Entry(k)' = local[p].newPCB
    <3>0. local[p].newNode \in Node
      <4>1. p \in Building
        BY <2>2 DEF Building
      <4> QED BY <4>1 DEF IInv, NodesUsed, TypeOK
    <3>1. /\ Len(Ring') = Len(Ring) + 1 /\ Ring'[Len(Ring) + 1] = local[p].newNode
          /\ \A k \in 1..Len(Ring) : Ring'[k] = Ring[k]
      BY <2>1, <1>r, <3>0, AppendProperties
    <3> QED BY <3>1, <2>2, <2>3, <1>r DEF Entry
  <2>5. /\ \A q \in Pid : q # p => (HasChild(q)' <=> HasChild(q))
        /\ ~HasChild(p)'
    BY <2>2, <1>t DEF HasChild
  <2>6. \A k \in 1..Len(Ring') : Entry(k)' \in PCB
    BY <2>3, <2>4 DEF EntriesOwned
  <2>7. ASSUME NEW i \in occupied'
        PROVE  \/ \E k \in 1..Len(Ring') : Entry(k)' = i
               \/ \E q \in Pid : HasChild(q)' /\ local'[q].newPCB = i
    <3>1. CASE \E k \in 1..Len(Ring) : Entry(k) = i
      BY <3>1, <2>4
    <3>2. CASE \E q \in Pid : q # p /\ HasChild(q) /\ local[q].newPCB = i
      BY <3>2, <2>2, <2>5
    <3>3. CASE local[p].newPCB = i
      <4>1. \E k : k = Len(Ring) + 1
        OBVIOUS
      <4> QED BY <3>3, <4>1, <2>4
    <3> QED BY <3>1, <3>2, <3>3, <2>2 DEF EntriesOwned
  <2>8. \A q \in Pid : HasChild(q)' => local'[q].newPCB \in PCB
    BY <2>2, <2>5 DEF EntriesOwned
  <2> QED BY <2>6, <2>7, <2>8 DEF EntriesOwned
<1>6. \E p \in Pid : TRUE
  BY <1>t
<1>7. Dispatch \/ finishKernel => EntriesOwned'
  BY <1>1, <1>6 DEF finishKernel
<1>8. ASSUME NEW p \in Pid, Tick(p) \/ Yield(p) \/ LockBusy(p) \/ Exit2(p) \/ WalkFound(p)
      PROVE EntriesOwned'
  BY <1>8, <1>2
<1>9. ASSUME NEW p \in Pid, Tick(p) \/ SystemCall(p) \/ User(p) PROVE EntriesOwned'
  BY <1>9, <1>1, <1>4, <1>5, <1>8 DEF SystemCall, User, Create, Wait
<1> QED BY <1>2, <1>3, <1>7, <1>9 DEF Next, Interrupt

(* At first the only entry taken is init.d's.                              *)
LEMMA InitOwned == Init => EntriesOwned
<1> SUFFICES ASSUME Init PROVE EntriesOwned
  OBVIOUS
<1>1. IInv
  BY InitInv
<1>2. /\ usedNodes = {0} /\ occupied = {0} /\ 0 \in Node /\ 0 \in PCB
            /\ PCBIndex = [n \in Node |-> 0]
      /\ pc = [p \in Pid |-> "user"]
  BY MaxProcessesAssumption DEF Init, Node, PCB
<1>3. Building = {} /\ \A p \in Pid : ~HasChild(p)
  BY <1>2 DEF Building, HasChild
<1>4. \A k \in 1..Len(Ring) : Ring[k] \in Node /\ Entry(k) = 0
  BY <1>1, <1>2 DEF IInv, RingClosed, Closes, Entry
<1>5. \E k \in 1..Len(Ring) : Ring[k] = 0
  BY <1>1, <1>2, <1>3 DEF IInv, NodesUsed
<1> QED BY <1>2, <1>3, <1>4, <1>5 DEF EntriesOwned

(* A step that changes nothing leaves the entries owned.                   *)
LEMMA OwnedIdle == IInv /\ EntriesOwned /\ UNCHANGED vars => EntriesOwned'
<1> SUFFICES ASSUME IInv, EntriesOwned, UNCHANGED vars PROVE EntriesOwned'
  OBVIOUS
<1>1. TypeOK'
  BY IdleInv DEF IInv
<1>2. 1 \in Pid
  BY MaxPidAssumption DEF Pid
<1>3. Settled
  BY <1>1, <1>2, Settles
<1>4. UNCHANGED <<occupied, pc, local>>
  BY DEF vars, pcbs, threads
<1> QED BY <1>3, <1>4, OwnedStays DEF HasChild

(* No entry of the process table is ever lost, as long as createProcess    *)
(* finds the pages and files it needs.                                     *)
THEOREM EntriesStayOwned ==
  ASSUME TicksSpareLists, ~CreateMayFail
  PROVE  Spec => [](IInv /\ EntriesOwned)
<1>1. Init => IInv /\ EntriesOwned
  BY InitInv, InitOwned
<1>2. IInv /\ EntriesOwned /\ [Next]_vars => IInv' /\ EntriesOwned'
  BY NextInv, IdleInv, OwnedStep, OwnedIdle
<1> QED BY <1>1, <1>2, PTL DEF Spec

(* The tables stay whole: no node and no entry is lost or shared, however  *)
(* processes come and go (scheduler.c:278-331, process.c:100-170), if      *)
(* createProcess does not fail half way and ticks spare the stores of      *)
(* enqueueProcess and finishProcess.                                       *)
THEOREM TablesAreComplete ==
  ASSUME TicksSpareLists, ~CreateMayFail
  PROVE  Spec => []TablesComplete
<1>1. ASSUME IInv, EntriesOwned PROVE OwnPCB
  <2> DEFINE entries == {PCBIndex[Ring[k]] : k \in 1..Len(Ring)}
             entry == [k \in 1..Len(Ring) |-> Entry(k)]
  <2>1. Cardinality(entries) = Len(Ring)
    <3>1. \A j, k \in 1..Len(Ring) : Entry(j) = Entry(k) => j = k
      BY <1>1 DEF IInv, EntriesTaken, EntriesOwned
    <3>2. entry \in [1..Len(Ring) -> entries]
             /\ \A i \in entries : \E k \in 1..Len(Ring) : entry[k] = i
      BY DEF Entry
    <3>3. entry \in Surjection(1..Len(Ring), entries) /\ entry \in Injection(1..Len(Ring), entries)
      BY <3>1, <3>2 DEF Surjection, Injection, IsInjective
    <3>4. Len(Ring) \in Nat
      BY <1>1 DEF IInv, RingClosed, Closes
    <3> HIDE DEF entry, entries
    <3> QED BY <3>3, <3>4, CountTo, FS_Surjection
  <2>2. Building \ {q \in Pid : pc[q] = "createProcess"} = {p \in Pid : HasChild(p)}
    BY DEF Building, HasChild
  <2>3. occupied = entries \cup {local[p].newPCB : p \in {q \in Pid : HasChild(q)}}
    <3>1. \A k \in 1..Len(Ring) : PCBIndex[Ring[k]] \in occupied
      BY <1>1 DEF IInv, EntriesTaken, EntriesOwned, Entry
    <3>2. \A p \in Pid : HasChild(p) => local[p].newPCB \in occupied
      BY <1>1 DEF IInv, ChildReady, EntriesOwned
    <3>3. \A i \in occupied : \/ \E k \in 1..Len(Ring) : PCBIndex[Ring[k]] = i
                              \/ \E p \in Pid : HasChild(p) /\ local[p].newPCB = i
      BY <1>1 DEF EntriesOwned, Entry
    <3> QED BY <3>1, <3>2, <3>3
  <2> QED BY <2>1, <2>2, <2>3 DEF OwnPCB
<1>2. IInv /\ EntriesOwned /\ RingComplete => TablesComplete
  BY <1>1 DEF IInv, TablesComplete
<1> QED BY <1>2, EntriesStayOwned, RingIsComplete, PTL

-----------------------------------------------------------------------------
(* The queue of pids and the set of those finished, element by element.    *)
QueueFacts ==
    /\ Queued \in Seq(Pid) /\ Len(Queued) = Len(Ring) /\ Len(Ring) \in Nat
    /\ \A k \in 1..Len(Ring) : Queued[k] = pid[Entry(k)] /\ pid[Entry(k)] \in Pid
    /\ \A j, k \in 1..Len(Ring) : pid[Entry(j)] = pid[Entry(k)] => j = k
    /\ \A q : q \in Finished
          <=> \E k \in 1..Len(Ring) : state[Ring[k]] = "FINISHED" /\ pid[Entry(k)] = q

(* The invariant gives every node of the ring a pid of its own.            *)
LEMMA QueueHolds == IInv /\ EntriesOwned => QueueFacts
<1> SUFFICES ASSUME IInv, EntriesOwned PROVE QueueFacts
  OBVIOUS
<1>1. Len(Ring) \in Nat
  BY DEF IInv, RingClosed, Closes
<1>2. \A k \in 1..Len(Ring) : QueuedAt(Ring, k) = pid[Entry(k)] /\ Entry(k) \in occupied
  BY DEF EntriesOwned, QueuedAt, getProcessPID, Entry, IInv, EntriesTaken
<1>3. \A i \in occupied : pid[i] \in Pid
  <2> SUFFICES ASSUME NEW i \in occupied PROVE pid[i] \in Pid
    OBVIOUS
  <2>1. pid[i] \in 1..(nextPid - 1) /\ nextPid \in 1..(MaxPid + 1)
    BY DEF IInv, OwnPid, TypeOK
  <2> QED BY <2>1, MaxPidAssumption DEF Pid
<1>4. Queued = [k \in 1..Len(Ring) |-> pid[Entry(k)]]
  BY <1>2 DEF Queued
<1>5. Queued \in Seq(Pid) /\ Len(Queued) = Len(Ring)
  BY <1>1, <1>2, <1>3, <1>4
<1>6. \A j, k \in 1..Len(Ring) : pid[Entry(j)] = pid[Entry(k)] => j = k
  BY <1>2 DEF IInv, OwnPid, EntriesTaken, EntriesOwned
<1>7. \A q : q \in Finished
         <=> \E k \in 1..Len(Ring) : state[Ring[k]] = "FINISHED" /\ pid[Entry(k)] = q
  BY <1>2 DEF Finished
<1>8. \A k \in 1..Len(Ring) : Queued[k] = pid[Entry(k)] /\ pid[Entry(k)] \in Pid
  BY <1>2, <1>3, <1>4
<1> QED BY <1>1, <1>5, <1>6, <1>7, <1>8 DEF QueueFacts

(* The same of the state after a step.                                     *)
LEMMA QueueHoldsNext == IInv' /\ EntriesOwned' => QueueFacts'
BY QueueHolds, PTL

(* Sets with the same elements are equal.                                  *)
LEMMA SameElements == \A S, T : (\A q : q \in S <=> q \in T) => S = T
OBVIOUS

(* A step that leaves the ring settled is a stutter of the queue.          *)
LEMMA SettledStutters ==
  ASSUME IInv, EntriesOwned, IInv', EntriesOwned', Settled
  PROVE  UNCHANGED RR!vars
<1>1. QueueFacts /\ QueueFacts'
  BY QueueHolds, QueueHoldsNext
<1>2. Len(Ring') = Len(Ring)
      /\ \A k \in 1..Len(Ring) : /\ pid'[Entry(k)'] = pid[Entry(k)]
                                 /\ state'[Ring'[k]] = state[Ring[k]]
  BY DEF Settled, EntriesOwned
<1>3. Queued' = Queued
  <2>1. Queued \in Seq(Pid) /\ Queued' \in Seq(Pid) /\ Len(Queued') = Len(Queued)
    BY <1>1, <1>2 DEF QueueFacts
  <2>2. \A k \in 1..Len(Queued) : Queued'[k] = Queued[k]
    BY <1>1, <1>2 DEF QueueFacts
  <2> QED BY <2>1, <2>2, SeqEqual
<1>4. Finished' = Finished
  <2>1. \A q : q \in Finished'
                <=> \E k \in 1..Len(Ring') : state'[Ring'[k]] = "FINISHED" /\ pid'[Entry(k)'] = q
    BY <1>1 DEF QueueFacts
  <2>2. \A q : q \in Finished
                <=> \E k \in 1..Len(Ring) : state[Ring[k]] = "FINISHED" /\ pid[Entry(k)] = q
    BY <1>1 DEF QueueFacts
  <2>3. \A q : q \in Finished' <=> q \in Finished
    BY <2>1, <2>2, <1>2
  <2> QED BY <2>3, SameElements
<1> QED BY <1>3, <1>4 DEF RR!vars

(* Turning the ring sends the head of the queue to the back; and marking   *)
(* the first node, before that, finishes the process at the head.          *)
LEMMA TurnIsToBack ==
  ASSUME IInv, EntriesOwned, IInv', EntriesOwned', Ring # <<>>, Ring' = Turned(Ring),
            UNCHANGED <<PCBIndex, pid>>
  PROVE  /\ RR!ToBack
         /\ state' = state => Finished' = Finished
         /\ state' = [state EXCEPT ![Ring[1]] = "FINISHED"]
               => Finished' = Finished \cup {Head(Queued)}
<1>1. QueueFacts /\ QueueFacts'
  BY QueueHolds, QueueHoldsNext
<1>r. /\ Ring \in Seq(Node) /\ Len(Ring) \in Nat \ {0} /\ 1 \in 1..Len(Ring) /\ Ring[1] \in Node
      /\ \A j, k \in 1..Len(Ring) : Ring[j] = Ring[k] => j = k
      /\ \A k \in 1..Len(Ring) : Ring[k] \in Node
  BY DEF IInv, RingClosed, Closes
<1>2. /\ Len(Ring') = Len(Ring)
      /\ \A k \in 1..Len(Ring) : Ring'[k] = IF k = Len(Ring) THEN Ring[1] ELSE Ring[k + 1]
  BY <1>r, Turns
<1> DEFINE from(k) == IF k = Len(Ring) THEN 1 ELSE k + 1
<1>3. \A k \in 1..Len(Ring) : /\ from(k) \in 1..Len(Ring) /\ Ring'[k] = Ring[from(k)]
                              /\ pid'[Entry(k)'] = pid[Entry(from(k))]
  BY <1>2, <1>r DEF Entry
<1>4. \A k \in 1..Len(Ring) : \E j \in 1..Len(Ring) : from(j) = k
  <2> SUFFICES ASSUME NEW k \in 1..Len(Ring) PROVE \E j \in 1..Len(Ring) : from(j) = k
    OBVIOUS
  <2>1. CASE k = 1
    <3>1. Len(Ring) \in 1..Len(Ring) /\ from(Len(Ring)) = 1
      BY <1>r
    <3> QED BY <2>1, <3>1
  <2>2. CASE k # 1
    <3>1. k - 1 \in 1..Len(Ring) /\ from(k - 1) = k
      BY <2>2, <1>r
    <3> QED BY <3>1
  <2> QED BY <2>1, <2>2
<1>5. Queued # <<>> /\ Head(Queued) = Queued[1] /\ Queued[1] = pid[Entry(1)]
  BY <1>1, <1>r DEF QueueFacts
<1>6. Queued' = Turned(Queued)
  <2>1. /\ Turned(Queued) \in Seq(Pid) /\ Len(Turned(Queued)) = Len(Queued)
        /\ \A k \in 1..Len(Queued) : Turned(Queued)[k] = IF k = Len(Queued) THEN Queued[1] ELSE Queued[k + 1]
    BY <1>1, <1>5, Turns DEF QueueFacts
  <2>2. Queued' \in Seq(Pid) /\ Len(Queued') = Len(Turned(Queued))
    BY <1>1, <1>2, <2>1 DEF QueueFacts
  <2>3. ASSUME NEW k \in 1..Len(Queued') PROVE Queued'[k] = Turned(Queued)[k]
    <3>1. k \in 1..Len(Ring) /\ Len(Queued) = Len(Ring) /\ k \in 1..Len(Ring')
      BY <1>1, <2>1, <2>2 DEF QueueFacts
    <3>2. Queued'[k] = pid[Entry(from(k))]
      BY <1>1, <1>3, <3>1 DEF QueueFacts
    <3>3. Queued[from(k)] = pid[Entry(from(k))]
      BY <1>1, <1>3, <3>1 DEF QueueFacts
    <3> QED BY <2>1, <3>1, <3>2, <3>3
  <2> QED BY <2>1, <2>2, <2>3, SeqEqual
<1>7. RR!ToBack
  BY <1>5, <1>6 DEF RR!ToBack, Turned
<1> HIDE DEF from
<1>f. \A q : q \in Finished
              <=> \E k \in 1..Len(Ring) : state[Ring[k]] = "FINISHED" /\ pid[Entry(k)] = q
  BY <1>1 DEF QueueFacts
<1>g. \A q : q \in Finished'
              <=> \E k \in 1..Len(Ring) : state'[Ring[k]] = "FINISHED" /\ pid[Entry(k)] = q
  <2>1. \A q : q \in Finished'
                <=> \E k \in 1..Len(Ring') : state'[Ring'[k]] = "FINISHED" /\ pid'[Entry(k)'] = q
    BY <1>1 DEF QueueFacts
  <2>2. \A k \in 1..Len(Ring) : state'[Ring'[k]] = state'[Ring[from(k)]]
           /\ pid'[Entry(k)'] = pid[Entry(from(k))]
    BY <1>3
  <2>3. \A q : (\E k \in 1..Len(Ring) : state'[Ring[from(k)]] = "FINISHED"
           /\ pid[Entry(from(k))] = q)
                  <=> \E k \in 1..Len(Ring) : state'[Ring[k]] = "FINISHED" /\ pid[Entry(k)] = q
    <3>1. ASSUME NEW k \in 1..Len(Ring)
          PROVE  /\ from(k) \in 1..Len(Ring)
                 /\ \E j \in 1..Len(Ring) : from(j) = k
      BY <1>3, <1>4
    <3> QED BY <3>1
  <2>4. \A q : (\E k \in 1..Len(Ring') : state'[Ring'[k]] = "FINISHED" /\ pid'[Entry(k)'] = q)
                  <=> \E k \in 1..Len(Ring) : state'[Ring[from(k)]] = "FINISHED"
                     /\ pid[Entry(from(k))] = q
    <3>1. 1..Len(Ring') = 1..Len(Ring)
      BY <1>2
    <3> QED BY <3>1, <2>2
  <2> QED BY <2>1, <2>3, <2>4
<1>8. ASSUME state' = state PROVE Finished' = Finished
  <2>1. \A q : q \in Finished' <=> q \in Finished
    BY <1>f, <1>g, <1>8
  <2> QED BY <2>1, SameElements DEF Finished
<1>9. ASSUME state' = [state EXCEPT ![Ring[1]] = "FINISHED"]
      PROVE Finished' = Finished \cup {Head(Queued)}
  <2>1. \A k \in 1..Len(Ring) : state'[Ring[k]] = IF k = 1 THEN "FINISHED" ELSE state[Ring[k]]
    BY <1>9, <1>r DEF IInv, TypeOK
  <2>3. \A q : q \in Finished' <=> q \in Finished \/ q = pid[Entry(1)]
    BY <1>f, <1>g, <1>r, <2>1
  <2>4. \A q : q \in Finished' <=> q \in Finished \cup {Head(Queued)}
    BY <2>3, <1>5
  <2> QED BY <2>4, SameElements
<1> QED BY <1>7, <1>8, <1>9

(* Every switch is a switch of the queue, and EXIT's is the one that       *)
(* finishes its head.                                                      *)
LEMMA SwitchRefines ==
  ASSUME IInv, EntriesOwned, IInv', EntriesOwned', TicksSpareLists,
         \/ FirstTick \/ \E p \in Pid : Tick(p) \/ Yield(p) \/ LockBusy(p) \/ Exit2(p) \/ WalkFound(p)
  PROVE  RR!Next
<1>1. Ring' = Turned(Ring)
  BY SwitchSteps DEF IInv
<1>2. UNCHANGED <<PCBIndex, pid>>
  BY DEF FirstTick, Tick, Yield, LockBusy, Exit2, WalkFound, SwitchFrom
<1>3. Ring # <<>>
  <2>1. FirstTick => cpu = Kernel /\ firstIteration
    BY DEF FirstTick
  <2>2. ASSUME NEW p \in Pid, Tick(p) \/ Yield(p) \/ LockBusy(p) \/ Exit2(p) \/ WalkFound(p)
        PROVE cpu = p
    BY <2>2 DEF Tick, Yield, LockBusy, Exit2, WalkFound, At
  <2> QED BY <2>1, <2>2, RunnerIs DEF IInv, KernelLeft
<1>4. CASE UNCHANGED state
  <2>1. RR!ToBack /\ Finished' = Finished
    BY <1>1, <1>2, <1>3, <1>4, TurnIsToBack
  <2> QED BY <2>1 DEF RR!Next, RR!Switch
<1>5. ASSUME NEW p \in Pid, Exit2(p) PROVE RR!Next
  <2>1. cpu = p /\ pc[p] = "exit2" /\ p # Kernel
           /\ state' = [state EXCEPT ![next[local[p].aux]] = "FINISHED"]
    BY <1>5, MaxPidAssumption DEF Exit2, At, Kernel, Pid
  <2>2. local[p].aux = last
    BY <2>1 DEF IInv, ExitAtHead
  <2>3. \A q \in Pid : cpu = q => pc[q] \notin {"link3", "link4"}
    BY <2>1
  <2>4. next[last] = Ring[1]
    BY <2>1, <2>3, HeadIs DEF IInv
  <2>5. state' = [state EXCEPT ![Ring[1]] = "FINISHED"]
    BY <2>1, <2>2, <2>4
  <2>6. RR!ToBack /\ Finished' = Finished \cup {Head(Queued)}
    BY <1>1, <1>2, <1>3, <2>5, TurnIsToBack
  <2> QED BY <2>6 DEF RR!Next, RR!Finish
<1>6. FirstTick \/ (\E p \in Pid : Tick(p) \/ Yield(p) \/ LockBusy(p) \/ WalkFound(p))
         => UNCHANGED state
  BY DEF FirstTick, Tick, Yield, LockBusy, WalkFound
<1> QED BY <1>4, <1>5, <1>6

(* Removing a finished node is the head's leaving the queue.               *)
LEMMA ReapRefines ==
  ASSUME IInv, EntriesOwned, IInv', EntriesOwned', Reap
  PROVE  RR!Leave
<1>1. QueueFacts /\ QueueFacts'
  BY QueueHolds, QueueHoldsNext
<1>2. Ring' = Tail(Ring) /\ UNCHANGED <<PCBIndex, state>> /\ state[next[last]] = "FINISHED"
  BY ReapStep DEF Reap, IInv
<1>3. /\ Ring \in Seq(Node) /\ Len(Ring) \in Nat \ {0} /\ Ring # <<>> /\ 1 \in 1..Len(Ring)
      /\ next[last] = Ring[1] /\ Entry(1) = PCBIndex[next[last]]
  <2>1. cpu = ISR /\ ISR # Kernel /\ ISR \notin Pid
    BY MaxPidAssumption DEF Reap, ISR, Kernel, Pid
  <2> QED BY <2>1, HeadIs DEF IInv, Entry
<1>4. Entry(1) \in PCB /\ pid' = [pid EXCEPT ![Entry(1)] = 0]
  BY <1>3 DEF EntriesOwned, Reap
<1>5. /\ Len(Ring') = Len(Ring) - 1
      /\ \A k \in 1..Len(Ring') : k + 1 \in 1..Len(Ring) /\ Ring'[k] = Ring[k + 1]
  BY <1>2, <1>3, HeadTailProperties
<1>6. \A k \in 1..Len(Ring') : Entry(k)' = Entry(k + 1) /\ pid'[Entry(k)'] = pid[Entry(k + 1)]
  <2> SUFFICES ASSUME NEW k \in 1..Len(Ring')
               PROVE  Entry(k)' = Entry(k + 1) /\ pid'[Entry(k)'] = pid[Entry(k + 1)]
    OBVIOUS
  <2>1. Entry(k)' = Entry(k + 1)
    BY <1>2, <1>5 DEF Entry
  <2>2. pid[Entry(k + 1)] # pid[Entry(1)]
    <3>1. k + 1 \in 1..Len(Ring) /\ k + 1 # 1
      BY <1>3, <1>5
    <3> QED BY <1>1, <1>3, <3>1 DEF QueueFacts
  <2>3. Entry(k + 1) # Entry(1) /\ Entry(k + 1) \in PCB
    BY <1>5, <2>2 DEF EntriesOwned
  <2> QED BY <1>4, <2>1, <2>3 DEF IInv, TypeOK
<1>7. Queued # <<>> /\ Head(Queued) = pid[Entry(1)]
  BY <1>1, <1>3 DEF QueueFacts
<1>8. Queued' = Tail(Queued)
  <2>1. /\ Tail(Queued) \in Seq(Pid) /\ Len(Tail(Queued)) = Len(Queued) - 1
        /\ \A k \in 1..Len(Tail(Queued)) : Tail(Queued)[k] = Queued[k + 1]
    BY <1>1, <1>7, HeadTailProperties DEF QueueFacts
  <2>2. Queued' \in Seq(Pid) /\ Len(Queued') = Len(Tail(Queued)) /\ Len(Queued') = Len(Ring')
    BY <1>1, <1>5, <2>1 DEF QueueFacts
  <2>3. ASSUME NEW k \in 1..Len(Queued') PROVE Queued'[k] = Tail(Queued)[k]
    <3>1. k \in 1..Len(Ring') /\ k + 1 \in 1..Len(Ring) /\ Tail(Queued)[k] = Queued[k + 1]
      BY <1>5, <2>1, <2>2
    <3>2. Queued'[k] = pid'[Entry(k)']
      BY <1>1, <3>1 DEF QueueFacts
    <3>3. Queued[k + 1] = pid[Entry(k + 1)]
      BY <1>1, <3>1 DEF QueueFacts
    <3> QED BY <1>6, <3>1, <3>2, <3>3
  <2> QED BY <2>1, <2>2, <2>3, SeqEqual
<1>9. \A q : q \in Finished
         <=> \E k \in 1..Len(Ring) : state[Ring[k]] = "FINISHED" /\ pid[Entry(k)] = q
  BY <1>1 DEF QueueFacts
<1>10. Head(Queued) \in Finished
  BY <1>2, <1>3, <1>7, <1>9
<1>11. \A q : q \in Finished'
               <=> \E k \in 1..Len(Ring') : state[Ring[k + 1]] = "FINISHED" /\ pid[Entry(k + 1)] = q
  <2>1. \A q : q \in Finished'
                <=> \E k \in 1..Len(Ring') : state'[Ring'[k]] = "FINISHED" /\ pid'[Entry(k)'] = q
    BY <1>1 DEF QueueFacts
  <2>2. \A k \in 1..Len(Ring') : /\ state'[Ring'[k]] = state[Ring[k + 1]]
                                 /\ pid'[Entry(k)'] = pid[Entry(k + 1)]
    BY <1>2, <1>5, <1>6
  <2> QED BY <2>1, <2>2
<1>12. ASSUME NEW q PROVE q \in Finished' <=> q \in Finished /\ q # Head(Queued)
  <2>1. ASSUME q \in Finished' PROVE q \in Finished /\ q # Head(Queued)
    <3>1. PICK k \in 1..Len(Ring') : state[Ring[k + 1]] = "FINISHED" /\ pid[Entry(k + 1)] = q
      BY <1>11, <2>1
    <3>2. k + 1 \in 1..Len(Ring) /\ k + 1 # 1
      BY <1>3, <1>5
    <3>3. pid[Entry(k + 1)] # pid[Entry(1)]
      BY <1>1, <1>3, <3>2 DEF QueueFacts
    <3> QED BY <1>7, <1>9, <3>1, <3>2, <3>3
  <2>2. ASSUME q \in Finished, q # Head(Queued) PROVE q \in Finished'
    <3>1. PICK j \in 1..Len(Ring) : state[Ring[j]] = "FINISHED" /\ pid[Entry(j)] = q
      BY <1>9, <2>2
    <3>2. j # 1
      BY <1>7, <2>2, <3>1
    <3>3. j - 1 \in 1..Len(Ring') /\ (j - 1) + 1 = j
      BY <1>3, <1>5, <3>2
    <3> QED BY <1>11, <3>1, <3>3
  <2> QED BY <2>1, <2>2
<1>13. Finished' = Finished \ {Head(Queued)}
  <2>1. \A q : q \in Finished' <=> q \in Finished \ {Head(Queued)}
    BY <1>12
  <2> QED BY <2>1, SameElements
<1> QED BY <1>7, <1>8, <1>10, <1>13 DEF RR!Leave

(* The last store of enqueueProcess is the new process's joining at the    *)
(* back: until it, nobody else sees the new process.                       *)
LEMMA Link4Refines ==
  ASSUME IInv, EntriesOwned, IInv', EntriesOwned', NEW p \in Pid, Link4(p)
  PROVE  RR!Next
<1> DEFINE node  == local[p].newNode
           child == local[p].newPCB
           n     == Len(Ring)
<1>1. QueueFacts /\ QueueFacts'
  BY QueueHolds, QueueHoldsNext
<1>2. pc[p] = "link4" /\ UNCHANGED <<PCBIndex, state, pid>>
  BY DEF Link4, At, pcbs
<1>3. Ring' = Append(Ring, node)
  BY LinkStep DEF IInv
<1>4. /\ PCBIndex[node] = child /\ state[node] = "RUNNING" /\ child \in occupied /\ child \in PCB
      /\ \A k \in 1..n : Entry(k) # child
  <2>1. HasChild(p) /\ child \in PCB
    BY <1>2 DEF HasChild, EntriesOwned
  <2> QED BY <1>2, <2>1 DEF IInv, NodeFilled, ChildReady
<1>5. node \in Node
  <2>1. p \in Building
    BY <1>2 DEF Building
  <2> QED BY <2>1 DEF IInv, NodesUsed, TypeOK
<1>6. Ring \in Seq(Node) /\ n \in Nat
  BY DEF IInv, RingClosed, Closes
<1>7. /\ Len(Ring') = n + 1 /\ Ring'[n + 1] = node
      /\ \A k \in 1..n : Ring'[k] = Ring[k]
  BY <1>3, <1>5, <1>6, AppendProperties
<1>8. /\ \A k \in 1..n : pid'[Entry(k)'] = pid[Entry(k)]
      /\ \A k : k = n + 1 => pid'[Entry(k)'] = pid[child]
  BY <1>2, <1>4, <1>7 DEF Entry
<1> HIDE DEF node, child, n
<1>9. pid[child] \in Pid
  <2>1. pid[child] \in 1..(nextPid - 1) /\ nextPid \in 1..(MaxPid + 1)
    BY <1>4 DEF IInv, OwnPid, TypeOK
  <2> QED BY <2>1, MaxPidAssumption DEF Pid
<1>10. Queued \in Seq(Pid) /\ Len(Queued) = n /\ Queued' \in Seq(Pid) /\ Len(Queued') = n + 1
  BY <1>1, <1>7 DEF QueueFacts, n
<1>11. \A k \in 1..n : Queued[k] = pid[Entry(k)] /\ pid[Entry(k)] # pid[child]
  <2>1. \A k \in 1..n : Queued[k] = pid[Entry(k)]
    BY <1>1 DEF QueueFacts, n
  <2>2. \A k \in 1..n : Entry(k) \in occupied
    BY DEF IInv, EntriesTaken, EntriesOwned, n
  <2> QED BY <2>1, <2>2, <1>4 DEF IInv, OwnPid
<1>12. Queued' = Append(Queued, pid[child])
  <2>1. /\ Append(Queued, pid[child]) \in Seq(Pid) /\ Len(Append(Queued, pid[child])) = n + 1
        /\ Append(Queued, pid[child])[n + 1] = pid[child]
        /\ \A k \in 1..n : Append(Queued, pid[child])[k] = Queued[k]
    BY <1>9, <1>10, AppendProperties
  <2>2. ASSUME NEW k \in 1..Len(Queued') PROVE Queued'[k] = Append(Queued, pid[child])[k]
    <3>1. k \in 1..Len(Ring') /\ (k \in 1..n \/ k = n + 1)
      BY <1>6, <1>7, <1>10 DEF n
    <3>2. Queued'[k] = pid'[Entry(k)']
      BY <1>1, <3>1 DEF QueueFacts
    <3> QED BY <1>8, <1>11, <2>1, <3>1, <3>2
  <2> QED BY <1>10, <2>1, <2>2, SeqEqual
<1>13. Finished' = Finished
  <2>1. \A q : q \in Finished'
                <=> \E k \in 1..Len(Ring') : state'[Ring'[k]] = "FINISHED" /\ pid'[Entry(k)'] = q
    BY <1>1 DEF QueueFacts
  <2>2. \A q : q \in Finished <=> \E k \in 1..n : state[Ring[k]] = "FINISHED" /\ pid[Entry(k)] = q
    BY <1>1 DEF QueueFacts, n
  <2>3. \A k \in 1..n : k \in 1..Len(Ring')
    BY <1>6, <1>7 DEF n
  <2>4. \A k \in 1..Len(Ring') : k \in 1..n \/ state'[Ring'[k]] # "FINISHED"
    <3>1. \A k \in 1..Len(Ring') : k \in 1..n \/ k = n + 1
      BY <1>6, <1>7 DEF n
    <3> QED BY <3>1, <1>2, <1>4, <1>7
  <2>5. \A q : q \in Finished' <=> q \in Finished
    BY <2>1, <2>2, <2>3, <2>4, <1>2, <1>7, <1>8
  <2> QED BY <2>5, SameElements
<1>14. ~RR!InQueue(pid[child])
  BY <1>10, <1>11 DEF RR!InQueue
<1> QED BY <1>9, <1>12, <1>13, <1>14 DEF RR!Next, RR!Spawn

(* Every step of the scheduler is a step of the queue, or none.            *)
LEMMA StepRefines ==
  ASSUME IInv, EntriesOwned, IInv', EntriesOwned', TicksSpareLists, ~CreateMayFail, [Next]_vars
  PROVE  [RR!Next]_(RR!vars)
<1>1. ASSUME NEW p \in Pid,
         \/ Dispatch \/ UNCHANGED vars
         \/ CallCreate(p) \/ CallExit(p) \/ \E target \in Waited : CallWait(p, target)
         \/ Lock(p) \/ getFreeNode(p) \/ GetPID(p) \/ Unlock(p)
         \/ Wait2(p) \/ Walk1(p) \/ Walk2(p) \/ Walk3(p) \/ WaitReturn(p)
         \/ createProcess(p) \/ createProcessFails(p)
         \/ FillNode(p) \/ Link2(p) \/ Link3(p)
      PROVE UNCHANGED RR!vars
  <2>1. TypeOK'
    BY DEF IInv
  <2>2. Settled
    BY <1>1, <2>1, Settles
  <2> QED BY <2>2, SettledStutters
<1>2. ASSUME NEW p \in Pid, Tick(p) \/ Yield(p) \/ LockBusy(p) \/ Exit2(p) \/ WalkFound(p)
      PROVE RR!Next
  BY <1>2, SwitchRefines
<1>3. FirstTick => RR!Next
  BY SwitchRefines
<1>4. Reap => RR!Next
  BY ReapRefines DEF RR!Next
<1>5. \E p \in Pid : TRUE
  BY MaxPidAssumption DEF Pid
<1>6. Dispatch \/ finishKernel \/ UNCHANGED vars => UNCHANGED RR!vars
  BY <1>1, <1>5 DEF finishKernel
<1>7. ASSUME NEW p \in Pid, Tick(p) \/ SystemCall(p) \/ User(p) PROVE [RR!Next]_(RR!vars)
  BY <1>7, <1>1, <1>2, Link4Refines DEF SystemCall, User, Create, Wait
<1> QED BY <1>3, <1>4, <1>6, <1>7 DEF Next, Interrupt

(* At first the queue is init.d alone.                                     *)
LEMMA InitRefines == Init => RR!Init
<1> SUFFICES ASSUME Init PROVE RR!Init
  OBVIOUS
<1>1. IInv /\ EntriesOwned /\ QueueFacts
  BY InitInv, InitOwned, QueueHolds
<1>2. /\ usedNodes = {0} /\ 0 \in Node /\ pid[0] = 1 /\ PCBIndex = [n \in Node |-> 0]
      /\ state = [n \in Node |-> "RUNNING"] /\ pc = [p \in Pid |-> "user"]
  BY MaxProcessesAssumption DEF Init, Node, PCB
<1>3. Building = {}
  BY <1>2 DEF Building
<1>4. \A k \in 1..Len(Ring) : Ring[k] = 0
  <2>1. \A k \in 1..Len(Ring) : Ring[k] \in Node
    BY <1>1 DEF IInv, RingClosed, Closes
  <2> QED BY <2>1, <1>1, <1>2 DEF IInv, NodesUsed
<1>5. Len(Ring) = 1
  <2>1. \E k \in 1..Len(Ring) : Ring[k] = 0
    BY <1>1, <1>2, <1>3 DEF IInv, NodesUsed
  <2>2. \A j, k \in 1..Len(Ring) : Ring[j] = Ring[k] => j = k
    BY <1>1 DEF IInv, RingClosed, Closes
  <2>3. \A j, k \in 1..Len(Ring) : j = k
    BY <2>2, <1>4
  <2>4. Len(Ring) \in Nat
    BY <1>1 DEF QueueFacts
  <2>5. 1 \in 1..Len(Ring) /\ Len(Ring) \in 1..Len(Ring)
    BY <2>1, <2>4
  <2> QED BY <2>3, <2>5
<1>6. Entry(1) = 0
  BY <1>2, <1>4, <1>5 DEF Entry
<1>7. Queued = <<1>>
  BY <1>1, <1>2, <1>5, <1>6 DEF QueueFacts
<1>8. Finished = {}
  BY <1>1, <1>2, <1>4 DEF QueueFacts
<1>9. 1 \in Pid
  BY MaxPidAssumption DEF Pid
<1> QED BY <1>7, <1>8, <1>9 DEF RR!Init

(* The circular list with its lazily removed nodes is a round-robin queue  *)
(* of processes: a switch sends the head to the back, a new process joins  *)
(* at the back, and a finished one leaves when its turn comes, never to    *)
(* run again.  Ticks may come in the middle of system calls, but not       *)
(* between the stores that link a node or mark one, and createProcess does *)
(* not fail half way.                                                      *)
THEOREM SchedulerIsRoundRobin ==
  ASSUME TicksSpareLists, ~CreateMayFail
  PROVE  Spec => ImplementsRoundRobin
<1>1. Init => RR!Init
  BY InitRefines
<1>2. (IInv /\ EntriesOwned) /\ (IInv /\ EntriesOwned)' /\ [Next]_vars => [RR!Next]_(RR!vars)
  BY StepRefines
<1>3. Spec => [](IInv /\ EntriesOwned)
  BY EntriesStayOwned
<1> QED BY <1>1, <1>2, <1>3, PTL DEF Spec, ImplementsRoundRobin, RR!Spec

-----------------------------------------------------------------------------
(* waitpid reads last and follows it, and then follows a pointer from node *)
(* to node.  Ticks may suspend the walk, and processes come and go         *)
(* meanwhile; but no tick comes between reading last and following it.     *)
TicksSpareWalks == TicksSpareLists /\ TickPoints \cap {"wait2", "walk2"} = {}

(* The pid of the k-th process of the ring (-1 if its creation failed).    *)
Who(k) == QueuedAt(Ring, k)

(* Going round the ring from position i, position k comes before c; with i *)
(* at c itself there is the whole round to go.                             *)
Before(i, k, c) == IF c <= i THEN i <= k \/ k < c ELSE i <= k /\ k < c

(* A walk that is not astray stands on a node of the ring, set out from the*)
(* walker's own, and has the process it looks for still before it.         *)
OnTheWay(p) ==
    \E c, i \in 1..Len(Ring) :
       /\ local[p].current = Ring[c] /\ Who(c) = p
       /\ local[p].pointer = Ring[i]
       /\ local[p].wasAlive => \A k \in 1..Len(Ring) : Who(k) = local[p].target => Before(i, k, c)
Walker(p) ==
    /\ pc[p] \in {"wait2", "walk2"} => cpu = p /\ local[p].aux = last
    /\ pc[p] = "walk3" /\ ~local[p].astray => OnTheWay(p)
WalkHeld == \A p \in Pid : Walker(p)

(* Only processes that called EXIT are finished, and a process that was    *)
(* alive when waitpid was called is none of those being created.           *)
FinishedExited ==
    \A k \in 1..Len(Ring) : state[Ring[k]] = "FINISHED" /\ Entry(k) \in PCB
        => pc[pid[Entry(k)]] = "exited"
WaitedIsOld ==
    \A p \in Pid : pc[p] \in WaitPoints /\ local[p].wasAlive =>
       /\ local[p].target \in 1..(nextPid - 1)
       /\ \A q \in Pid : HasChild(q) /\ local[q].newPCB \in PCB
             => pid[local[q].newPCB] # local[p].target
WalkInv == FinishedExited /\ WaitedIsOld /\ WalkHeld

(* The first node of the ring is that of the process that runs.            *)
LEMMA HeadOfRunner ==
  ASSUME IInv, NEW p \in Pid, cpu = p, pc[p] \notin {"link3", "link4"}
  PROVE  /\ Ring \in Seq(Node) /\ Len(Ring) \in Nat \ {0} /\ last \in Node
         /\ next[last] = Ring[1] /\ 1 \in 1..Len(Ring)
         /\ QueuedAt(Ring, 1) = p
<1>1. cpu # Kernel /\ Entry(1) \in PCB /\ p = pid[Entry(1)]
  BY RunnerIs
<1>2. \A q \in Pid : cpu = q => pc[q] \notin {"link3", "link4"}
  OBVIOUS
<1> QED BY <1>1, <1>2, HeadIs DEF IInv, QueuedAt, getProcessPID, Entry

(* The pid at a position is that of its entry.                             *)
LEMMA WhoIs ==
  /\ \A k : Who(k) = IF Entry(k) \in PCB THEN pid[Entry(k)] ELSE -1
  /\ \A k : Who(k)' = IF Entry(k)' \in PCB THEN pid'[Entry(k)'] ELSE -1
BY DEF Who, QueuedAt, getProcessPID, Entry

(* Turning the ring moves the walker, its pointer and the process it looks *)
(* for by one place each, and changes the order of none.                   *)
LEMMA TurnedWay ==
  ASSUME IInv, Ring # <<>>, Ring' = Turned(Ring), UNCHANGED <<PCBIndex, pid>>,
         NEW p \in Pid, OnTheWay(p), local'[p] = local[p]
  PROVE  OnTheWay(p)'
<1> DEFINE m == Len(Ring)
           Back(k) == IF k = 1 THEN m ELSE k - 1
           Fore(k) == IF k = m THEN 1 ELSE k + 1
<1>1. Ring \in Seq(Node) /\ m \in Nat \ {0}
  BY DEF IInv, RingClosed, Closes
<1>2. Len(Ring') = m /\ \A k \in 1..m : Ring'[k] = Ring[Fore(k)]
  BY <1>1, Turns
<1>3. \A k \in 1..m : Back(k) \in 1..m /\ Fore(k) \in 1..m /\ Fore(Back(k)) = k /\ Back(Fore(k)) = k
  BY <1>1
<1>4. \A k \in 1..m : Who(k)' = Who(Fore(k))
  BY <1>2 DEF Who, QueuedAt, getProcessPID
<1>5. PICK c \in 1..m, i \in 1..m :
         /\ local[p].current = Ring[c] /\ Who(c) = p
         /\ local[p].pointer = Ring[i]
         /\ local[p].wasAlive => \A k \in 1..m : Who(k) = local[p].target => Before(i, k, c)
  BY DEF OnTheWay
<1>6. \A k \in 1..m : Before(i, k, c) => Before(Back(i), Back(k), Back(c))
  BY <1>1, <1>5 DEF Before
<1> HIDE DEF m, Back, Fore
<1>7. PICK d \in 1..m, j \in 1..m : d = Back(c) /\ j = Back(i)
  BY <1>3
<1>8. local'[p].current = Ring'[d] /\ Who(d)' = p /\ local'[p].pointer = Ring'[j]
  BY <1>2, <1>3, <1>4, <1>5, <1>7
<1>9. ASSUME local'[p].wasAlive, NEW k \in 1..m, Who(k)' = local'[p].target
      PROVE  Before(j, k, d)
  <2>1. Fore(k) \in 1..m /\ Who(Fore(k)) = local[p].target /\ Back(Fore(k)) = k
    BY <1>3, <1>4, <1>9
  <2> QED BY <2>1, <1>5, <1>6, <1>7, <1>9
<1> QED BY <1>2, <1>7, <1>8, <1>9 DEF OnTheWay

(* Removing the node at the head moves all of them by one place: the       *)
(* walker's own node is not finished, and the walk does not stand on the   *)
(* node removed.                                                           *)
LEMMA RemovedWay ==
  ASSUME IInv, TypeOK', WalkInv, Reap, NEW p \in Pid, pc[p] = "walk3", ~local'[p].astray
  PROVE  OnTheWay(p)'
<1> DEFINE m == Len(Ring)
<1>c. ISR \notin Pid /\ ISR # Kernel
  BY MaxPidAssumption DEF Pid, ISR, Kernel
<1>1. /\ Ring \in Seq(Node) /\ m \in Nat \ {0} /\ Ring # <<>> /\ 1 \in 1..m
      /\ next[last] = Ring[1] /\ Entry(1) = PCBIndex[next[last]]
  BY <1>c, HeadIs DEF IInv, Entry, Reap
<1>2. Ring' = Tail(Ring)
  BY ReapStep
<1>3. /\ Len(Ring') = m - 1
      /\ \A k \in 1..(m - 1) : Ring'[k] = Ring[k + 1] /\ k + 1 \in 1..m /\ k + 1 # 1
  BY <1>1, <1>2, HeadTailProperties
<1>4. \A k \in 1..(m - 1) : Entry(k)' = Entry(k + 1)
  BY <1>3 DEF Entry, Reap
<1>5. \A k \in 1..(m - 1) : Who(k)' = Who(k + 1)
  <2> SUFFICES ASSUME NEW k \in 1..(m - 1), Entry(k + 1) \in PCB
               PROVE  pid'[Entry(k + 1)] = pid[Entry(k + 1)]
    BY <1>4, WhoIs
  <2>1. k + 1 \in 1..m /\ k + 1 # 1
    BY <1>3
  <2>2. Entry(k + 1) # Entry(1)
    BY <1>1, <2>1 DEF IInv, EntriesTaken
  <2>3. CASE Entry(1) \in PCB
    <3>1. pid' = [pid EXCEPT ![Entry(1)] = 0]
      BY <1>1, <2>3 DEF Reap
    <3> QED BY <2>2, <3>1 DEF IInv, TypeOK
  <2>4. CASE Entry(1) \notin PCB
    BY <1>1, <2>4 DEF Reap
  <2> QED BY <2>3, <2>4
<1>6. /\ ~local[p].astray /\ local[p].pointer # Ring[1]
      /\ local'[p].current = local[p].current /\ local'[p].pointer = local[p].pointer
      /\ local'[p].target = local[p].target /\ local'[p].wasAlive = local[p].wasAlive
  <2>1. local \in [Pid -> Locals] /\ local' = Astray(Ring[1])
    BY <1>1, TypeParts DEF Reap, IInv, ThreadsOK
  <2>2. local[p] \in Locals
    BY <2>1
  <2>3. [local[p] EXCEPT !.astray = TRUE].astray = TRUE
    BY <2>2 DEF Locals
  <2>4. local'[p] = IF local[p].pointer = Ring[1] THEN [local[p] EXCEPT !.astray = TRUE] ELSE local[p]
    BY <2>1 DEF Astray
  <2>5. local[p].pointer # Ring[1] /\ local'[p] = local[p]
    BY <2>3, <2>4
  <2> QED BY <2>5
<1>7. OnTheWay(p)
  BY <1>6 DEF WalkInv, WalkHeld, Walker
<1>8. PICK c \in 1..m, i \in 1..m :
         /\ local[p].current = Ring[c] /\ Who(c) = p
         /\ local[p].pointer = Ring[i]
         /\ local[p].wasAlive => \A k \in 1..m : Who(k) = local[p].target => Before(i, k, c)
  BY <1>7 DEF OnTheWay
<1>9. c # 1 /\ i # 1
  <2>1. i # 1
    BY <1>6, <1>8
  <2>2. ASSUME c = 1 PROVE FALSE
    <3>1. Entry(1) \in PCB /\ pid[Entry(1)] = p
      BY <1>8, <2>2, WhoIs, MaxPidAssumption DEF Pid
    <3>2. state[Ring[1]] = "FINISHED"
      BY <1>1 DEF Reap
    <3>3. pc[p] = "exited"
      BY <1>1, <3>1, <3>2 DEF WalkInv, FinishedExited
    <3> QED BY <3>3
  <2> QED BY <2>1, <2>2
<1> HIDE DEF m
<1>10. /\ c - 1 \in 1..(m - 1) /\ i - 1 \in 1..(m - 1) /\ (c - 1) + 1 = c /\ (i - 1) + 1 = i
       /\ \A k \in 1..(m - 1) : k + 1 \in 1..m
  BY <1>1, <1>8, <1>9
<1>11. \A k \in 1..(m - 1) : Before(i, k + 1, c) => Before(i - 1, k, c - 1)
  BY <1>1, <1>8, <1>9 DEF Before
<1>12. PICK d \in 1..(m - 1), j \in 1..(m - 1) : d = c - 1 /\ j = i - 1 /\ d + 1 = c /\ j + 1 = i
  BY <1>10
<1>13. local'[p].current = Ring'[d] /\ Who(d)' = p /\ local'[p].pointer = Ring'[j]
  BY <1>3, <1>5, <1>6, <1>8, <1>12
<1>14. ASSUME local'[p].wasAlive, NEW k \in 1..(m - 1), Who(k)' = local'[p].target
       PROVE  Before(j, k, d)
  BY <1>5, <1>6, <1>8, <1>10, <1>11, <1>12, <1>14
<1> QED BY <1>3, <1>12, <1>13, <1>14 DEF OnTheWay

(* A process that joins at the back is not the one waited for.             *)
LEMMA GrownWay ==
  ASSUME IInv, TypeOK', WalkInv, NEW q \in Pid, Link4(q),
         NEW p \in Pid, pc[p] = "walk3", ~local[p].astray
  PROVE  OnTheWay(p)'
<1> DEFINE m == Len(Ring)
           node == local[q].newNode
<1>1. Ring \in Seq(Node) /\ m \in Nat
  BY DEF IInv, RingClosed, Closes
<1>2. Ring' = Append(Ring, node) /\ node \in Node
  <2>1. q \in Building
    BY DEF Link4, At, Building
  <2> QED BY <2>1, LinkStep DEF IInv, NodesUsed, TypeOK
<1>3. Len(Ring') = m + 1 /\ Ring'[m + 1] = node /\ \A k \in 1..m : Ring'[k] = Ring[k]
  BY <1>1, <1>2, AppendProperties
<1>4. UNCHANGED <<PCBIndex, pid, local>> /\ pc[q] = "link4"
  BY DEF Link4, At, pcbs
<1>5. \A k \in 1..m : Who(k)' = Who(k)
  BY <1>3, <1>4 DEF Who, QueuedAt, getProcessPID
<1>n. PICK n \in Nat : n = m + 1
  BY <1>1
<1>6. local[p].wasAlive => Who(n)' # local[p].target
  <2> SUFFICES ASSUME local[p].wasAlive PROVE Who(n)' # local[p].target
    OBVIOUS
  <2>1. /\ local[p].target \in 1..(nextPid - 1)
        /\ HasChild(q) /\ local[q].newPCB \in PCB => pid[local[q].newPCB] # local[p].target
    BY DEF WalkInv, WaitedIsOld, WaitPoints
  <2>2. PCBIndex[node] = local[q].newPCB /\ HasChild(q)
    BY <1>4 DEF IInv, NodeFilled, HasChild
  <2>3. Who(n)' = IF local[q].newPCB \in PCB THEN pid[local[q].newPCB] ELSE -1
    BY <1>3, <1>4, <1>n, <2>2 DEF Who, QueuedAt, getProcessPID
  <2>4. local[p].target # -1
    BY <2>1 DEF IInv, TypeOK
  <2> QED BY <2>1, <2>2, <2>3, <2>4
<1>7. OnTheWay(p)
  BY DEF WalkInv, WalkHeld, Walker
<1>8. PICK c \in 1..m, i \in 1..m :
         /\ local[p].current = Ring[c] /\ Who(c) = p
         /\ local[p].pointer = Ring[i]
         /\ local[p].wasAlive => \A k \in 1..m : Who(k) = local[p].target => Before(i, k, c)
  BY <1>7 DEF OnTheWay
<1> HIDE DEF m, node
<1>9. c \in 1..(m + 1) /\ i \in 1..(m + 1) /\ \A k \in 1..(m + 1) : k \in 1..m \/ k = m + 1
  BY <1>1, <1>8
<1>10. local'[p].current = Ring'[c] /\ Who(c)' = p /\ local'[p].pointer = Ring'[i]
  BY <1>3, <1>4, <1>5, <1>8
<1>11. ASSUME local'[p].wasAlive, NEW k \in 1..(m + 1), Who(k)' = local'[p].target
       PROVE  Before(i, k, c)
  <2>1. k \in 1..m
    BY <1>4, <1>6, <1>9, <1>11, <1>n
  <2> QED BY <2>1, <1>4, <1>5, <1>8, <1>11
<1> QED BY <1>3, <1>9, <1>10, <1>11 DEF OnTheWay

(* Nor does anything change while the ring stays as it is.                 *)
LEMMA SettledWay ==
  ASSUME IInv, Settled, NEW p \in Pid, OnTheWay(p), local'[p] = local[p]
  PROVE  OnTheWay(p)'
<1>1. Ring' = Ring /\ \A k \in 1..Len(Ring) : Who(k)' = Who(k)
  BY WhoIs DEF Settled
<1> QED BY <1>1 DEF OnTheWay

(* The steps of waitpid keep what its locals are good for.                 *)
LEMMA WalkerStep ==
  ASSUME IInv, IInv', NEW p \in Pid, Walker(p),
         \/ \E target \in Waited : CallWait(p, target)
         \/ Wait2(p) \/ Walk1(p) \/ Walk2(p) \/ Walk3(p) \/ WaitReturn(p)
  PROVE  Walker(p)'
<1>t. pc \in [Pid -> Point] /\ local \in [Pid -> Locals] /\ TypeOK'
  BY TypeParts DEF IInv, ThreadsOK
<1>r. Ring' = Ring
  BY <1>t, LocalSteps
<1>u. UNCHANGED <<last, next, PCBIndex, pid, cpu>> /\ cpu = p /\ pc[p] \notin {"link3", "link4"}
  BY DEF CallWait, Wait2, Walk1, Walk2, Walk3, WaitReturn, Unmoved, nodes, pcbs, At
<1>h. /\ Ring \in Seq(Node) /\ Len(Ring) \in Nat \ {0} /\ last \in Node
      /\ next[last] = Ring[1] /\ 1 \in 1..Len(Ring) /\ Who(1) = p
  BY <1>u, HeadOfRunner DEF Who
<1>q. \A k : Who(k)' = Who(k)
  BY <1>r, <1>u DEF Who, QueuedAt, getProcessPID
<1>e. \A l \in Locals : DOMAIN l = DOMAIN NoLocals
  BY DEF Locals, NoLocals
<1>1. ASSUME NEW target \in Waited, CallWait(p, target) PROVE Walker(p)'
  <2>1. pc'[p] = "wait2" /\ local'[p].aux = last
    BY <1>1, <1>t DEF CallWait, Goto, NoLocals
  <2> QED BY <2>1, <1>u DEF Walker
<1>2. CASE Wait2(p) \/ WaitReturn(p)
  <2>1. pc'[p] \notin {"wait2", "walk2", "walk3"}
    BY <1>2, <1>t DEF Wait2, WaitReturn, Goto, Return
  <2> QED BY <2>1 DEF Walker
<1>3. CASE Walk1(p)
  <2>1. pc'[p] = "walk2" /\ local'[p].aux = last
    BY <1>3, <1>t, <1>e DEF Walk1, Goto, NoLocals
  <2> QED BY <2>1, <1>u DEF Walker
<1>4. CASE Walk2(p)
  <2>1. pc[p] = "walk2" /\ local[p].aux = last
    BY <1>4 DEF Walk2, At, Walker
  <2>2. pc'[p] = "walk3" /\ local'[p].current = Ring[1] /\ local'[p].pointer = Ring[1]
    BY <1>4, <1>t, <1>e, <1>h, <2>1 DEF Walk2, Goto, NoLocals
  <2>3. \A k \in 1..Len(Ring) : Before(1, k, 1)
    BY <1>h DEF Before
  <2>4. OnTheWay(p)'
    BY <1>h, <1>q, <1>r, <2>2, <2>3 DEF OnTheWay
  <2> QED BY <2>2, <2>4 DEF Walker
<1>5. CASE Walk3(p)
  <2> SUFFICES ASSUME ~local'[p].astray PROVE OnTheWay(p)'
    <3>1. pc' = pc /\ pc[p] = "walk3"
      BY <1>5 DEF Walk3, At
    <3> QED BY <3>1 DEF Walker
  <2>1. /\ pc[p] = "walk3" /\ ~Found(p) /\ ~WalkEnd(p)
        /\ local' = [local EXCEPT ![p].pointer = next[local[p].pointer]]
    BY <1>5 DEF Walk3, At
  <2>2. /\ local'[p].current = local[p].current /\ local'[p].target = local[p].target
        /\ local'[p].wasAlive = local[p].wasAlive /\ local'[p].astray = local[p].astray
        /\ local'[p].pointer = next[local[p].pointer]
    BY <2>1, <1>t, <1>e DEF NoLocals
  <2>3. PICK c \in 1..Len(Ring), i \in 1..Len(Ring) :
           /\ local[p].current = Ring[c] /\ Who(c) = p
           /\ local[p].pointer = Ring[i]
           /\ local[p].wasAlive =>
                \A k \in 1..Len(Ring) : Who(k) = local[p].target => Before(i, k, c)
    BY <2>1, <2>2 DEF Walker, OnTheWay
  <2>4. c = 1
    BY <1>u, <2>3, WhoIs, RunnerIs, MaxPidAssumption DEF Pid
  <2>5. i + 1 \in 1..Len(Ring) /\ next[Ring[i]] = Ring[i + 1]
    <3>1. next[Ring[i]] # Ring[1]
      BY <2>1, <2>3, <2>4 DEF WalkEnd
    <3> QED BY <3>1, <2>3, <1>h DEF IInv, RingClosed, Closes
  <2>6. Who(i) # local[p].target
    BY <2>1, <2>3 DEF Found, Who, QueuedAt
  <2>7. \A k \in 1..Len(Ring) : Before(i, k, 1) /\ k # i => Before(i + 1, k, 1)
    BY <1>h, <2>3 DEF Before
  <2>8. PICK j \in 1..Len(Ring) : j = i + 1
    BY <2>5
  <2>9. /\ local'[p].current = Ring'[1] /\ Who(1)' = p /\ local'[p].pointer = Ring'[j]
    BY <1>h, <1>q, <1>r, <2>2, <2>3, <2>4, <2>5, <2>8
  <2>10. ASSUME local'[p].wasAlive, NEW k \in 1..Len(Ring), Who(k)' = local'[p].target
         PROVE  Before(j, k, 1)
    BY <1>q, <2>2, <2>3, <2>4, <2>6, <2>7, <2>8, <2>10
  <2> QED BY <1>h, <1>r, <2>9, <2>10 DEF OnTheWay
<1> QED BY <1>1, <1>2, <1>3, <1>4, <1>5

(* A switch leaves the others where they are, and the process that gives   *)
(* up the CPU in user code, at the lock, at the start of a new walk, on its*)
(* way or finished.                                                        *)
LEMMA SwitchWalks ==
  ASSUME IInv, IInv', WalkInv, TicksSpareWalks,
         \/ FirstTick \/ \E p \in Pid : Tick(p) \/ Yield(p) \/ LockBusy(p) \/ Exit2(p) \/ WalkFound(p)
  PROVE  WalkInv'
<1> DEFINE m == Len(Ring)
<1>t. pc \in [Pid -> Point] /\ local \in [Pid -> Locals] /\ TypeOK /\ TypeOK'
  BY TypeParts DEF ThreadsOK, IInv
<1>c. Kernel \notin Pid /\ ISR \notin Pid /\ Kernel # ISR
  BY MaxPidAssumption DEF Pid, Kernel, ISR
<1>1. Ring' = Turned(Ring)
  BY <1>t, SwitchSteps DEF TicksSpareWalks
<1>2. UNCHANGED <<PCBIndex, pid, nextPid>> /\ cpu' = ISR
  BY DEF FirstTick, Tick, Yield, LockBusy, Exit2, WalkFound, SwitchFrom
<1>3. ASSUME NEW q \in Pid
      PROVE  \/ /\ pc'[q] = pc[q] /\ local'[q] = local[q] /\ (cpu = q => pc[q] \notin {"wait2", "walk2"})
             \/ pc[q] = "exit2" /\ pc'[q] = "exited" /\ cpu = q
             \/ /\ pc[q] = "walk3" /\ pc'[q] = "walk1"
                /\ local'[q].target = local[q].target /\ local'[q].wasAlive = local[q].wasAlive
  <2>1. CASE FirstTick
    BY <2>1, <1>c DEF FirstTick, threads
  <2>2. ASSUME NEW p \in Pid, Tick(p) \/ Yield(p) \/ LockBusy(p)
        PROVE  pc' = pc /\ local' = local /\ cpu = p /\ pc[p] \notin {"wait2", "walk2"}
    BY <2>2 DEF Tick, Yield, LockBusy, At, threads, TicksSpareWalks
  <2>3. ASSUME NEW p \in Pid, Exit2(p)
        PROVE  pc' = [pc EXCEPT ![p] = "exited"] /\ local' = [local EXCEPT ![p] = NoLocals]
               /\ cpu = p /\ pc[p] = "exit2"
    BY <2>3 DEF Exit2, At, Goto
  <2>4. ASSUME NEW p \in Pid, WalkFound(p)
        PROVE  /\ pc' = [pc EXCEPT ![p] = "walk1"] /\ cpu = p /\ pc[p] = "walk3"
               /\ local' = [local EXCEPT ![p].pointer = NULL, ![p].current = NULL,
                                         ![p].aux = NULL, ![p].astray = FALSE]
    BY <2>4 DEF WalkFound, At, Goto
  <2>5. ASSUME NEW p \in Pid, WalkFound(p)
        PROVE  /\ local'[p].target = local[p].target /\ local'[p].wasAlive = local[p].wasAlive
               /\ pc'[p] = "walk1" /\ pc[p] = "walk3"
               /\ q # p => pc'[q] = pc[q] /\ local'[q] = local[q] /\ cpu # q
    <3>1. local[p] \in Locals /\ pc'[p] = "walk1" /\ pc[p] = "walk3" /\ cpu = p
      BY <2>4, <2>5, <1>t
    <3>2. /\ local' = [local EXCEPT ![p].pointer = NULL, ![p].current = NULL,
                                    ![p].aux = NULL, ![p].astray = FALSE]
          /\ pc' = [pc EXCEPT ![p] = "walk1"]
      BY <2>4, <2>5
    <3>3. local'[p].target = local[p].target /\ local'[p].wasAlive = local[p].wasAlive
      BY <3>1, <3>2, <1>t, SMTT(30) DEF Locals
    <3>4. q # p => pc'[q] = pc[q] /\ local'[q] = local[q]
      BY <3>2, <1>t, SMTT(30)
    <3> QED BY <3>1, <3>3, <3>4
  <2>6. ASSUME NEW p \in Pid, Exit2(p)
        PROVE  /\ pc'[p] = "exited" /\ pc[p] = "exit2" /\ cpu = p
               /\ q # p => pc'[q] = pc[q] /\ local'[q] = local[q] /\ cpu # q
    BY <2>3, <2>6, <1>t
  <2>7. PICK p \in Pid : FirstTick \/ Tick(p) \/ Yield(p) \/ LockBusy(p) \/ Exit2(p) \/ WalkFound(p)
    BY DEF FirstTick
  <2> QED BY <2>1, <2>2, <2>5, <2>6, <2>7
<1>4. WalkHeld'
  <2> SUFFICES ASSUME NEW q \in Pid, pc'[q] \in {"wait2", "walk2", "walk3"} PROVE Walker(q)'
    BY DEF WalkHeld, Walker
  <2>1. pc'[q] = pc[q] /\ local'[q] = local[q] /\ (cpu = q => pc[q] \notin {"wait2", "walk2"})
    BY <1>3
  <2>2. Walker(q)
    BY DEF WalkInv, WalkHeld
  <2>3. pc[q] = "walk3"
    BY <2>1, <2>2 DEF Walker
  <2>4. Ring # <<>>
    <3>1. CASE cpu \in Pid
      BY <3>1, RunnerIs
    <3>2. CASE FirstTick
      BY <3>2 DEF FirstTick, IInv, KernelLeft
    <3> QED BY <3>1, <3>2 DEF Tick, Yield, LockBusy, Exit2, WalkFound, At
  <2>5. OnTheWay(q) => OnTheWay(q)'
    BY <1>1, <1>2, <2>1, <2>4, TurnedWay
  <2> QED BY <2>1, <2>2, <2>3, <2>5 DEF Walker
<1>5. WaitedIsOld'
  <2> SUFFICES ASSUME NEW q \in Pid, pc'[q] \in WaitPoints, local'[q].wasAlive
               PROVE  /\ local'[q].target \in 1..(nextPid' - 1)
                      /\ \A r \in Pid : HasChild(r)' /\ local'[r].newPCB \in PCB
                            => pid'[local'[r].newPCB] # local'[q].target
    BY DEF WaitedIsOld
  <2>1. /\ pc[q] \in WaitPoints /\ local'[q].target = local[q].target
        /\ local[q].wasAlive
    BY <1>3 DEF WaitPoints
  <2>2. \A r \in Pid : HasChild(r)' => HasChild(r) /\ local'[r] = local[r]
    BY <1>3 DEF HasChild
  <2> QED BY <2>1, <2>2, <1>2 DEF WalkInv, WaitedIsOld
<1>6. FinishedExited'
  <2>r. Ring \in Seq(Node) /\ m \in Nat
    BY DEF IInv, RingClosed, Closes
  <2> SUFFICES ASSUME NEW k \in 1..Len(Ring'), state'[Ring'[k]] = "FINISHED", Entry(k)' \in PCB
               PROVE  pc'[pid'[Entry(k)']] = "exited"
    BY DEF FinishedExited
  <2>1. PICK j \in 1..m : Ring'[k] = Ring[j]
    <3>1. Ring # <<>>
      <4>1. CASE Ring = <<>>
        <5>1. cpu = Kernel /\ ~firstIteration
          BY <4>1 DEF IInv, KernelLeft
        <5> QED BY <5>1, <1>c DEF FirstTick, Tick, Yield, LockBusy, Exit2, WalkFound, At
      <4> QED BY <4>1
    <3>2. Len(Ring') = m /\ \A n \in 1..m : Ring'[n] = IF n = m THEN Ring[1] ELSE Ring[n + 1]
      BY <1>1, <2>r, <3>1, Turns
    <3>3. 1 \in 1..m /\ (k # m => k + 1 \in 1..m)
      BY <2>r, <3>1, <3>2
    <3> QED BY <3>2, <3>3
  <2>2. Entry(k)' = Entry(j) /\ Entry(j) \in PCB /\ pid' = pid
    BY <2>1, <1>2 DEF Entry
  <2>3. pid[Entry(j)] \in Pid
    <3>1. Entry(j) \in occupied
      BY <2>2 DEF IInv, EntriesTaken
    <3>2. pid[Entry(j)] \in 1..(nextPid - 1) /\ nextPid \in 1..(MaxPid + 1)
      BY <3>1 DEF IInv, OwnPid, TypeOK
    <3> QED BY <3>2, MaxPidAssumption DEF Pid
  <2>4. CASE state[Ring[j]] = "FINISHED"
    <3>1. pc[pid[Entry(j)]] = "exited"
      BY <2>2, <2>4 DEF WalkInv, FinishedExited
    <3> QED BY <3>1, <2>2, <2>3, <1>3
  <2>5. CASE state[Ring[j]] # "FINISHED"
    <3>1. PICK p \in Pid : Exit2(p)
      <4>1. state' # state
        BY <2>1, <2>5
      <4> QED BY <4>1 DEF FirstTick, Tick, Yield, LockBusy, WalkFound
    <3>2. cpu = p /\ pc[p] = "exit2" /\ state' = [state EXCEPT ![next[last]] = "FINISHED"]
          /\ pc' = [pc EXCEPT ![p] = "exited"]
      BY <3>1 DEF Exit2, At, Goto, IInv, ExitAtHead
    <3>3. next[last] = Ring[1] /\ 1 \in 1..m /\ Who(1) = p
      BY <3>2, HeadOfRunner DEF Who
    <3>4. Ring[j] = Ring[1]
      <4>1. state \in [Node -> {"RUNNING", "FINISHED"}]
        BY <1>t DEF TypeOK
      <4>3. Ring[j] \in Node
        BY <2>r
      <4>2. state'[Ring[j]] # state[Ring[j]]
        BY <2>1, <2>5
      <4> QED BY <3>2, <3>3, <4>1, <4>2, <4>3
    <3>5. Entry(j) = Entry(1)
      BY <3>4 DEF Entry
    <3>6. pid[Entry(j)] = p
      BY <2>2, <3>3, <3>5, WhoIs
    <3> QED BY <2>2, <3>2, <3>6, <1>t
  <2> QED BY <2>4, <2>5
<1> QED BY <1>4, <1>5, <1>6 DEF WalkInv

(* Nor does removing a node at the head.                                   *)
LEMMA ReapWalks ==
  ASSUME IInv, IInv', WalkInv, Reap
  PROVE  WalkInv'
<1> DEFINE m == Len(Ring)
<1>c. ISR \notin Pid /\ ISR # Kernel
  BY MaxPidAssumption DEF Pid, ISR, Kernel
<1>t. pc \in [Pid -> Point] /\ local \in [Pid -> Locals] /\ TypeOK /\ TypeOK'
  BY TypeParts DEF ThreadsOK, IInv
<1>1. /\ Ring \in Seq(Node) /\ m \in Nat \ {0} /\ Ring # <<>> /\ 1 \in 1..m
      /\ next[last] = Ring[1] /\ Entry(1) = PCBIndex[next[last]]
  BY <1>c, HeadIs DEF IInv, Entry, Reap
<1>2. /\ Len(Ring') = m - 1
      /\ \A k \in 1..(m - 1) : Ring'[k] = Ring[k + 1] /\ k + 1 \in 1..m /\ k + 1 # 1
  <2>1. Ring' = Tail(Ring)
    BY <1>t, ReapStep
  <2> QED BY <2>1, <1>1, HeadTailProperties
<1>3. /\ UNCHANGED <<pc, state, PCBIndex, nextPid>> /\ cpu = ISR
      /\ \A i \in PCB : i # Entry(1) => pid'[i] = pid[i]
  BY <1>1, <1>t DEF Reap, TypeOK
<1>4. \A q \in Pid : /\ local'[q].newPCB = local[q].newPCB /\ local'[q].aux = local[q].aux
                     /\ local'[q].target = local[q].target
                     /\ local'[q].wasAlive = local[q].wasAlive
  BY <1>t, AstrayLocals DEF Reap
<1>5. WalkHeld'
  <2> SUFFICES ASSUME NEW q \in Pid, pc[q] \in {"wait2", "walk2", "walk3"} PROVE Walker(q)'
    BY <1>3 DEF WalkHeld, Walker
  <2>1. pc[q] = "walk3"
    BY <1>3, <1>c DEF WalkInv, WalkHeld, Walker
  <2>2. ~local'[q].astray => OnTheWay(q)'
    BY <2>1, <1>t, RemovedWay
  <2> QED BY <2>1, <2>2, <1>3 DEF Walker
<1>6. WaitedIsOld'
  <2> SUFFICES ASSUME NEW q \in Pid, pc[q] \in WaitPoints, local[q].wasAlive,
                      NEW r \in Pid, HasChild(r), local[r].newPCB \in PCB
               PROVE  pid'[local[r].newPCB] # local[q].target
    <3>1. \A q \in Pid : pc[q] \in WaitPoints /\ local[q].wasAlive
             => local[q].target \in 1..(nextPid - 1)
      BY DEF WalkInv, WaitedIsOld
    <3>2. \A r \in Pid : HasChild(r)' <=> HasChild(r)
      BY <1>3 DEF HasChild
    <3> QED BY <3>1, <3>2, <1>3, <1>4 DEF WaitedIsOld
  <2>1. pid[local[r].newPCB] # local[q].target
    BY DEF WalkInv, WaitedIsOld
  <2>2. local[r].newPCB # Entry(1)
    BY <1>1 DEF IInv, ChildReady
  <2> QED BY <2>1, <2>2, <1>3
<1>7. FinishedExited'
  <2> SUFFICES ASSUME NEW k \in 1..Len(Ring'), state'[Ring'[k]] = "FINISHED", Entry(k)' \in PCB
               PROVE  pc'[pid'[Entry(k)']] = "exited"
    BY DEF FinishedExited
  <2>1. k \in 1..(m - 1) /\ k + 1 \in 1..m /\ k + 1 # 1 /\ Ring'[k] = Ring[k + 1]
    BY <1>2
  <2>2. PICK j \in 1..m : j = k + 1
    BY <2>1
  <2>3. j # 1 /\ Ring'[k] = Ring[j] /\ Entry(k)' = Entry(j) /\ Entry(j) \in PCB
    BY <2>1, <2>2, <1>3 DEF Entry
  <2>4. Entry(j) # Entry(1)
    BY <2>3, <1>1 DEF IInv, EntriesTaken
  <2>5. pc[pid[Entry(j)]] = "exited"
    BY <2>3, <1>3 DEF WalkInv, FinishedExited
  <2> QED BY <2>3, <2>4, <2>5, <1>3
<1> QED BY <1>5, <1>6, <1>7 DEF WalkInv

(* Nor does a process that joins.                                          *)
LEMMA LinkWalks ==
  ASSUME IInv, IInv', WalkInv, NEW p \in Pid, Link4(p)
  PROVE  WalkInv'
<1> DEFINE m == Len(Ring)
           node == local[p].newNode
<1>t. pc \in [Pid -> Point] /\ local \in [Pid -> Locals] /\ TypeOK /\ TypeOK'
  BY TypeParts DEF ThreadsOK, IInv
<1>1. UNCHANGED <<PCBIndex, pid, local, state, nextPid, cpu>> /\ pc[p] = "link4" /\ cpu = p
      /\ pc' = [pc EXCEPT ![p] = "getPID"] /\ last' = last
  BY DEF Link4, At, Goto, pcbs
<1>2. \A q \in Pid : q # p => pc'[q] = pc[q]
  BY <1>1, <1>t
<1>p. pc'[p] = "getPID"
  BY <1>1, <1>t
<1>3. WalkHeld'
  <2> SUFFICES ASSUME NEW q \in Pid, pc'[q] \in {"wait2", "walk2", "walk3"} PROVE Walker(q)'
    BY DEF WalkHeld, Walker
  <2>1. q # p /\ pc'[q] = pc[q] /\ Walker(q)
    BY <1>2, <1>p DEF WalkInv, WalkHeld
  <2>2. pc[q] = "walk3"
    BY <2>1, <1>1 DEF Walker
  <2>3. ~local[q].astray => OnTheWay(q)'
    BY <2>2, <1>t, GrownWay
  <2> QED BY <2>1, <2>2, <2>3, <1>1 DEF Walker
<1>4. WaitedIsOld'
  <2>1. \A q \in Pid : pc'[q] \in WaitPoints => pc[q] \in WaitPoints
    BY <1>2, <1>p DEF WaitPoints
  <2>2. \A q \in Pid : HasChild(q)' => HasChild(q)
    BY <1>2, <1>p DEF HasChild
  <2> QED BY <2>1, <2>2, <1>1 DEF WalkInv, WaitedIsOld
<1>5. FinishedExited'
  <2> SUFFICES ASSUME NEW k \in 1..Len(Ring'), state'[Ring'[k]] = "FINISHED", Entry(k)' \in PCB
               PROVE  pc'[pid'[Entry(k)']] = "exited"
    BY DEF FinishedExited
  <2>1. Ring' = Append(Ring, node) /\ node \in Node /\ state[node] = "RUNNING"
    <3>1. p \in Building
      BY <1>1 DEF Building
    <3> QED BY <3>1, <1>1, <1>t, LinkStep DEF IInv, NodesUsed, NodeFilled, TypeOK
  <2>2. Ring \in Seq(Node) /\ m \in Nat
    BY DEF IInv, RingClosed, Closes
  <2>3. Len(Ring') = m + 1 /\ Ring'[m + 1] = node /\ \A n \in 1..m : Ring'[n] = Ring[n]
    BY <2>1, <2>2, AppendProperties
  <2>4. k \in 1..m
    <3>1. k \in 1..m \/ k = m + 1
      BY <2>2, <2>3
    <3> QED BY <3>1, <2>1, <2>3, <1>1
  <2>5. Entry(k)' = Entry(k) /\ state[Ring[k]] = "FINISHED"
    BY <2>3, <2>4, <1>1 DEF Entry
  <2>6. pc[pid[Entry(k)]] = "exited"
    BY <2>4, <2>5 DEF WalkInv, FinishedExited
  <2>7. pid[Entry(k)] # p
    BY <2>6, <1>1
  <2> QED BY <2>5, <2>6, <2>7, <1>1, <1>t
<1> QED BY <1>3, <1>4, <1>5 DEF WalkInv

(* Nor do the other steps, which leave the ring as it is: waitpid of a     *)
(* process that is alive does not look for one that is being created, and  *)
(* createProcess gives out pids that nobody has waited for.                *)
LEMMA SettledWalks ==
  ASSUME IInv, IInv', WalkInv, NEW p \in Pid,
         \/ Dispatch \/ UNCHANGED vars
         \/ CallCreate(p) \/ CallExit(p) \/ \E target \in Waited : CallWait(p, target)
         \/ Lock(p) \/ getFreeNode(p) \/ GetPID(p) \/ Unlock(p)
         \/ Wait2(p) \/ Walk1(p) \/ Walk2(p) \/ Walk3(p) \/ WaitReturn(p)
         \/ createProcess(p) \/ createProcessFails(p)
         \/ FillNode(p) \/ Link2(p) \/ Link3(p)
  PROVE  WalkInv'
<1>t. pc \in [Pid -> Point] /\ local \in [Pid -> Locals] /\ TypeOK /\ TypeOK'
  BY TypeParts DEF ThreadsOK, IInv
<1>c. ISR \notin Pid
  BY MaxPidAssumption DEF Pid, ISR
<1>s. Settled
  BY <1>t, Settles
<1>1. \/ /\ Dispatch \/ UNCHANGED vars
         /\ UNCHANGED <<pc, local, last>> /\ (cpu' = cpu \/ cpu = ISR)
      \/ cpu = p /\ cpu' = p
  BY DEF Dispatch, vars, nodes, pcbs, threads, CallCreate, CallExit, CallWait, Lock, getFreeNode, GetPID, Unlock,
         Wait2, Walk1, Walk2, Walk3, WaitReturn, createProcess, createProcessFails, FillNode, Link2,
         Link3, Unmoved, At
<1>2. \A q \in Pid : q # p => pc'[q] = pc[q] /\ local'[q] = local[q]
  BY <1>t
     DEF Dispatch, vars, threads, CallCreate, CallExit, CallWait, Lock, getFreeNode, GetPID, Unlock,
         Wait2, Walk1, Walk2, Walk3, WaitReturn, createProcess, createProcessFails, FillNode, Link2,
         Link3, At, Goto, Return
<1>3. ASSUME CallCreate(p) \/ CallExit(p) \/ Lock(p) \/ getFreeNode(p) \/ GetPID(p) \/ Unlock(p)
             \/ createProcess(p) \/ createProcessFails(p) \/ FillNode(p) \/ Link2(p) \/ Link3(p)
      PROVE  pc'[p] \notin WaitPoints
  BY <1>3, <1>t
     DEF CallCreate, CallExit, Lock, getFreeNode, GetPID, Unlock, createProcess, createProcessFails,
         FillNode, Link2, Link3, At, Goto, Return, WaitPoints
<1>4. WalkHeld'
  <2> SUFFICES ASSUME NEW q \in Pid, pc'[q] \in {"wait2", "walk2", "walk3"} PROVE Walker(q)'
    BY DEF WalkHeld, Walker
  <2>w. Walker(q)
    BY DEF WalkInv, WalkHeld
  <2>1. CASE pc'[q] = pc[q] /\ local'[q] = local[q]
           /\ (pc[q] \in {"wait2", "walk2"} => cpu' = cpu /\ last' = last)
    <3>1. OnTheWay(q) => OnTheWay(q)'
      BY <2>1, <1>s, SettledWay
    <3> QED BY <2>1, <2>w, <3>1 DEF Walker
  <2>2. CASE q = p /\ (\/ \E target \in Waited : CallWait(p, target)
                       \/ Wait2(p) \/ Walk1(p) \/ Walk2(p) \/ Walk3(p) \/ WaitReturn(p))
    BY <2>2, <2>w, WalkerStep
  <2>3. CASE Dispatch \/ UNCHANGED vars
    <3>1. UNCHANGED <<pc, local, last>> /\ (cpu' = cpu \/ cpu = ISR)
      BY <2>3 DEF Dispatch, vars, nodes, pcbs, threads
    <3>2. pc[q] \in {"wait2", "walk2"} => cpu' = cpu
      BY <3>1, <2>w, <1>c DEF Walker
    <3> QED BY <3>1, <3>2, <2>1
  <2>4. CASE q # p /\ cpu = p
    <3>1. pc[q] \notin {"wait2", "walk2"}
      BY <2>4, <2>w DEF Walker
    <3> QED BY <3>1, <2>4, <1>2, <2>1
  <2> QED BY <1>1, <1>3, <2>2, <2>3, <2>4 DEF WaitPoints
<1>5. WaitedIsOld'
  <2>n. nextPid \in Int /\ nextPid' \in Int /\ nextPid' >= nextPid
    <3>1. nextPid \in Int
      BY <1>t DEF TypeOK
    <3>2. nextPid' = nextPid \/ nextPid' = nextPid + 1
      BY DEF Dispatch, vars, pcbs, CallCreate, CallExit, CallWait, Lock, getFreeNode, GetPID, Unlock,
             Wait2, Walk1, Walk2, Walk3, WaitReturn, createProcess, createProcessFails, FillNode,
             Link2, Link3, Unmoved
    <3> QED BY <3>1, <3>2
  <2> SUFFICES ASSUME NEW q \in Pid, pc'[q] \in WaitPoints, local'[q].wasAlive
               PROVE  /\ local'[q].target \in 1..(nextPid - 1)
                      /\ \A r \in Pid : HasChild(r)' /\ local'[r].newPCB \in PCB
                            => pid'[local'[r].newPCB] # local'[q].target
    BY <2>n DEF WaitedIsOld
  <2>1. /\ local'[q].target \in 1..(nextPid - 1)
        /\ \A r \in Pid : HasChild(r) /\ local[r].newPCB \in PCB
              => pid[local[r].newPCB] # local'[q].target
    <3>1. CASE pc[q] \in WaitPoints /\ local[q].wasAlive /\ local'[q].target = local[q].target
      BY <3>1 DEF WalkInv, WaitedIsOld
    <3>2. CASE q = p /\ \E target \in Waited : CallWait(p, target)
      <4>1. PICK target \in Waited : CallWait(p, target)
        BY <3>2
      <4>2. local'[q].target = target /\ local'[q].wasAlive = Alive(target)
        BY <3>2, <4>1, <1>t DEF CallWait, NoLocals
      <4>3. PICK k \in 1..Len(Ring) : Who(k) = target
        BY <4>2 DEF Alive, Who
      <4>4. Entry(k) \in PCB /\ pid[Entry(k)] = target
        BY <4>3, WhoIs, WaitedAssumption, MaxPidAssumption DEF Pid
      <4>5. Entry(k) \in occupied
        BY <4>4 DEF IInv, EntriesTaken
      <4>6. target \in 1..(nextPid - 1)
        BY <4>4, <4>5 DEF IInv, OwnPid
      <4>7. ASSUME NEW r \in Pid, HasChild(r), local[r].newPCB \in PCB
            PROVE  pid[local[r].newPCB] # target
        <5>1. local[r].newPCB \in occupied /\ Entry(k) # local[r].newPCB
          BY <4>7 DEF IInv, ChildReady
        <5> QED BY <5>1, <4>4, <4>5 DEF IInv, OwnPid
      <4> QED BY <4>2, <4>6, <4>7
    <3>3. CASE Dispatch \/ UNCHANGED vars
      BY <3>1, <3>3 DEF Dispatch, vars, threads
    <3>4. CASE q # p
      BY <3>1, <3>4, <1>2
    <3>5. CASE q = p /\ (Wait2(p) \/ Walk1(p) \/ Walk2(p) \/ Walk3(p) \/ WaitReturn(p))
      <4>1. pc[p] \in WaitPoints
        BY <3>5 DEF Wait2, Walk1, Walk2, Walk3, WaitReturn, At, WaitPoints
      <4>2. ~WaitReturn(p)
        BY <1>t, <3>5 DEF WaitReturn, Goto, Return, WaitPoints
      <4>3. local'[p].target = local[p].target /\ local'[p].wasAlive = local[p].wasAlive
        <5>1. CASE Wait2(p)
          <6>1. local' = local
            BY <5>1, <1>t, <3>5 DEF Wait2, Return, Goto, WaitPoints
          <6> QED BY <6>1
        <5>2. CASE Walk1(p)
          BY <5>2, <1>t DEF Walk1, Locals
        <5>3. CASE Walk2(p)
          BY <5>3, <1>t DEF Walk2, Locals
        <5>4. CASE Walk3(p)
          BY <5>4, <1>t DEF Walk3, Locals
        <5> QED BY <5>1, <5>2, <5>3, <5>4, <3>5, <4>2
      <4> QED BY <3>1, <3>5, <4>1, <4>3
    <3> QED BY <1>3, <3>2, <3>3, <3>4, <3>5
  <2> SUFFICES ASSUME NEW r \in Pid, HasChild(r)', local'[r].newPCB \in PCB
               PROVE  pid'[local'[r].newPCB] # local'[q].target
    BY <2>1
  <2>2. CASE HasChild(r) /\ local'[r].newPCB = local[r].newPCB
    <3>1. local[r].newPCB \in occupied
      BY <2>2 DEF IInv, ChildReady
    <3>2. pid'[local[r].newPCB] = pid[local[r].newPCB]
      <4>1. CASE createProcess(p) \/ createProcessFails(p)
        <5>1. PCB \ occupied \in SUBSET Nat /\ (occupied # PCB => PCB \ occupied # {})
          BY NodesAreNat DEF IInv, TypeOK
        <5>2. occupied # PCB => Lowest(PCB \ occupied) \notin occupied
          BY <5>1, LowestFree
        <5> QED BY <3>1, <4>1, <5>2 DEF createProcess, createProcessFails, IInv, TypeOK
      <4>2. CASE ~(createProcess(p) \/ createProcessFails(p))
        <5>1. pid' = pid
          BY <4>2
             DEF Dispatch, vars, pcbs, CallCreate, CallExit, CallWait, Lock, getFreeNode, GetPID,
                 Unlock, Wait2, Walk1, Walk2, Walk3, WaitReturn, FillNode, Link2, Link3, Unmoved
        <5> QED BY <5>1
      <4> QED BY <4>1, <4>2
    <3> QED BY <2>1, <2>2, <3>2
  <2>3. CASE createProcess(p) /\ r = p
    <3>1. local'[p].newPCB = Lowest(PCB \ occupied)
      BY <2>3, <1>t DEF createProcess, Locals
    <3>2. pid'[local'[p].newPCB] = nextPid
      BY <2>3, <3>1, <1>t DEF createProcess, TypeOK
    <3> QED BY <2>1, <2>3, <2>n, <3>2
  <2>4. CASE createProcessFails(p) /\ r = p
    <3>1. local'[p].newPCB = BadPCB
      BY <2>4 DEF createProcessFails, At, IInv, NoChildYet
    <3>2. BadPCB \notin PCB
      BY MaxProcessesAssumption DEF BadPCB, PCB
    <3> QED BY <2>4, <3>1, <3>2
  <2>5. CASE r # p
    BY <2>2, <2>5, <1>2 DEF HasChild
  <2>6. CASE r = p /\ ~createProcess(p) /\ ~createProcessFails(p)
    <3>1. CASE Dispatch \/ UNCHANGED vars
      <4>1. UNCHANGED <<pc, local>>
        BY <3>1 DEF Dispatch, vars, threads
      <4> QED BY <4>1, <2>2, <2>6 DEF HasChild
    <3>2. CASE \/ CallCreate(p) \/ CallExit(p) \/ \E target \in Waited : CallWait(p, target)
               \/ Lock(p) \/ getFreeNode(p) \/ GetPID(p) \/ Unlock(p)
               \/ Wait2(p) \/ Walk1(p) \/ Walk2(p) \/ Walk3(p) \/ WaitReturn(p)
      <4>1. pc'[p] \notin {"fill", "link2", "link3", "link4"}
        BY <3>2, <1>t
           DEF CallCreate, CallExit, CallWait, Lock, getFreeNode, GetPID, Unlock, Wait2,
               Walk1, Walk2, Walk3, WaitReturn, At, Goto, Return
      <4> QED BY <4>1, <2>6 DEF HasChild
    <3>3. CASE FillNode(p) \/ Link2(p) \/ Link3(p)
      <4>1. HasChild(p)
        BY <3>3 DEF FillNode, Link2, Link3, At, HasChild
      <4>2. local'[p].newPCB = local[p].newPCB
        BY <3>3, <1>t DEF FillNode, Link2, Link3, Locals
      <4> QED BY <4>1, <4>2, <2>2, <2>6
    <3> QED BY <2>6, <3>1, <3>2, <3>3
  <2> QED BY <2>3, <2>4, <2>5, <2>6
<1>6. FinishedExited'
  <2> SUFFICES ASSUME NEW k \in 1..Len(Ring'), state'[Ring'[k]] = "FINISHED", Entry(k)' \in PCB
               PROVE  pc'[pid'[Entry(k)']] = "exited"
    BY DEF FinishedExited
  <2>1. k \in 1..Len(Ring) /\ state[Ring[k]] = "FINISHED" /\ Entry(k)' = Entry(k)
        /\ Entry(k) \in PCB /\ pid'[Entry(k)] = pid[Entry(k)]
    BY <1>s DEF Settled
  <2>2. pc[pid[Entry(k)]] = "exited"
    BY <2>1 DEF WalkInv, FinishedExited
  <2>3. pid[Entry(k)] \in Pid
    <3>1. Entry(k) \in occupied
      BY <2>1 DEF IInv, EntriesTaken
    <3>2. pid[Entry(k)] \in 1..(nextPid - 1) /\ nextPid \in 1..(MaxPid + 1)
      BY <3>1 DEF IInv, OwnPid, TypeOK
    <3> QED BY <3>2, MaxPidAssumption DEF Pid
  <2>4. cpu # pid[Entry(k)]
    BY <2>2, <2>3 DEF IInv, ExitedFinished
  <2>5. pc'[pid[Entry(k)]] = pc[pid[Entry(k)]]
    BY <2>3, <2>4, <1>1, <1>2
  <2> QED BY <2>1, <2>2, <2>5
<1> QED BY <1>4, <1>5, <1>6 DEF WalkInv

(* So every step keeps the walks on their way.                             *)
LEMMA WalkStep ==
  ASSUME IInv, IInv', WalkInv, TicksSpareWalks, [Next]_vars
  PROVE  WalkInv'
<1>1. \E p \in Pid : TRUE
  BY MaxPidAssumption DEF Pid
<1>2. CASE UNCHANGED vars
  BY <1>1, <1>2, SettledWalks
<1>3. CASE Interrupt \/ finishKernel
  <2>1. Dispatch \/ finishKernel => WalkInv'
    BY <1>1, <1>2, SettledWalks DEF finishKernel
  <2> QED BY <1>3, <2>1, SwitchWalks, ReapWalks DEF Interrupt
<1>4. ASSUME NEW p \in Pid, Tick(p) \/ SystemCall(p) \/ User(p) PROVE WalkInv'
  BY <1>4, SwitchWalks, LinkWalks, SettledWalks DEF SystemCall, User, Create, Wait
<1> QED BY <1>2, <1>3, <1>4 DEF Next

(* waitpid returns for the caller's own pid, or at the end of a walk that  *)
(* left nothing of the ring before it.                                     *)
LEMMA WaitSettles ==
  ASSUME IInv, WalkInv, [Next]_vars, NEW p \in Pid, pc[p] \in WaitPoints, pc'[p] = "user",
         local[p].wasAlive, ~local[p].astray
  PROVE  local[p].target = p \/ ~Alive(local[p].target)
<1>t. pc \in [Pid -> Point] /\ local \in [Pid -> Locals]
  BY TypeParts DEF IInv, ThreadsOK
<1>w. Walker(p)
  BY DEF WalkInv, WalkHeld
<1>1. Wait2(p) \/ WaitReturn(p)
  <2>1. ~UNCHANGED vars /\ ~finishKernel /\ ~FirstTick /\ ~Reap /\ ~Dispatch
    BY DEF vars, threads, finishKernel, FirstTick, Reap, Dispatch, WaitPoints
  <2>2. ASSUME NEW q \in Pid, q # p, Tick(q) \/ SystemCall(q) \/ User(q) PROVE FALSE
    BY <2>2, <1>t
       DEF Tick, SystemCall, User, Create, Wait, Lock, LockBusy, getFreeNode, createProcess,
           createProcessFails, FillNode, Link2, Link3, Link4, GetPID, Unlock, Exit2, Wait2,
           Walk1, Walk2, Walk3, WalkFound, WaitReturn, Yield, CallCreate, CallExit,
           CallWait, Goto, Return, threads, WaitPoints
  <2>3. PICK q \in Pid : Tick(q) \/ SystemCall(q) \/ User(q)
    BY <2>1 DEF Next, Interrupt
  <2>4. Tick(p) \/ SystemCall(p) \/ User(p)
    BY <2>2, <2>3
  <2>5. ~Tick(p) /\ ~Create(p) /\ ~Exit2(p) /\ ~User(p)
    BY <1>t
       DEF Tick, Create, Lock, LockBusy, getFreeNode, createProcess, createProcessFails,
           FillNode, Link2, Link3, Link4, GetPID, Unlock, Exit2, User, Yield, CallCreate,
           CallExit, CallWait, At, WaitPoints, threads
  <2>6. ~Walk1(p) /\ ~Walk2(p) /\ ~Walk3(p) /\ ~WalkFound(p)
    BY <1>t DEF Walk1, Walk2, Walk3, WalkFound, At, Goto, WaitPoints
  <2> QED BY <2>4, <2>5, <2>6 DEF SystemCall, Wait
<1>u. cpu = p /\ pc[p] \notin {"link3", "link4"}
  BY <1>1 DEF Wait2, WaitReturn, At
<1>h. /\ Ring \in Seq(Node) /\ Len(Ring) \in Nat \ {0} /\ last \in Node
      /\ next[last] = Ring[1] /\ 1 \in 1..Len(Ring) /\ Who(1) = p
  BY <1>u, HeadOfRunner DEF Who
<1>2. CASE Wait2(p)
  <2>1. local[p].aux = last
    BY <1>2, <1>w DEF Wait2, At, Walker
  <2>2. local[p].target = getProcessPID(PCBIndex[next[local[p].aux]])
    BY <1>2, <1>t DEF Wait2, Goto
  <2> QED BY <2>1, <2>2, <1>h DEF Who, QueuedAt
<1>3. CASE WaitReturn(p)
  <2>1. pc[p] = "walk3" /\ ~Found(p) /\ WalkEnd(p)
    BY <1>3 DEF WaitReturn, At
  <2>2. PICK c \in 1..Len(Ring), i \in 1..Len(Ring) :
           /\ local[p].current = Ring[c] /\ Who(c) = p
           /\ local[p].pointer = Ring[i]
           /\ \A k \in 1..Len(Ring) : Who(k) = local[p].target => Before(i, k, c)
    BY <2>1, <1>w DEF Walker, OnTheWay
  <2>3. c = 1
    BY <1>u, <2>2, WhoIs, RunnerIs, MaxPidAssumption DEF Pid
  <2>4. i = Len(Ring)
    <3>1. next[Ring[i]] = Ring[1]
      BY <2>1, <2>2, <2>3 DEF WalkEnd
    <3>2. i # Len(Ring) => next[Ring[i]] = Ring[i + 1] /\ i + 1 \in 1..Len(Ring) /\ i + 1 # 1
      BY <1>h DEF IInv, RingClosed, Closes
    <3> QED BY <3>1, <3>2, <1>h DEF IInv, RingClosed, Closes
  <2>5. Who(i) # local[p].target
    BY <2>1, <2>2 DEF Found, Who, QueuedAt
  <2>6. ASSUME NEW k \in 1..Len(Ring), Who(k) = local[p].target PROVE FALSE
    <3>1. Before(i, k, 1)
      BY <2>2, <2>3, <2>6
    <3>2. k = i
      BY <1>h, <2>4, <3>1 DEF Before
    <3> QED BY <2>5, <2>6, <3>2
  <2> QED BY <2>6 DEF Alive, Who
<1> QED BY <1>1, <1>2, <1>3

(* waitpid of another process, alive when it was called, does not return   *)
(* before that process has finished, for every number of processes and     *)
(* whatever fails in createProcess, wherever ticks suspend its walk of the *)
(* list, while others are created, exit and are removed; unless the node   *)
(* the walk stood on was itself given back (scheduler.c:141-157,           *)
(* process.c:304-310).  Ticks spare enqueueProcess's stores, finishProcess *)
(* and the two places where waitpid has read last and not yet followed it. *)
THEOREM WaitpidDoesWait ==
  ASSUME TicksSpareWalks
  PROVE  Spec => WaitpidWaits
<1>1. Spec => []IInv
  BY SchedulerInvariant DEF TicksSpareWalks
<1>2. Init => WalkInv
  <2> SUFFICES ASSUME Init PROVE WalkInv
    OBVIOUS
  <2>1. WalkHeld /\ WaitedIsOld
    BY DEF Init, WalkHeld, Walker, WaitedIsOld, WaitPoints
  <2>2. Ring \in Seq(Node) /\ state = [n \in Node |-> "RUNNING"]
    BY InitInv DEF Init, IInv, RingClosed, Closes
  <2>3. FinishedExited
    BY <2>2 DEF FinishedExited
  <2> QED BY <2>1, <2>3 DEF WalkInv
<1>3. IInv /\ IInv' /\ WalkInv /\ [Next]_vars => WalkInv'
  BY WalkStep
<1>4. IInv /\ WalkInv /\ [Next]_vars =>
        [\A p \in Pid : /\ pc[p] \in WaitPoints /\ pc'[p] = "user"
                        /\ local[p].wasAlive /\ ~local[p].astray
            => local[p].target = p \/ ~Alive(local[p].target)]_vars
  BY WaitSettles
<1> QED BY <1>1, <1>2, <1>3, <1>4, PTL DEF Spec, WaitpidWaits
=============================================================================

------------------------ MODULE MessageQueuesProofs ------------------------
(* For any number of processes, queues, files and names, wherever ticks    *)
(* come: openMutex and closeMutex exclude; an open queue stays open and    *)
(* its end its owner's, links and the counters count, no file is lost, and *)
(* MQopen fails for its reasons only, each as long as the updates it rests *)
(* on have not been lost (the faults of MessageQueues).  And the file      *)
(* behind a queue, of any size, is a bounded FIFO of bytes.                *)
(*                                                                         *)
(* The invariant comes in five layers, each resting on those before it:    *)
(* Base (types, mutexes, what the stacks say), Files (queues and files),   *)
(* Counts (numMQs and numFiles), Links (descriptors, ends and links), and  *)
(* Searches (what the searches of MQopen have found).                      *)
EXTENDS MessageQueues, BasicFile, WellFoundedInduction, FiniteSetTheorems, SequenceTheorems, TLAPS

Local == [name : Name \cup {NoName}, flags : Modes \cup {{}}, index : Slot \cup {NULL, MaxMQs},
          file : FileSlot \cup {NULL, MaxFiles}, seen : 0..MaxMQs, count : Counter,
          fd : FD \cup {NULL}, rollback : BOOLEAN, ok : BOOLEAN]
Descriptor == [index : Slot \cup {NULL}, flags : Modes \cup {{}}, name : Name \cup {NoName}]
Queue == [file : FileSlot \cup {NULL}, links : Counter,
          readPID : Proc \cup {NoPID}, writePID : Proc \cup {NoPID}]

(* The points at which index is that of the call's queue, and those at     *)
(* which a failed open is undone.                                          *)
Indexing == ClosePoints \cup {"room", "search", "countFile", "newMQ", "countMQ", "mark",
                              "markStore", "addFile", "link"}
Undoing  == (ClosePoints \ {"removeFile"}) \cup {"openUnlock"}
Wanting  == OpenPoints \ {"link", "openUnlock"}

(* What the stack l of a process at point x says, with descriptors f.      *)
StackIs(x, l, f) ==
  /\ l.rollback => x \in Undoing
  /\ x \in OpenPoints \ {"openUnlock"} \/ l.rollback => l.name \in Name /\ l.flags \in Modes
  /\ x \in Indexing => l.index \in Slot
  /\ x \in {"find", "slot"} => l.index \in 0..MaxMQs
  /\ l.seen > 0 => x = "find" /\ l.seen <= l.index
  /\ x = "search" => l.file \in 0..MaxFiles
  /\ x \in {"countFile", "newMQ"} => l.file \in FileSlot
  /\ x \in Wanting \/ l.rollback => \A d \in FD : f[d].name # l.name
  /\ x = "link" => \E d \in FD : f[d] = [index |-> l.index, flags |-> l.flags, name |-> l.name]
  /\ x \in OpenPoints \/ l.rollback => l.fd = NULL
  /\ x \in ClosePoints /\ ~l.rollback => l.fd \in FD /\ f[l.fd] # Closed /\ f[l.fd].index = l.index

(* What the descriptors of a process say.                                  *)
DescriptorsAre(f) ==
  /\ \A d \in FD : f[d] # Closed => f[d].index \in Slot /\ f[d].flags \in Modes /\ f[d].name \in Name
  /\ \A d, e \in FD : f[d].name = f[e].name /\ f[d].name # NoName => d = e

TablesTyped == /\ mqs \in [Slot -> Queue] /\ numMQs \in Counter /\ numFiles \in Counter
               /\ filesTable \in [FileSlot -> Name \cup {NoName}]
               /\ orphans \subseteq FileSlot \cup {NULL}
StacksTyped == /\ pc \in [Proc -> Point] /\ local \in [Proc -> Local]
               /\ fds \in [Proc -> [FD -> Descriptor]]
               /\ alive \subseteq Proc /\ cpu \in Proc
               /\ \A p \in Proc : StackIs(pc[p], local[p], fds[p]) /\ DescriptorsAre(fds[p])
               /\ \A p \in Proc \ alive : pc[p] = "user"
Recorded == Faulty \subseteq faults /\ faults \subseteq {"links", "counts", "joined", "passed", "undone"}

(* Whether a process that is at point x, undoing an open or not, is between*)
(* the lock and the unlock of each mutex.                                  *)
InOpenAt(x, rollback) == x \in OpenPoints \ {"openLock"} \/ (rollback /\ x \in ClosePoints)
InCloseAt(x) == x \in ClosePoints \ {"closeLock", "removeFile"}

(* A mutex is free and nobody is inside, or taken and one process is.      *)
Guards(mutex, inside) == \/ mutex = 0 /\ inside = {}
                         \/ mutex = 1 /\ \E p \in Proc : inside = {p}

Base == TablesTyped /\ StacksTyped /\ Recorded /\ Guards(openMutex, Opening) /\ Guards(closeMutex, InClose)

-----------------------------------------------------------------------------
(* The locals a call starts from, and a closed descriptor, are well typed. *)
LEMMA Blanks == /\ NoLocals \in Local /\ Closed \in Descriptor /\ FreeMQ \in Queue
                /\ \A f : StackIs("user", NoLocals, f)
<1>1. NoLocals \in Local /\ FreeMQ \in Queue
  BY SizesAssumption, WrapAssumption DEF NoLocals, Local, Counter, FreeMQ, Queue
<1>2. Closed \in Descriptor
  BY DEF Closed, Descriptor
<1>3. \A f : StackIs("user", NoLocals, f)
  BY DEF StackIs, NoLocals, OpenPoints, ClosePoints, Indexing, Wanting
<1> QED BY <1>1, <1>2, <1>3

(* Counters stay counters, and do not wrap within their bounds.            *)
LEMMA Counting ==
  ASSUME NEW n \in Counter
  PROVE  /\ Up(n) \in Counter /\ Down(n) \in Counter
         /\ n + 1 < Wrap => Up(n) = n + 1
         /\ n > 0 => Down(n) = n - 1
<1>1. Wrap \in Nat /\ Wrap > 3 /\ n \in Nat /\ n < Wrap
  BY WrapAssumption DEF Counter
<1>2. Up(n) \in Counter /\ Down(n) \in Counter
  BY <1>1 DEF Up, Down, Counter
<1>3. n + 1 < Wrap => Up(n) = n + 1
  BY <1>1 DEF Up
<1>4. n > 0 => Down(n) = n - 1
  BY <1>1 DEF Down
<1> QED BY <1>2, <1>3, <1>4

(* Lowest finds the lowest of any set of numbers.                          *)
LEMMA LowestIs ==
  ASSUME NEW S \in SUBSET Nat
  PROVE  /\ S # {} => Lowest(S) \in S
         /\ (LowestOrNull(S) = NULL) <=> (S = {})
         /\ S # {} => LowestOrNull(S) \in S
<1>1. CASE S # {}
  <2>1. PICK i \in S : \A j \in S : ~ (<<j, i>> \in OpToRel(<, Nat))
    BY <1>1, NatLessThanWellFounded, WFMin
  <2>2. \A j \in S : ~(j < i)
    BY <2>1 DEF OpToRel
  <2>3. \A j \in S : i <= j
    BY <2>2
  <2>4. Lowest(S) \in S
    BY <2>3 DEF Lowest
  <2> QED BY <1>1, <2>4 DEF LowestOrNull, NULL
<1>2. CASE S = {}
  BY <1>2 DEF LowestOrNull
<1> QED BY <1>1, <1>2

(* Processes, slots, files and descriptors are finitely many numbers.      *)
LEMMA Numbers ==
  /\ Proc \subseteq Nat /\ IsFiniteSet(Proc) /\ Proc # {}
  /\ Slot \subseteq Nat /\ IsFiniteSet(Slot) /\ Cardinality(Slot) = MaxMQs
  /\ FileSlot \subseteq Nat /\ IsFiniteSet(FileSlot) /\ Cardinality(FileSlot) = MaxFiles
  /\ FD \subseteq Nat /\ IsFiniteSet(FD) /\ Cardinality(FD) = MaxFDs
  /\ NULL \notin Slot /\ NULL \notin FileSlot /\ NULL \notin FD /\ NoPID \notin Proc
  /\ NoName \notin Name
<1>1. Proc \subseteq Nat /\ IsFiniteSet(Proc) /\ Proc # {}
  <2>1. 1 \in Proc /\ Proc \subseteq Nat
    BY SizesAssumption DEF Proc
  <2>2. IsFiniteSet(Proc)
    BY SizesAssumption, FS_Interval DEF Proc
  <2> QED BY <2>1, <2>2
<1>2. Slot \subseteq Nat /\ IsFiniteSet(Slot) /\ Cardinality(Slot) = MaxMQs
  BY SizesAssumption, FS_Interval DEF Slot
<1>3. FileSlot \subseteq Nat /\ IsFiniteSet(FileSlot) /\ Cardinality(FileSlot) = MaxFiles
  BY SizesAssumption, FS_Interval DEF FileSlot
<1>4. FD \subseteq Nat /\ IsFiniteSet(FD) /\ Cardinality(FD) = MaxFDs
  BY SizesAssumption, FS_Interval DEF FD
<1> QED BY <1>1, <1>2, <1>3, <1>4, NameAssumption DEF NULL, NoPID

(* The process that runs next is one of those that may.                    *)
LEMMA AfterIs ==
  ASSUME NEW p \in Proc, NEW running \in SUBSET Proc, running # {}
  PROVE  After(p, running) \in running
<1>1. running \in SUBSET Nat /\ {q \in running : q > p} \in SUBSET Nat
  BY Numbers
<1>2. /\ Lowest(running) \in running
      /\ {q \in running : q > p} # {} => Lowest({q \in running : q > p}) \in running
  BY <1>1, LowestIs
<1> QED BY <1>2 DEF After

(* A mutex goes from m to n as a process goes into its section, out of it, *)
(* or neither.                                                             *)
Fits(m, n, before, after) == \/ n = m /\ (before <=> after)
                             \/ m = 0 /\ n = 1 /\ ~before /\ after
                             \/ n = 0 /\ before /\ ~after

(* A step of one process that fits its mutex leaves it a guard.            *)
LEMMA GuardsFit ==
  ASSUME NEW m, NEW n, NEW S, NEW T, NEW p \in Proc, NEW before \in BOOLEAN, NEW after \in BOOLEAN,
         Guards(m, S), Fits(m, n, before, after), p \in S <=> before,
         T = (S \ {p}) \cup (IF after THEN {p} ELSE {})
  PROVE  Guards(n, T)
<1>1. CASE before
  <2>1. m = 1 /\ S = {p}
    BY <1>1 DEF Guards
  <2>2. CASE after
    <3>1. n = m /\ T = {p}
      BY <1>1, <2>1, <2>2 DEF Fits
    <3> QED BY <2>1, <3>1 DEF Guards
  <2>3. CASE ~after
    <3>1. n = 0 /\ T = {}
      BY <1>1, <2>1, <2>3 DEF Fits
    <3> QED BY <3>1 DEF Guards
  <2> QED BY <2>2, <2>3
<1>2. CASE ~before /\ after
  <2>1. m = 0 /\ n = 1
    BY <1>2 DEF Fits
  <2>2. S = {} /\ T = {p}
    BY <1>2, <2>1 DEF Guards
  <2> QED BY <2>1, <2>2 DEF Guards
<1>3. CASE ~before /\ ~after
  <2>1. n = m /\ T = S
    BY <1>3 DEF Fits
  <2> QED BY <2>1
<1> QED BY <1>1, <1>2, <1>3

(* One process goes on; what that does to the two sections.                *)
Goes(p, x, l) == pc' = [pc EXCEPT ![p] = x] /\ local' = [local EXCEPT ![p] = l]

LEMMA OneMoves ==
  ASSUME StacksTyped, NEW p \in Proc, NEW x \in Point, NEW l \in Local, Goes(p, x, l)
  PROVE  /\ pc' \in [Proc -> Point] /\ local' \in [Proc -> Local]
         /\ \A q \in Proc : /\ pc'[q] = IF q = p THEN x ELSE pc[q]
                            /\ local'[q] = IF q = p THEN l ELSE local[q]
         /\ Opening' = (Opening \ {p}) \cup (IF InOpenAt(x, l.rollback) THEN {p} ELSE {})
         /\ InClose' = (InClose \ {p}) \cup (IF InCloseAt(x) THEN {p} ELSE {})
         /\ p \in Opening <=> InOpenAt(pc[p], local[p].rollback)
         /\ p \in InClose <=> InCloseAt(pc[p])
<1>1. /\ pc' \in [Proc -> Point] /\ local' \in [Proc -> Local]
      /\ \A q \in Proc : /\ pc'[q] = IF q = p THEN x ELSE pc[q]
                         /\ local'[q] = IF q = p THEN l ELSE local[q]
  BY DEF StacksTyped, Goes
<1>3. \A q \in Proc : q \in Opening <=> InOpenAt(pc[q], local[q].rollback)
  BY DEF Opening, InOpenAt
<1>4. \A q \in Proc : q \in Opening' <=> InOpenAt(pc'[q], local'[q].rollback)
  BY DEF Opening, InOpenAt
<1>5. Opening \subseteq Proc /\ Opening' \subseteq Proc
  BY DEF Opening
<1>6. Opening' = (Opening \ {p}) \cup (IF InOpenAt(x, l.rollback) THEN {p} ELSE {})
  BY <1>1, <1>3, <1>4, <1>5
<1>7. \A q \in Proc : (q \in InClose <=> InCloseAt(pc[q])) /\ (q \in InClose' <=> InCloseAt(pc'[q]))
  BY DEF InClose, InCloseAt
<1>8. InClose \subseteq Proc /\ InClose' \subseteq Proc
  BY DEF InClose
<1>9. InClose' = (InClose \ {p}) \cup (IF InCloseAt(x) THEN {p} ELSE {})
  BY <1>1, <1>7, <1>8
<1> QED BY <1>1, <1>3, <1>6, <1>7, <1>9

(* What is left to show of a step of p: where it goes, with what locals and*)
(* descriptors, and that the mutexes fit.                                  *)
LEMMA StepKeeps ==
  ASSUME Base, NEW p \in Proc, NEW x \in Point, NEW l \in Local, Goes(p, x, l),
         p \in alive, Stay, faults' = faults \cup Faulty', TablesTyped',
         fds' \in [Proc -> [FD -> Descriptor]], \A q \in Proc \ {p} : fds'[q] = fds[q],
         StackIs(x, l, fds'[p]), DescriptorsAre(fds'[p]),
         Fits(openMutex, openMutex', InOpenAt(pc[p], local[p].rollback), InOpenAt(x, l.rollback)),
         Fits(closeMutex, closeMutex', InCloseAt(pc[p]), InCloseAt(x))
  PROVE  Base'
<1>1. StacksTyped /\ Guards(openMutex, Opening) /\ Guards(closeMutex, InClose) /\ Recorded
  BY DEF Base
<1>2. /\ pc' \in [Proc -> Point] /\ local' \in [Proc -> Local]
      /\ \A q \in Proc : /\ pc'[q] = IF q = p THEN x ELSE pc[q]
                         /\ local'[q] = IF q = p THEN l ELSE local[q]
      /\ Opening' = (Opening \ {p}) \cup (IF InOpenAt(x, l.rollback) THEN {p} ELSE {})
      /\ InClose' = (InClose \ {p}) \cup (IF InCloseAt(x) THEN {p} ELSE {})
      /\ p \in Opening <=> InOpenAt(pc[p], local[p].rollback)
      /\ p \in InClose <=> InCloseAt(pc[p])
  BY <1>1, OneMoves
<1>3. l.rollback \in BOOLEAN /\ local[p].rollback \in BOOLEAN
  BY <1>1 DEF StacksTyped, Local
<1>4. /\ InOpenAt(x, l.rollback) \in BOOLEAN /\ InOpenAt(pc[p], local[p].rollback) \in BOOLEAN
      /\ InCloseAt(x) \in BOOLEAN /\ InCloseAt(pc[p]) \in BOOLEAN
  BY <1>3 DEF InOpenAt, InCloseAt
<1>5. Guards(openMutex', Opening')
  BY <1>1, <1>2, <1>4, GuardsFit
<1>6. Guards(closeMutex', InClose')
  BY <1>1, <1>2, <1>4, GuardsFit
<1>7. alive' = alive /\ cpu' = cpu
  BY DEF Stay
<1>8. StacksTyped'
  <2>1. \A q \in Proc : StackIs(pc'[q], local'[q], fds'[q]) /\ DescriptorsAre(fds'[q])
    BY <1>1, <1>2 DEF StacksTyped
  <2>2. \A q \in Proc \ alive : pc'[q] = "user"
    BY <1>1, <1>2 DEF StacksTyped
  <2> QED BY <1>1, <1>2, <1>7, <2>1, <2>2 DEF StacksTyped
<1>9. Recorded'
  <2>1. Faulty' \subseteq {"links", "counts", "joined", "passed", "undone"}
    BY DEF Faulty, Fault
  <2> QED BY <1>1, <2>1 DEF Recorded
<1> QED BY <1>5, <1>6, <1>8, <1>9 DEF Base, Guards

(* Which of the sections a program point is in.                            *)
Sections(x) == <<x \in OpenPoints \ {"openLock"}, x \in ClosePoints, InCloseAt(x)>>

(* A step that stays where it is, as far as the mutexes go, breaks nothing.*)
LEMMA PlainStep ==
  ASSUME Base, NEW p \in Proc, NEW x \in Point, NEW l \in Local, Goes(p, x, l),
         l.rollback <=> local[p].rollback, Sections(x) = Sections(pc[p]),
         p \in alive, Stay, UNCHANGED mutexes, faults' = faults \cup Faulty', TablesTyped',
         fds' \in [Proc -> [FD -> Descriptor]], \A q \in Proc \ {p} : fds'[q] = fds[q],
         StackIs(x, l, fds'[p]), DescriptorsAre(fds'[p])
  PROVE  Base'
<1>1. openMutex' = openMutex /\ closeMutex' = closeMutex
  BY DEF mutexes
<1>2. InOpenAt(pc[p], local[p].rollback) <=> InOpenAt(x, l.rollback)
  BY DEF InOpenAt, Sections
<1>3. InCloseAt(pc[p]) <=> InCloseAt(x)
  BY DEF Sections
<1>4. /\ Fits(openMutex, openMutex', InOpenAt(pc[p], local[p].rollback), InOpenAt(x, l.rollback))
      /\ Fits(closeMutex, closeMutex', InCloseAt(pc[p]), InCloseAt(x))
  BY <1>1, <1>2, <1>3 DEF Fits
<1> QED BY <1>4, StepKeeps

(* What Base says of one process.                                          *)
LEMMA Stacks ==
  ASSUME Base, NEW p \in Proc
  PROVE  /\ local[p] \in Local /\ pc[p] \in Point
         /\ local = [local EXCEPT ![p] = local[p]] /\ pc = [pc EXCEPT ![p] = pc[p]]
         /\ StackIs(pc[p], local[p], fds[p]) /\ DescriptorsAre(fds[p])
         /\ fds \in [Proc -> [FD -> Descriptor]] /\ fds[p] \in [FD -> Descriptor]
BY DEF Base, StacksTyped

(* The same for a step that leaves all tables alone.                       *)
LEMMA StackStep ==
  ASSUME Base, NEW p \in Proc, NEW x \in Point, NEW l \in Local, Goes(p, x, l),
         l.rollback <=> local[p].rollback, Sections(x) = Sections(pc[p]),
         p \in alive, Stay, UNCHANGED <<tables, mutexes>>, faults' = faults \cup Faulty',
         StackIs(x, l, fds[p])
  PROVE  Base'
<1>1. TablesTyped' /\ fds' = fds
  BY DEF Base, TablesTyped, tables
<1>2. UNCHANGED mutexes
  OBVIOUS
<1>3. fds' \in [Proc -> [FD -> Descriptor]] /\ DescriptorsAre(fds'[p])
  BY <1>1, Stacks
<1>4. \A q \in Proc \ {p} : fds'[q] = fds[q]
  BY <1>1
<1>5. StackIs(x, l, fds'[p])
  BY <1>1
<1> QED BY <1>1, <1>2, <1>3, <1>4, <1>5, PlainStep

(* Locals with fields changed within their types.                          *)
LEMMA Changed ==
  ASSUME NEW l \in Local
  PROVE  /\ \A i \in 0..MaxMQs, s \in 0..MaxMQs : [l EXCEPT !.index = i, !.seen = s] \in Local
         /\ \A i \in 0..MaxMQs : [l EXCEPT !.index = i] \in Local
         /\ \A s \in 0..MaxMQs : [l EXCEPT !.seen = s] \in Local
         /\ \A f \in 0..MaxFiles : [l EXCEPT !.file = f] \in Local
         /\ \A n \in Counter : /\ [l EXCEPT !.count = n] \in Local
                               /\ [l EXCEPT !.ok = TRUE, !.count = n] \in Local
                               /\ [l EXCEPT !.count = n, !.file = NULL] \in Local
         /\ [l EXCEPT !.rollback = TRUE] \in Local
<1>1. 0..MaxMQs \subseteq Slot \cup {NULL, MaxMQs} /\ 0..MaxFiles \subseteq FileSlot \cup {NULL, MaxFiles}
  BY SizesAssumption DEF Slot, FileSlot
<1>2. \A i \in 0..MaxMQs, s \in 0..MaxMQs : [l EXCEPT !.index = i, !.seen = s] \in Local
  BY <1>1 DEF Local
<1>3. \A i \in 0..MaxMQs : [l EXCEPT !.index = i] \in Local
  BY <1>1 DEF Local
<1>4. \A s \in 0..MaxMQs : [l EXCEPT !.seen = s] \in Local
  BY <1>1 DEF Local
<1>5. \A f \in 0..MaxFiles : [l EXCEPT !.file = f] \in Local
  BY <1>1 DEF Local
<1>6. \A n \in Counter : /\ [l EXCEPT !.count = n] \in Local
                         /\ [l EXCEPT !.ok = TRUE, !.count = n] \in Local
                         /\ [l EXCEPT !.count = n, !.file = NULL] \in Local
  BY DEF Local
<1>7. [l EXCEPT !.rollback = TRUE] \in Local
  BY DEF Local
<1> QED BY <1>2, <1>3, <1>4, <1>5, <1>6, <1>7

(* The ranges of what a step reads.                                        *)
LEMMA Bounds ==
  ASSUME Base, NEW p \in Proc
  PROVE  /\ 0 \in 0..MaxMQs /\ 0 \in 0..MaxFiles /\ local[p].seen \in 0..MaxMQs
         /\ numFiles \in Counter /\ numMQs \in Counter /\ 0 \in Counter
         /\ local[p].index \in Slot => mqs[local[p].index] \in Queue /\ mqs[local[p].index].links \in Counter
         /\ \A n \in 0..MaxMQs : n # MaxMQs => n + 1 \in 0..MaxMQs /\ n \in Slot
         /\ \A f \in 0..MaxFiles : f < MaxFiles => f + 1 \in 0..MaxFiles /\ f \in FileSlot
         /\ local[p].seen <= local[p].index => local[p].seen \in 0..local[p].index
<1>1. local[p] \in Local /\ TablesTyped
  BY Stacks DEF Base
<1>2. local[p].seen \in 0..MaxMQs
  BY <1>1 DEF Local
<1>3. numFiles \in Counter /\ numMQs \in Counter /\ 0 \in Counter
  BY <1>1, WrapAssumption DEF TablesTyped, Counter
<1>4. local[p].index \in Slot => mqs[local[p].index] \in Queue /\ mqs[local[p].index].links \in Counter
  BY <1>1 DEF TablesTyped, Queue
<1>5. \A n \in 0..MaxMQs : n # MaxMQs => n + 1 \in 0..MaxMQs /\ n \in Slot
  BY SizesAssumption DEF Slot
<1>6. \A f \in 0..MaxFiles : f < MaxFiles => f + 1 \in 0..MaxFiles /\ f \in FileSlot
  BY SizesAssumption DEF FileSlot
<1>7. local[p].seen <= local[p].index => local[p].seen \in 0..local[p].index
  BY <1>2
<1>8. 0 \in 0..MaxMQs /\ 0 \in 0..MaxFiles
  BY SizesAssumption
<1> QED BY <1>2, <1>3, <1>4, <1>5, <1>6, <1>7, <1>8

-----------------------------------------------------------------------------
(* A round of indexOfMQ.                                                   *)
LEMMA indexOfMQKeeps ==
  ASSUME Base, NEW p \in Proc, indexOfMQ(p), faults' = faults \cup Faulty'
  PROVE  Base'
<1>1. /\ pc[p] = "find" /\ p \in alive /\ Stay /\ UNCHANGED <<tables, mutexes>>
      /\ local[p] \in Local /\ local = [local EXCEPT ![p] = local[p]]
      /\ pc = [pc EXCEPT ![p] = pc[p]]
      /\ StackIs(pc[p], local[p], fds[p]) /\ DescriptorsAre(fds[p]) /\ TablesTyped
  BY Stacks DEF indexOfMQ, At, Base
<1>r. local[p].index \in 0..MaxMQs
  BY <1>1, SizesAssumption DEF StackIs, Indexing, ClosePoints
<1>2. CASE local[p].seen >= numMQs \/ local[p].index = MaxMQs
  <2> DEFINE l == [local[p] EXCEPT !.index = 0, !.seen = 0]
  <2>1. l \in Local /\ (l.rollback <=> local[p].rollback)
    <3>1. l \in Local
      BY <1>1, <1>2, <1>r, Changed, Bounds
    <3>2. l.rollback <=> local[p].rollback
      BY <1>1 DEF Local
    <3> QED BY <3>1, <3>2
  <2>2. Goes(p, "slot", l)
    BY <1>1, <1>2 DEF indexOfMQ, Goes, Goto, Local
  <2>3. "slot" \in Point /\ Sections("slot") = Sections(pc[p])
    BY <1>1 DEF Point, Sections, InCloseAt, OpenPoints, ClosePoints
  <2>4. StackIs("slot", l, fds[p])
    BY <1>1, <1>2, SizesAssumption DEF StackIs, Indexing, Undoing, Wanting, Point, OpenPoints, ClosePoints, Local, Slot, FileSlot
  <2> HIDE DEF l
  <2> QED BY <1>1, <2>1, <2>2, <2>3, <2>4, StackStep
<1>3. CASE /\ ~(local[p].seen >= numMQs \/ local[p].index = MaxMQs)
          /\ mqs[local[p].index].file # NULL /\ filesTable[mqs[local[p].index].file] = local[p].name
  <2> DEFINE l == [local[p] EXCEPT !.seen = 0]
  <2>1. l \in Local /\ (l.rollback <=> local[p].rollback)
    <3>1. l \in Local
      BY <1>1, <1>3, <1>r, Changed, Bounds
    <3>2. l.rollback <=> local[p].rollback
      BY <1>1 DEF Local
    <3> QED BY <3>1, <3>2
  <2>2. Goes(p, "mark", l)
    BY <1>1, <1>3 DEF indexOfMQ, Goes, Goto, Local
  <2>3. "mark" \in Point /\ Sections("mark") = Sections(pc[p])
    BY <1>1 DEF Point, Sections, InCloseAt, OpenPoints, ClosePoints
  <2>4. StackIs("mark", l, fds[p])
    BY <1>1, <1>3, SizesAssumption DEF StackIs, Indexing, Undoing, Wanting, Point, OpenPoints, ClosePoints, Local, Slot, FileSlot
  <2> HIDE DEF l
  <2> QED BY <1>1, <2>1, <2>2, <2>3, <2>4, StackStep
<1>4. CASE /\ ~(local[p].seen >= numMQs \/ local[p].index = MaxMQs)
          /\ ~(mqs[local[p].index].file # NULL /\ filesTable[mqs[local[p].index].file] = local[p].name)
  <2> DEFINE l == [local[p] EXCEPT !.index = @ + 1, !.seen = IF mqs[local[p].index].file = NULL THEN @ ELSE @ + 1]
  <2>1. l \in Local /\ (l.rollback <=> local[p].rollback)
    <3>1. l \in Local
      <4> DEFINE s == IF mqs[local[p].index].file = NULL THEN local[p].seen ELSE local[p].seen + 1
      <4>1. local[p].index \in 0..MaxMQs /\ local[p].index + 1 \in 0..MaxMQs /\ local[p].seen \in 0..MaxMQs
        BY <1>1, <1>4, <1>r, Bounds
      <4>2. local[p].seen <= local[p].index
        BY <1>1, <4>1 DEF StackIs
      <4>3. s \in 0..MaxMQs
        BY <4>1, <4>2, SizesAssumption
      <4> HIDE DEF s
      <4>4. [local[p] EXCEPT !.index = local[p].index + 1, !.seen = s] \in Local
        BY <1>1, <4>1, <4>3, Changed
      <4> QED BY <1>1, <4>4 DEF s, Local
    <3>2. l.rollback <=> local[p].rollback
      BY <1>1 DEF Local
    <3> QED BY <3>1, <3>2
  <2>2. Goes(p, "find", l)
    BY <1>1, <1>4 DEF indexOfMQ, Goes, Goto, Local
  <2>3. "find" \in Point /\ Sections("find") = Sections(pc[p])
    BY <1>1 DEF Point, Sections, InCloseAt, OpenPoints, ClosePoints
  <2>4. StackIs("find", l, fds[p])
    BY <1>1, <1>4, SizesAssumption DEF StackIs, Indexing, Undoing, Wanting, Point, OpenPoints, ClosePoints, Local, Slot, FileSlot
  <2> HIDE DEF l
  <2> QED BY <1>1, <2>1, <2>2, <2>3, <2>4, StackStep
<1> QED BY <1>1, <1>2, <1>3, <1>4 DEF indexOfMQ

(* A round of findFreeSlot.                                                *)
LEMMA findFreeSlotKeeps ==
  ASSUME Base, NEW p \in Proc, findFreeSlot(p), faults' = faults \cup Faulty'
  PROVE  Base'
<1>1. /\ pc[p] = "slot" /\ p \in alive /\ Stay /\ UNCHANGED <<tables, mutexes>>
      /\ local[p] \in Local /\ local = [local EXCEPT ![p] = local[p]]
      /\ pc = [pc EXCEPT ![p] = pc[p]]
      /\ StackIs(pc[p], local[p], fds[p]) /\ DescriptorsAre(fds[p]) /\ TablesTyped
  BY Stacks DEF findFreeSlot, At, Base
<1>r. local[p].index \in 0..MaxMQs
  BY <1>1, SizesAssumption DEF StackIs, Indexing, ClosePoints
<1>2. CASE local[p].index = MaxMQs
  <2> DEFINE l == local[p]
  <2>1. l \in Local /\ (l.rollback <=> local[p].rollback)
    BY <1>1
  <2>2. Goes(p, "openUnlock", l)
    BY <1>1, <1>2 DEF findFreeSlot, Goes, Goto, Local
  <2>3. "openUnlock" \in Point /\ Sections("openUnlock") = Sections(pc[p])
    BY <1>1 DEF Point, Sections, InCloseAt, OpenPoints, ClosePoints
  <2>4. StackIs("openUnlock", l, fds[p])
    BY <1>1, <1>2, SizesAssumption DEF StackIs, Indexing, Undoing, Wanting, Point, OpenPoints, ClosePoints, Local, Slot, FileSlot
  <2> HIDE DEF l
  <2> QED BY <1>1, <2>1, <2>2, <2>3, <2>4, StackStep
<1>3. CASE local[p].index # MaxMQs /\ mqs[local[p].index].file = NULL
  <2> DEFINE l == local[p]
  <2>1. l \in Local /\ (l.rollback <=> local[p].rollback)
    BY <1>1
  <2>2. Goes(p, "room", l)
    BY <1>1, <1>3 DEF findFreeSlot, Goes, Goto, Local
  <2>3. "room" \in Point /\ Sections("room") = Sections(pc[p])
    BY <1>1 DEF Point, Sections, InCloseAt, OpenPoints, ClosePoints
  <2>4. StackIs("room", l, fds[p])
    BY <1>1, <1>3, SizesAssumption DEF StackIs, Indexing, Undoing, Wanting, Point, OpenPoints, ClosePoints, Local, Slot, FileSlot
  <2> HIDE DEF l
  <2> QED BY <1>1, <2>1, <2>2, <2>3, <2>4, StackStep
<1>4. CASE local[p].index # MaxMQs /\ mqs[local[p].index].file # NULL
  <2> DEFINE l == [local[p] EXCEPT !.index = @ + 1]
  <2>1. l \in Local /\ (l.rollback <=> local[p].rollback)
    <3>1. l \in Local
      BY <1>1, <1>4, <1>r, Changed, Bounds
    <3>2. l.rollback <=> local[p].rollback
      BY <1>1 DEF Local
    <3> QED BY <3>1, <3>2
  <2>2. Goes(p, "slot", l)
    BY <1>1, <1>4 DEF findFreeSlot, Goes, Goto, Local
  <2>3. "slot" \in Point /\ Sections("slot") = Sections(pc[p])
    BY <1>1 DEF Point, Sections, InCloseAt, OpenPoints, ClosePoints
  <2>4. StackIs("slot", l, fds[p])
    BY <1>1, <1>4, SizesAssumption DEF StackIs, Indexing, Undoing, Wanting, Point, OpenPoints, ClosePoints, Local, Slot, FileSlot
  <2> HIDE DEF l
  <2> QED BY <1>1, <2>1, <2>2, <2>3, <2>4, StackStep
<1> QED BY <1>1, <1>2, <1>3, <1>4 DEF findFreeSlot

(* The file is refused, or its search begins.                              *)
LEMMA createBasicFileKeeps ==
  ASSUME Base, NEW p \in Proc, createBasicFile(p), faults' = faults \cup Faulty'
  PROVE  Base'
<1>1. /\ pc[p] = "room" /\ p \in alive /\ Stay /\ UNCHANGED <<tables, mutexes>>
      /\ local[p] \in Local /\ local = [local EXCEPT ![p] = local[p]]
      /\ pc = [pc EXCEPT ![p] = pc[p]]
      /\ StackIs(pc[p], local[p], fds[p]) /\ DescriptorsAre(fds[p]) /\ TablesTyped
  BY Stacks DEF createBasicFile, At, Base
<1>2. CASE numFiles >= MaxFiles \/ \E f \in FileSlot : filesTable[f] = local[p].name
  <2> DEFINE l == local[p]
  <2>1. l \in Local /\ (l.rollback <=> local[p].rollback)
    BY <1>1
  <2>2. Goes(p, "openUnlock", l)
    BY <1>1, <1>2 DEF createBasicFile, Goes, Goto, Local
  <2>3. "openUnlock" \in Point /\ Sections("openUnlock") = Sections(pc[p])
    BY <1>1 DEF Point, Sections, InCloseAt, OpenPoints, ClosePoints
  <2>4. StackIs("openUnlock", l, fds[p])
    BY <1>1, <1>2, SizesAssumption DEF StackIs, Indexing, Undoing, Wanting, Point, OpenPoints, ClosePoints, Local, Slot, FileSlot
  <2> HIDE DEF l
  <2> QED BY <1>1, <2>1, <2>2, <2>3, <2>4, StackStep
<1>3. CASE ~(numFiles >= MaxFiles \/ \E f \in FileSlot : filesTable[f] = local[p].name)
  <2> DEFINE l == [local[p] EXCEPT !.file = 0]
  <2>1. l \in Local /\ (l.rollback <=> local[p].rollback)
    <3>1. l \in Local
      BY <1>1, <1>3, Changed, Bounds
    <3>2. l.rollback <=> local[p].rollback
      BY <1>1 DEF Local
    <3> QED BY <3>1, <3>2
  <2>2. Goes(p, "search", l)
    BY <1>1, <1>3 DEF createBasicFile, Goes, Goto, Local
  <2>3. "search" \in Point /\ Sections("search") = Sections(pc[p])
    BY <1>1 DEF Point, Sections, InCloseAt, OpenPoints, ClosePoints
  <2>4. StackIs("search", l, fds[p])
    BY <1>1, <1>3, SizesAssumption DEF StackIs, Indexing, Undoing, Wanting, Point, OpenPoints, ClosePoints, Local, Slot, FileSlot
  <2> HIDE DEF l
  <2> QED BY <1>1, <2>1, <2>2, <2>3, <2>4, StackStep
<1> QED BY <1>1, <1>2, <1>3 DEF createBasicFile

(* markAccess finds its end taken, or not.                                 *)
LEMMA markAccessKeeps ==
  ASSUME Base, NEW p \in Proc, markAccess(p), faults' = faults \cup Faulty'
  PROVE  Base'
<1>1. /\ pc[p] = "mark" /\ p \in alive /\ Stay /\ UNCHANGED <<tables, mutexes>>
      /\ local[p] \in Local /\ local = [local EXCEPT ![p] = local[p]]
      /\ pc = [pc EXCEPT ![p] = pc[p]]
      /\ StackIs(pc[p], local[p], fds[p]) /\ DescriptorsAre(fds[p]) /\ TablesTyped
  BY Stacks DEF markAccess, At, Base
<1>2. CASE mqs[local[p].index].file = NULL \/ mqs[local[p].index][End(local[p].flags)] # NoPID
  <2> DEFINE l == local[p]
  <2>1. l \in Local /\ (l.rollback <=> local[p].rollback)
    BY <1>1
  <2>2. Goes(p, "openUnlock", l)
    BY <1>1, <1>2 DEF markAccess, Goes, Goto, Local
  <2>3. "openUnlock" \in Point /\ Sections("openUnlock") = Sections(pc[p])
    BY <1>1 DEF Point, Sections, InCloseAt, OpenPoints, ClosePoints
  <2>4. StackIs("openUnlock", l, fds[p])
    BY <1>1, <1>2, SizesAssumption DEF StackIs, Indexing, Undoing, Wanting, Point, OpenPoints, ClosePoints, Local, Slot, FileSlot
  <2> HIDE DEF l
  <2> QED BY <1>1, <2>1, <2>2, <2>3, <2>4, StackStep
<1>3. CASE ~(mqs[local[p].index].file = NULL \/ mqs[local[p].index][End(local[p].flags)] # NoPID)
  <2> DEFINE l == local[p]
  <2>1. l \in Local /\ (l.rollback <=> local[p].rollback)
    BY <1>1
  <2>2. Goes(p, "markStore", l)
    BY <1>1, <1>3 DEF markAccess, Goes, Goto, Local
  <2>3. "markStore" \in Point /\ Sections("markStore") = Sections(pc[p])
    BY <1>1 DEF Point, Sections, InCloseAt, OpenPoints, ClosePoints
  <2>4. StackIs("markStore", l, fds[p])
    BY <1>1, <1>3, SizesAssumption DEF StackIs, Indexing, Undoing, Wanting, Point, OpenPoints, ClosePoints, Local, Slot, FileSlot
  <2> HIDE DEF l
  <2> QED BY <1>1, <2>1, <2>2, <2>3, <2>4, StackStep
<1> QED BY <1>1, <1>2, <1>3 DEF markAccess

(* links is tested and loaded.                                             *)
LEMMA UnlinkKeeps ==
  ASSUME Base, NEW p \in Proc, Unlink(p), faults' = faults \cup Faulty'
  PROVE  Base'
<1>1. /\ pc[p] = "unlink" /\ p \in alive /\ Stay /\ UNCHANGED <<tables, mutexes>>
      /\ local[p] \in Local /\ local = [local EXCEPT ![p] = local[p]]
      /\ pc = [pc EXCEPT ![p] = pc[p]]
      /\ StackIs(pc[p], local[p], fds[p]) /\ DescriptorsAre(fds[p]) /\ TablesTyped
  BY Stacks DEF Unlink, At, Base
<1>r. local[p].index \in Slot
  BY <1>1, SizesAssumption DEF StackIs, Indexing, ClosePoints
<1>2. CASE mqs[local[p].index].links > 0
  <2> DEFINE l == [local[p] EXCEPT !.ok = TRUE, !.count = mqs[local[p].index].links]
  <2>1. l \in Local /\ (l.rollback <=> local[p].rollback)
    <3>1. l \in Local
      BY <1>1, <1>2, <1>r, Changed, Bounds
    <3>2. l.rollback <=> local[p].rollback
      BY <1>1 DEF Local
    <3> QED BY <3>1, <3>2
  <2>2. Goes(p, "unlinkStore", l)
    BY <1>1, <1>2 DEF Unlink, Goes, Goto, Local
  <2>3. "unlinkStore" \in Point /\ Sections("unlinkStore") = Sections(pc[p])
    BY <1>1 DEF Point, Sections, InCloseAt, OpenPoints, ClosePoints
  <2>4. StackIs("unlinkStore", l, fds[p])
    BY <1>1, <1>2, SizesAssumption DEF StackIs, Indexing, Undoing, Wanting, Point, OpenPoints, ClosePoints, Local, Slot, FileSlot
  <2> HIDE DEF l
  <2> QED BY <1>1, <2>1, <2>2, <2>3, <2>4, StackStep
<1>3. CASE ~(mqs[local[p].index].links > 0)
  <2> DEFINE l == [local[p] EXCEPT !.ok = TRUE, !.count = mqs[local[p].index].links]
  <2>1. l \in Local /\ (l.rollback <=> local[p].rollback)
    <3>1. l \in Local
      BY <1>1, <1>3, <1>r, Changed, Bounds
    <3>2. l.rollback <=> local[p].rollback
      BY <1>1 DEF Local
    <3> QED BY <3>1, <3>2
  <2>2. Goes(p, "last", l)
    BY <1>1, <1>3 DEF Unlink, Goes, Goto, Local
  <2>3. "last" \in Point /\ Sections("last") = Sections(pc[p])
    BY <1>1 DEF Point, Sections, InCloseAt, OpenPoints, ClosePoints
  <2>4. StackIs("last", l, fds[p])
    BY <1>1, <1>3, SizesAssumption DEF StackIs, Indexing, Undoing, Wanting, Point, OpenPoints, ClosePoints, Local, Slot, FileSlot
  <2> HIDE DEF l
  <2> QED BY <1>1, <2>1, <2>2, <2>3, <2>4, StackStep
<1> QED BY <1>1, <1>2, <1>3 DEF Unlink

(* links is read again.                                                    *)
LEMMA LastKeeps ==
  ASSUME Base, NEW p \in Proc, Last(p), faults' = faults \cup Faulty'
  PROVE  Base'
<1>1. /\ pc[p] = "last" /\ p \in alive /\ Stay /\ UNCHANGED <<tables, mutexes>>
      /\ local[p] \in Local /\ local = [local EXCEPT ![p] = local[p]]
      /\ pc = [pc EXCEPT ![p] = pc[p]]
      /\ StackIs(pc[p], local[p], fds[p]) /\ DescriptorsAre(fds[p]) /\ TablesTyped
  BY Stacks DEF Last, At, Base
<1>2. CASE mqs[local[p].index].links = 0
  <2> DEFINE l == local[p]
  <2>1. l \in Local /\ (l.rollback <=> local[p].rollback)
    BY <1>1
  <2>2. Goes(p, "destroy", l)
    BY <1>1, <1>2 DEF Last, Goes, Goto, Local
  <2>3. "destroy" \in Point /\ Sections("destroy") = Sections(pc[p])
    BY <1>1 DEF Point, Sections, InCloseAt, OpenPoints, ClosePoints
  <2>4. StackIs("destroy", l, fds[p])
    BY <1>1, <1>2, SizesAssumption DEF StackIs, Indexing, Undoing, Wanting, Point, OpenPoints, ClosePoints, Local, Slot, FileSlot
  <2> HIDE DEF l
  <2> QED BY <1>1, <2>1, <2>2, <2>3, <2>4, StackStep
<1>3. CASE mqs[local[p].index].links # 0
  <2> DEFINE l == local[p]
  <2>1. l \in Local /\ (l.rollback <=> local[p].rollback)
    BY <1>1
  <2>2. Goes(p, "closeUnlock", l)
    BY <1>1, <1>3 DEF Last, Goes, Goto, Local
  <2>3. "closeUnlock" \in Point /\ Sections("closeUnlock") = Sections(pc[p])
    BY <1>1 DEF Point, Sections, InCloseAt, OpenPoints, ClosePoints
  <2>4. StackIs("closeUnlock", l, fds[p])
    BY <1>1, <1>3, SizesAssumption DEF StackIs, Indexing, Undoing, Wanting, Point, OpenPoints, ClosePoints, Local, Slot, FileSlot
  <2> HIDE DEF l
  <2> QED BY <1>1, <2>1, <2>2, <2>3, <2>4, StackStep
<1> QED BY <1>1, <1>2, <1>3 DEF Last

(* numFiles is loaded.                                                     *)
LEMMA LoadFilesKeeps ==
  ASSUME Base, NEW p \in Proc, LoadFiles(p), faults' = faults \cup Faulty'
  PROVE  Base'
<1>1. /\ pc[p] = "filesLoad" /\ p \in alive /\ Stay /\ UNCHANGED <<tables, mutexes>>
      /\ local[p] \in Local /\ local = [local EXCEPT ![p] = local[p]]
      /\ pc = [pc EXCEPT ![p] = pc[p]]
      /\ StackIs(pc[p], local[p], fds[p]) /\ DescriptorsAre(fds[p]) /\ TablesTyped
  BY Stacks DEF LoadFiles, At, Base
<1>2. CASE TRUE
  <2> DEFINE l == [local[p] EXCEPT !.count = numFiles]
  <2>1. l \in Local /\ (l.rollback <=> local[p].rollback)
    <3>1. l \in Local
      BY <1>1, <1>2, Changed, Bounds
    <3>2. l.rollback <=> local[p].rollback
      BY <1>1 DEF Local
    <3> QED BY <3>1, <3>2
  <2>2. Goes(p, "filesStore", l)
    BY <1>1, <1>2 DEF LoadFiles, Goes, Goto, Local
  <2>3. "filesStore" \in Point /\ Sections("filesStore") = Sections(pc[p])
    BY <1>1 DEF Point, Sections, InCloseAt, OpenPoints, ClosePoints
  <2>4. StackIs("filesStore", l, fds[p])
    BY <1>1, <1>2, SizesAssumption DEF StackIs, Indexing, Undoing, Wanting, Point, OpenPoints, ClosePoints, Local, Slot, FileSlot
  <2> HIDE DEF l
  <2> QED BY <1>1, <2>1, <2>2, <2>3, <2>4, StackStep
<1> QED BY <1>1, <1>2 DEF LoadFiles

(* numMQs is loaded.                                                       *)
LEMMA LoadMQsKeeps ==
  ASSUME Base, NEW p \in Proc, LoadMQs(p), faults' = faults \cup Faulty'
  PROVE  Base'
<1>1. /\ pc[p] = "mqsLoad" /\ p \in alive /\ Stay /\ UNCHANGED <<tables, mutexes>>
      /\ local[p] \in Local /\ local = [local EXCEPT ![p] = local[p]]
      /\ pc = [pc EXCEPT ![p] = pc[p]]
      /\ StackIs(pc[p], local[p], fds[p]) /\ DescriptorsAre(fds[p]) /\ TablesTyped
  BY Stacks DEF LoadMQs, At, Base
<1>2. CASE TRUE
  <2> DEFINE l == [local[p] EXCEPT !.count = numMQs]
  <2>1. l \in Local /\ (l.rollback <=> local[p].rollback)
    <3>1. l \in Local
      BY <1>1, <1>2, Changed, Bounds
    <3>2. l.rollback <=> local[p].rollback
      BY <1>1 DEF Local
    <3> QED BY <3>1, <3>2
  <2>2. Goes(p, "mqsStore", l)
    BY <1>1, <1>2 DEF LoadMQs, Goes, Goto, Local
  <2>3. "mqsStore" \in Point /\ Sections("mqsStore") = Sections(pc[p])
    BY <1>1 DEF Point, Sections, InCloseAt, OpenPoints, ClosePoints
  <2>4. StackIs("mqsStore", l, fds[p])
    BY <1>1, <1>2, SizesAssumption DEF StackIs, Indexing, Undoing, Wanting, Point, OpenPoints, ClosePoints, Local, Slot, FileSlot
  <2> HIDE DEF l
  <2> QED BY <1>1, <2>1, <2>2, <2>3, <2>4, StackStep
<1> QED BY <1>1, <1>2 DEF LoadMQs

(* And for a step that changes tables, but nobody's descriptors.           *)
LEMMA TableStep ==
  ASSUME Base, NEW p \in Proc, NEW x \in Point, NEW l \in Local, Goes(p, x, l),
         l.rollback <=> local[p].rollback, Sections(x) = Sections(pc[p]),
         p \in alive, Stay, UNCHANGED <<fds, mutexes>>, faults' = faults \cup Faulty',
         TablesTyped', StackIs(x, l, fds[p])
  PROVE  Base'
<1>1. fds' = fds /\ UNCHANGED mutexes
  OBVIOUS
<1>2. fds' \in [Proc -> [FD -> Descriptor]] /\ DescriptorsAre(fds'[p])
  BY <1>1, Stacks
<1>3. \A q \in Proc \ {p} : fds'[q] = fds[q]
  BY <1>1
<1>4. StackIs(x, l, fds'[p])
  BY <1>1
<1> QED BY <1>1, <1>2, <1>3, <1>4, PlainStep


(* The file is counted.                                                    *)
LEMMA countFileKeeps ==
  ASSUME Base, NEW p \in Proc, countFile(p), faults' = faults \cup Faulty'
  PROVE  Base'
<1>1. /\ pc[p] = "countFile" /\ p \in alive /\ Stay /\ UNCHANGED <<fds, mutexes>>
      /\ local[p] \in Local /\ local = [local EXCEPT ![p] = local[p]]
      /\ StackIs(pc[p], local[p], fds[p]) /\ DescriptorsAre(fds[p]) /\ TablesTyped
  BY Stacks DEF countFile, At, Base
<1> DEFINE l == local[p]
<1>2. l \in Local /\ (l.rollback <=> local[p].rollback)
  BY <1>1
<1>3. Goes(p, "newMQ", l)
  BY <1>1 DEF countFile, Goes, Goto, Local
<1>4. "newMQ" \in Point /\ Sections("newMQ") = Sections(pc[p])
  BY <1>1 DEF Point, Sections, InCloseAt, OpenPoints, ClosePoints
<1>5. StackIs("newMQ", l, fds[p])
  BY <1>1, SizesAssumption DEF StackIs, Indexing, Undoing, Wanting, Point, OpenPoints, ClosePoints, Local, Slot, FileSlot
<1>6. TablesTyped'
  <2>1. Up(local[p].count) \in Counter
    BY <1>1, Counting DEF Local
  <2> QED BY <1>1, <2>1 DEF countFile, TablesTyped
<1> HIDE DEF l
<1> QED BY <1>1, <1>2, <1>3, <1>4, <1>5, <1>6, TableStep

(* The queue is counted.                                                   *)
LEMMA countMQKeeps ==
  ASSUME Base, NEW p \in Proc, countMQ(p), faults' = faults \cup Faulty'
  PROVE  Base'
<1>1. /\ pc[p] = "countMQ" /\ p \in alive /\ Stay /\ UNCHANGED <<fds, mutexes>>
      /\ local[p] \in Local /\ local = [local EXCEPT ![p] = local[p]]
      /\ StackIs(pc[p], local[p], fds[p]) /\ DescriptorsAre(fds[p]) /\ TablesTyped
  BY Stacks DEF countMQ, At, Base
<1> DEFINE l == local[p]
<1>2. l \in Local /\ (l.rollback <=> local[p].rollback)
  BY <1>1
<1>3. Goes(p, "addFile", l)
  BY <1>1 DEF countMQ, Goes, Goto, Local
<1>4. "addFile" \in Point /\ Sections("addFile") = Sections(pc[p])
  BY <1>1 DEF Point, Sections, InCloseAt, OpenPoints, ClosePoints
<1>5. StackIs("addFile", l, fds[p])
  BY <1>1, SizesAssumption DEF StackIs, Indexing, Undoing, Wanting, Point, OpenPoints, ClosePoints, Local, Slot, FileSlot
<1>6. TablesTyped'
  <2>1. Up(local[p].count) \in Counter
    BY <1>1, Counting DEF Local
  <2> QED BY <1>1, <2>1 DEF countMQ, TablesTyped
<1> HIDE DEF l
<1> QED BY <1>1, <1>2, <1>3, <1>4, <1>5, <1>6, TableStep

(* The file is counted out.                                                *)
LEMMA uncountFileKeeps ==
  ASSUME Base, NEW p \in Proc, uncountFile(p), faults' = faults \cup Faulty'
  PROVE  Base'
<1>1. /\ pc[p] = "filesStore" /\ p \in alive /\ Stay /\ UNCHANGED <<fds, mutexes>>
      /\ local[p] \in Local /\ local = [local EXCEPT ![p] = local[p]]
      /\ StackIs(pc[p], local[p], fds[p]) /\ DescriptorsAre(fds[p]) /\ TablesTyped
  BY Stacks DEF uncountFile, At, Base
<1> DEFINE l == local[p]
<1>2. l \in Local /\ (l.rollback <=> local[p].rollback)
  BY <1>1
<1>3. Goes(p, "free", l)
  BY <1>1 DEF uncountFile, Goes, Goto, Local
<1>4. "free" \in Point /\ Sections("free") = Sections(pc[p])
  BY <1>1 DEF Point, Sections, InCloseAt, OpenPoints, ClosePoints
<1>5. StackIs("free", l, fds[p])
  BY <1>1, SizesAssumption DEF StackIs, Indexing, Undoing, Wanting, Point, OpenPoints, ClosePoints, Local, Slot, FileSlot
<1>6. TablesTyped'
  <2>1. Down(local[p].count) \in Counter
    BY <1>1, Counting DEF Local
  <2> QED BY <1>1, <2>1 DEF uncountFile, TablesTyped
<1> HIDE DEF l
<1> QED BY <1>1, <1>2, <1>3, <1>4, <1>5, <1>6, TableStep

(* The queue is counted out.                                               *)
LEMMA uncountMQKeeps ==
  ASSUME Base, NEW p \in Proc, uncountMQ(p), faults' = faults \cup Faulty'
  PROVE  Base'
<1>1. /\ pc[p] = "mqsStore" /\ p \in alive /\ Stay /\ UNCHANGED <<fds, mutexes>>
      /\ local[p] \in Local /\ local = [local EXCEPT ![p] = local[p]]
      /\ StackIs(pc[p], local[p], fds[p]) /\ DescriptorsAre(fds[p]) /\ TablesTyped
  BY Stacks DEF uncountMQ, At, Base
<1> DEFINE l == [local[p] EXCEPT !.count = 0]
<1>2. l \in Local /\ (l.rollback <=> local[p].rollback)
  <2>1. l \in Local
    BY <1>1, Changed, Bounds
  <2>2. l.rollback <=> local[p].rollback
    BY <1>1 DEF Local
  <2> QED BY <2>1, <2>2
<1>3. Goes(p, "closeUnlock", l)
  BY <1>1 DEF uncountMQ, Goes, Goto, Local
<1>4. "closeUnlock" \in Point /\ Sections("closeUnlock") = Sections(pc[p])
  BY <1>1 DEF Point, Sections, InCloseAt, OpenPoints, ClosePoints
<1>5. StackIs("closeUnlock", l, fds[p])
  BY <1>1, SizesAssumption DEF StackIs, Indexing, Undoing, Wanting, Point, OpenPoints, ClosePoints, Local, Slot, FileSlot
<1>6. TablesTyped'
  <2>1. Down(local[p].count) \in Counter
    BY <1>1, Counting DEF Local
  <2> QED BY <1>1, <2>1 DEF uncountMQ, TablesTyped
<1> HIDE DEF l
<1> QED BY <1>1, <1>2, <1>3, <1>4, <1>5, <1>6, TableStep

(* markAccess takes its end.                                               *)
LEMMA markAccessStoreKeeps ==
  ASSUME Base, NEW p \in Proc, markAccessStore(p), faults' = faults \cup Faulty'
  PROVE  Base'
<1>1. /\ pc[p] = "markStore" /\ p \in alive /\ Stay /\ UNCHANGED <<fds, mutexes>>
      /\ local[p] \in Local /\ local = [local EXCEPT ![p] = local[p]]
      /\ StackIs(pc[p], local[p], fds[p]) /\ DescriptorsAre(fds[p]) /\ TablesTyped
  BY Stacks DEF markAccessStore, At, Base
<1> DEFINE l == local[p]
<1>2. l \in Local /\ (l.rollback <=> local[p].rollback)
  BY <1>1
<1>3. Goes(p, "addFile", l)
  BY <1>1 DEF markAccessStore, Goes, Goto, Local
<1>4. "addFile" \in Point /\ Sections("addFile") = Sections(pc[p])
  BY <1>1 DEF Point, Sections, InCloseAt, OpenPoints, ClosePoints
<1>5. StackIs("addFile", l, fds[p])
  BY <1>1, SizesAssumption DEF StackIs, Indexing, Undoing, Wanting, Point, OpenPoints, ClosePoints, Local, Slot, FileSlot
<1>6. TablesTyped'
  <2>1. local[p].index \in Slot
    BY <1>1 DEF StackIs, Indexing, ClosePoints
  <2>2. End(local[p].flags) \in {"readPID", "writePID"}
    BY <1>1 DEF End
  <2>3. mqs' \in [Slot -> Queue]
    BY <1>1, <2>1, <2>2 DEF markAccessStore, TablesTyped, Queue
  <2> QED BY <1>1, <2>3 DEF markAccessStore, TablesTyped
<1> HIDE DEF l
<1> QED BY <1>1, <1>2, <1>3, <1>4, <1>5, <1>6, TableStep

(* The link is counted.                                                    *)
LEMMA LinkKeeps ==
  ASSUME Base, NEW p \in Proc, Link(p), faults' = faults \cup Faulty'
  PROVE  Base'
<1>1. /\ pc[p] = "link" /\ p \in alive /\ Stay /\ UNCHANGED <<fds, mutexes>>
      /\ local[p] \in Local /\ local = [local EXCEPT ![p] = local[p]]
      /\ StackIs(pc[p], local[p], fds[p]) /\ DescriptorsAre(fds[p]) /\ TablesTyped
  BY Stacks DEF Link, At, Base
<1> DEFINE l == local[p]
<1>2. l \in Local /\ (l.rollback <=> local[p].rollback)
  BY <1>1
<1>3. Goes(p, "openUnlock", l)
  BY <1>1 DEF Link, Goes, Goto, Local
<1>4. "openUnlock" \in Point /\ Sections("openUnlock") = Sections(pc[p])
  BY <1>1 DEF Point, Sections, InCloseAt, OpenPoints, ClosePoints
<1>5. StackIs("openUnlock", l, fds[p])
  BY <1>1, SizesAssumption DEF StackIs, Indexing, Undoing, Wanting, Point, OpenPoints, ClosePoints, Local, Slot, FileSlot
<1>6. TablesTyped'
  <2>1. local[p].index \in Slot
    BY <1>1 DEF StackIs, Indexing, ClosePoints
  <2>2. Up(local[p].count) \in Counter
    BY <1>1, Counting DEF Local
  <2>3. mqs' \in [Slot -> Queue]
    BY <1>1, <2>1, <2>2 DEF Link, TablesTyped, Queue
  <2> QED BY <1>1, <2>3 DEF Link, TablesTyped
<1> HIDE DEF l
<1> QED BY <1>1, <1>2, <1>3, <1>4, <1>5, <1>6, TableStep

(* The link is counted out.                                                *)
LEMMA UnlinkStoreKeeps ==
  ASSUME Base, NEW p \in Proc, UnlinkStore(p), faults' = faults \cup Faulty'
  PROVE  Base'
<1>1. /\ pc[p] = "unlinkStore" /\ p \in alive /\ Stay /\ UNCHANGED <<fds, mutexes>>
      /\ local[p] \in Local /\ local = [local EXCEPT ![p] = local[p]]
      /\ StackIs(pc[p], local[p], fds[p]) /\ DescriptorsAre(fds[p]) /\ TablesTyped
  BY Stacks DEF UnlinkStore, At, Base
<1> DEFINE l == [local[p] EXCEPT !.count = 0]
<1>2. l \in Local /\ (l.rollback <=> local[p].rollback)
  <2>1. l \in Local
    BY <1>1, Changed, Bounds
  <2>2. l.rollback <=> local[p].rollback
    BY <1>1 DEF Local
  <2> QED BY <2>1, <2>2
<1>3. Goes(p, "last", l)
  BY <1>1 DEF UnlinkStore, Goes, Goto, Local
<1>4. "last" \in Point /\ Sections("last") = Sections(pc[p])
  BY <1>1 DEF Point, Sections, InCloseAt, OpenPoints, ClosePoints
<1>5. StackIs("last", l, fds[p])
  BY <1>1, SizesAssumption DEF StackIs, Indexing, Undoing, Wanting, Point, OpenPoints, ClosePoints, Local, Slot, FileSlot
<1>6. TablesTyped'
  <2>1. local[p].index \in Slot
    BY <1>1 DEF StackIs, Indexing, ClosePoints
  <2>2. Down(local[p].count) \in Counter
    BY <1>1, Counting DEF Local
  <2>3. mqs' \in [Slot -> Queue]
    BY <1>1, <2>1, <2>2 DEF UnlinkStore, TablesTyped, Queue
  <2> QED BY <1>1, <2>3 DEF UnlinkStore, TablesTyped
<1> HIDE DEF l
<1> QED BY <1>1, <1>2, <1>3, <1>4, <1>5, <1>6, TableStep

(* The queue is freed.                                                     *)
LEMMA destroyMQKeeps ==
  ASSUME Base, NEW p \in Proc, destroyMQ(p), faults' = faults \cup Faulty'
  PROVE  Base'
<1>1. /\ pc[p] = "free" /\ p \in alive /\ Stay /\ UNCHANGED <<fds, mutexes>>
      /\ local[p] \in Local /\ local = [local EXCEPT ![p] = local[p]]
      /\ StackIs(pc[p], local[p], fds[p]) /\ DescriptorsAre(fds[p]) /\ TablesTyped
  BY Stacks DEF destroyMQ, At, Base
<1> DEFINE l == local[p]
<1>2. l \in Local /\ (l.rollback <=> local[p].rollback)
  BY <1>1
<1>3. Goes(p, "mqsLoad", l)
  BY <1>1 DEF destroyMQ, Goes, Goto, Local
<1>4. "mqsLoad" \in Point /\ Sections("mqsLoad") = Sections(pc[p])
  BY <1>1 DEF Point, Sections, InCloseAt, OpenPoints, ClosePoints
<1>5. StackIs("mqsLoad", l, fds[p])
  BY <1>1, SizesAssumption DEF StackIs, Indexing, Undoing, Wanting, Point, OpenPoints, ClosePoints, Local, Slot, FileSlot
<1>6. TablesTyped'
  <2>1. local[p].index \in Slot
    BY <1>1 DEF StackIs, Indexing, ClosePoints
  <2>2. NULL \in FileSlot \cup {NULL}
    BY <1>1
  <2>3. mqs' \in [Slot -> Queue]
    BY <1>1, <2>1, <2>2 DEF destroyMQ, TablesTyped, Queue
  <2> QED BY <1>1, <2>3 DEF destroyMQ, TablesTyped
<1> HIDE DEF l
<1> QED BY <1>1, <1>2, <1>3, <1>4, <1>5, <1>6, TableStep

(* The slot is filled in.                                                  *)
LEMMA newMQKeeps ==
  ASSUME Base, NEW p \in Proc, newMQ(p), faults' = faults \cup Faulty'
  PROVE  Base'
<1>1. /\ pc[p] = "newMQ" /\ p \in alive /\ Stay /\ UNCHANGED <<fds, mutexes>>
      /\ local[p] \in Local /\ local = [local EXCEPT ![p] = local[p]]
      /\ StackIs(pc[p], local[p], fds[p]) /\ DescriptorsAre(fds[p]) /\ TablesTyped
  BY Stacks DEF newMQ, At, Base
<1> DEFINE l == [local[p] EXCEPT !.count = numMQs, !.file = NULL]
<1>2. l \in Local /\ (l.rollback <=> local[p].rollback)
  <2>1. l \in Local
    BY <1>1, Changed, Bounds
  <2>2. l.rollback <=> local[p].rollback
    BY <1>1 DEF Local
  <2> QED BY <2>1, <2>2
<1>3. Goes(p, "countMQ", l)
  BY <1>1 DEF newMQ, Goes, Goto, Local
<1>4. "countMQ" \in Point /\ Sections("countMQ") = Sections(pc[p])
  BY <1>1 DEF Point, Sections, InCloseAt, OpenPoints, ClosePoints
<1>5. StackIs("countMQ", l, fds[p])
  BY <1>1, SizesAssumption DEF StackIs, Indexing, Undoing, Wanting, Point, OpenPoints, ClosePoints, Local, Slot, FileSlot
<1>6. TablesTyped'
  <2>1. local[p].index \in Slot /\ local[p].file \in FileSlot
    BY <1>1 DEF StackIs, Indexing
  <2>2. [[FreeMQ EXCEPT !.file = local[p].file] EXCEPT ![End(local[p].flags)] = p] \in Queue
    <3>1. End(local[p].flags) \in {"readPID", "writePID"}
      BY DEF End
    <3> QED BY <2>1, <3>1, Blanks DEF FreeMQ, Queue
  <2>3. mqs' \in [Slot -> Queue]
    BY <1>1, <2>1, <2>2 DEF newMQ, TablesTyped
  <2> QED BY <1>1, <2>3 DEF newMQ, TablesTyped
<1> HIDE DEF l
<1> QED BY <1>1, <1>2, <1>3, <1>4, <1>5, <1>6, TableStep

(* An unused file is filled in, or the search goes on.                     *)
LEMMA fillFileKeeps ==
  ASSUME Base, NEW p \in Proc, fillFile(p), faults' = faults \cup Faulty'
  PROVE  Base'
<1>1. /\ pc[p] = "search" /\ p \in alive /\ Stay /\ UNCHANGED <<fds, mutexes>>
      /\ local[p] \in Local /\ local = [local EXCEPT ![p] = local[p]] /\ pc = [pc EXCEPT ![p] = pc[p]]
      /\ fds \in [Proc -> [FD -> Descriptor]] /\ fds[p] \in [FD -> Descriptor]
      /\ StackIs(pc[p], local[p], fds[p]) /\ DescriptorsAre(fds[p]) /\ TablesTyped /\ pc \in [Proc -> Point]
      /\ local \in [Proc -> Local]
  BY Stacks DEF fillFile, At, Base, StacksTyped
<1>2. local[p].file \in 0..MaxFiles /\ local[p].file < MaxFiles
  BY <1>1 DEF StackIs, fillFile
<1>3. local[p].file \in FileSlot /\ local[p].file + 1 \in 0..MaxFiles
  BY <1>2, Bounds
<1>4. CASE filesTable[local[p].file] = NoName
  <2> DEFINE l == [local[p] EXCEPT !.count = numFiles]
  <2>1. l \in Local
    BY <1>1, Changed, Bounds
  <2>2. l.rollback <=> local[p].rollback
    BY <1>1 DEF Local
  <2>3. Goes(p, "countFile", l)
    BY <1>1, <1>4 DEF fillFile, Goes, Goto, Local
  <2>4. "countFile" \in Point /\ Sections("countFile") = Sections(pc[p])
    BY <1>1 DEF Point, Sections, InCloseAt, OpenPoints, ClosePoints
  <2>5. StackIs("countFile", l, fds[p])
    BY <1>1, <1>3, SizesAssumption DEF StackIs, Indexing, Undoing, Wanting, Point, OpenPoints, ClosePoints, Local, Slot, FileSlot
  <2>6. TablesTyped'
    <3>1. local[p].name \in Name
      BY <1>1 DEF StackIs, OpenPoints
    <3> QED BY <1>1, <1>3, <1>4, <3>1 DEF fillFile, TablesTyped
  <2> HIDE DEF l
  <2> QED BY <1>1, <2>1, <2>2, <2>3, <2>4, <2>5, <2>6, TableStep
<1>5. CASE filesTable[local[p].file] # NoName
  <2> DEFINE l == [local[p] EXCEPT !.file = local[p].file + 1]
  <2>1. l \in Local
    BY <1>1, <1>3, Changed
  <2>2. l.rollback <=> local[p].rollback
    BY <1>1 DEF Local
  <2>3. Goes(p, "search", l)
    BY <1>1, <1>5 DEF fillFile, Goes, Goto, Local
  <2>4. "search" \in Point /\ Sections("search") = Sections(pc[p])
    BY <1>1 DEF Point, Sections, InCloseAt, OpenPoints, ClosePoints
  <2>5. StackIs("search", l, fds[p])
    BY <1>1, <1>3, SizesAssumption DEF StackIs, Indexing, Undoing, Wanting, Point, OpenPoints, ClosePoints, Local, Slot, FileSlot
  <2>6. UNCHANGED <<tables, mutexes>>
    BY <1>1, <1>5 DEF fillFile, tables
  <2> HIDE DEF l
  <2> QED BY <1>1, <2>1, <2>2, <2>3, <2>4, <2>5, <2>6, StackStep
<1> QED BY <1>4, <1>5

(* The file is destroyed, or not found.                                    *)
LEMMA destroyBasicFileKeeps ==
  ASSUME Base, NEW p \in Proc, destroyBasicFile(p), faults' = faults \cup Faulty'
  PROVE  Base'
<1>1. /\ pc[p] = "destroy" /\ p \in alive /\ Stay /\ UNCHANGED <<fds, mutexes>>
      /\ local[p] \in Local /\ local = [local EXCEPT ![p] = local[p]] /\ pc = [pc EXCEPT ![p] = pc[p]]
      /\ fds \in [Proc -> [FD -> Descriptor]] /\ fds[p] \in [FD -> Descriptor]
      /\ StackIs(pc[p], local[p], fds[p]) /\ DescriptorsAre(fds[p]) /\ TablesTyped /\ pc \in [Proc -> Point]
      /\ local \in [Proc -> Local]
  BY Stacks DEF destroyBasicFile, At, Base, StacksTyped
<1>2. PICK x \in {"free", "filesLoad"} : Goes(p, x, local[p])
  BY <1>1 DEF destroyBasicFile, Goes, Goto
<1>3. x \in Point /\ Sections(x) = Sections(pc[p])
  BY <1>1, <1>2 DEF Point, Sections, InCloseAt, OpenPoints, ClosePoints
<1>4. StackIs(x, local[p], fds[p])
  BY <1>1, <1>2, SizesAssumption DEF StackIs, Indexing, Undoing, Wanting, Point, OpenPoints, ClosePoints, Local, Slot, FileSlot
<1>5. TablesTyped'
  <2> DEFINE g == indexOfFile(mqs[local[p].index].file)
  <2>1. g \in FileSlot \cup {NULL}
    <3>1. {f \in FileSlot : f < numFiles /\ filesTable[f] = filesTable[mqs[local[p].index].file]} \in SUBSET Nat
      BY Numbers
    <3> QED BY <3>1, LowestIs DEF indexOfFile
  <2>2. mqs[local[p].index].file \in FileSlot \cup {NULL}
    BY <1>1 DEF StackIs, Indexing, ClosePoints, TablesTyped, Queue
  <2> HIDE DEF g
  <2>3. CASE g = NULL
    BY <1>1, <2>2, <2>3 DEF destroyBasicFile, TablesTyped, g
  <2>4. CASE g # NULL
    <3>1. g \in FileSlot /\ filesTable' = [filesTable EXCEPT ![g] = NoName] /\ orphans' = orphans
      BY <2>1, <2>4 DEF destroyBasicFile, g
    <3> QED BY <1>1, <3>1 DEF destroyBasicFile, TablesTyped
  <2> QED BY <2>3, <2>4
<1> QED BY <1>1, <1>2, <1>3, <1>4, <1>5, TableStep

(* A failed addFile goes on to MQclose with openMutex still held.          *)
LEMMA addFileKeeps ==
  ASSUME Base, NEW p \in Proc, addFile(p), faults' = faults \cup Faulty'
  PROVE  Base'
<1>1. /\ pc[p] = "addFile" /\ p \in alive /\ Stay /\ UNCHANGED mutexes
      /\ local[p] \in Local /\ local = [local EXCEPT ![p] = local[p]] /\ pc = [pc EXCEPT ![p] = pc[p]]
      /\ fds \in [Proc -> [FD -> Descriptor]] /\ fds[p] \in [FD -> Descriptor]
      /\ StackIs(pc[p], local[p], fds[p]) /\ DescriptorsAre(fds[p]) /\ TablesTyped /\ pc \in [Proc -> Point]
      /\ local \in [Proc -> Local]
  BY Stacks DEF addFile, At, Base, StacksTyped
<1> DEFINE S == {e \in FD : e < FDsLeft[p] /\ fds[p][e] = Closed}
           d == LowestOrNull(S)
<1>2. d \in S \cup {NULL}
  BY Numbers, LowestIs
<1>3. local[p].index \in Slot /\ local[p].name \in Name /\ local[p].flags \in Modes
  BY <1>1 DEF StackIs, Indexing, OpenPoints
<1>4. TablesTyped'
  BY <1>1 DEF addFile, TablesTyped
<1>5. CASE d = NULL
  <2> DEFINE l == [local[p] EXCEPT !.rollback = TRUE]
  <2>1. l \in Local /\ l.rollback
    BY <1>1, Changed DEF Local
  <2>2. Goes(p, "closeLock", l) /\ fds' = fds
    BY <1>1, <1>5 DEF addFile, Goes, Goto
  <2>3. StackIs("closeLock", l, fds[p])
    BY <1>1, <1>3 DEF StackIs, Indexing, Undoing, Wanting, Point, OpenPoints, ClosePoints, Local
  <2> HIDE DEF l
  <2>4. /\ Fits(openMutex, openMutex', InOpenAt(pc[p], local[p].rollback), InOpenAt("closeLock", l.rollback))
        /\ Fits(closeMutex, closeMutex', InCloseAt(pc[p]), InCloseAt("closeLock"))
    BY <1>1, <2>1 DEF mutexes, Fits, InOpenAt, InCloseAt, OpenPoints, ClosePoints
  <2>5. "closeLock" \in Point
    BY DEF Point, ClosePoints
  <2> QED BY <1>1, <1>4, <2>1, <2>2, <2>3, <2>4, <2>5, StepKeeps
<1>6. CASE d # NULL
  <2> DEFINE l == [local[p] EXCEPT !.count = mqs[local[p].index].links]
             new == [index |-> local[p].index, flags |-> local[p].flags, name |-> local[p].name]
  <2>1. l \in Local
    BY <1>1, <1>3, Changed, Bounds
  <2>2. Goes(p, "link", l) /\ fds' = [fds EXCEPT ![p][d] = new]
    BY <1>1, <1>6 DEF addFile, Goes, Goto
  <2>3. d \in FD
    BY <1>2, <1>6
  <2>4. new \in Descriptor /\ new # Closed
    BY <1>3, NameAssumption DEF Descriptor, Closed
  <2>5. /\ fds' \in [Proc -> [FD -> Descriptor]] /\ \A q \in Proc \ {p} : fds'[q] = fds[q]
        /\ \A e \in FD : fds'[p][e] = IF e = d THEN new ELSE fds[p][e]
    <3> HIDE DEF new, d
    <3> QED BY <1>1, <2>2, <2>3, <2>4
  <2>6. DescriptorsAre(fds'[p])
    <3>1. \A e \in FD : fds[p][e].name # local[p].name
      BY <1>1 DEF StackIs, Wanting, OpenPoints
    <3>2. new.name = local[p].name /\ new.index \in Slot /\ new.flags \in Modes /\ new.name \in Name
      BY <1>3
    <3> HIDE DEF new, d
    <3>3. \A e \in FD : fds'[p][e] # Closed =>
            fds'[p][e].index \in Slot /\ fds'[p][e].flags \in Modes /\ fds'[p][e].name \in Name
      BY <1>1, <2>5, <3>2 DEF DescriptorsAre
    <3>4. \A e, f \in FD : fds'[p][e].name = fds'[p][f].name /\ fds'[p][e].name # NoName => e = f
      <4> SUFFICES ASSUME NEW e \in FD, NEW f \in FD, fds'[p][e].name = fds'[p][f].name,
                          fds'[p][e].name # NoName PROVE e = f
        OBVIOUS
      <4>1. CASE e = d \/ f = d
        BY <2>5, <3>1, <3>2, <4>1
      <4>2. CASE e # d /\ f # d
        BY <1>1, <2>5, <4>2 DEF DescriptorsAre
      <4> QED BY <4>1, <4>2
    <3> QED BY <3>3, <3>4 DEF DescriptorsAre
  <2>7. StackIs("link", l, fds'[p])
    <3>1. fds'[p][d] = [index |-> l.index, flags |-> l.flags, name |-> l.name]
      BY <1>1, <2>3, <2>5 DEF Local
    <3>2. /\ l.rollback = local[p].rollback /\ l.name = local[p].name /\ l.flags = local[p].flags
          /\ l.index = local[p].index /\ l.fd = local[p].fd /\ l.seen = local[p].seen
      BY <1>1 DEF Local
    <3> HIDE DEF l, d
    <3> QED BY <1>1, <1>3, <2>3, <3>1, <3>2 DEF StackIs, Indexing, Undoing, Wanting, Point, OpenPoints, ClosePoints
  <2> HIDE DEF l, new, d
  <2>8. l.rollback <=> local[p].rollback
    BY <1>1 DEF Local, l
  <2>9. "link" \in Point /\ Sections("link") = Sections(pc[p])
    BY <1>1 DEF Point, Sections, InCloseAt, OpenPoints, ClosePoints
  <2> QED BY <1>1, <1>4, <2>1, <2>2, <2>5, <2>6, <2>7, <2>8, <2>9, PlainStep
<1> QED BY <1>5, <1>6

(* A step that changes no table, but perhaps a mutex.                      *)
LEMMA LockStep ==
  ASSUME Base, NEW p \in Proc, NEW x \in Point, NEW l \in Local, Goes(p, x, l),
         p \in alive, Stay, UNCHANGED tables, faults' = faults \cup Faulty', StackIs(x, l, fds[p]),
         Fits(openMutex, openMutex', InOpenAt(pc[p], local[p].rollback), InOpenAt(x, l.rollback)),
         Fits(closeMutex, closeMutex', InCloseAt(pc[p]), InCloseAt(x))
  PROVE  Base'
<1>1. TablesTyped' /\ fds' = fds
  BY DEF Base, TablesTyped, tables
<1>2. fds' \in [Proc -> [FD -> Descriptor]] /\ DescriptorsAre(fds'[p])
  BY <1>1, Stacks
<1>3. \A q \in Proc \ {p} : fds'[q] = fds[q]
  BY <1>1
<1>4. StackIs(x, l, fds'[p])
  BY <1>1
<1> QED BY <1>1, <1>2, <1>3, <1>4, StepKeeps

(* The lock of openMutex lets one process in.                              *)
LEMMA OpenLockKeeps ==
  ASSUME Base, NEW p \in Proc, OpenLock(p), faults' = faults \cup Faulty'
  PROVE  Base'
<1>1. /\ pc[p] = "openLock" /\ p \in alive /\ Stay /\ UNCHANGED tables
      /\ local[p] \in Local /\ local = [local EXCEPT ![p] = local[p]] /\ pc = [pc EXCEPT ![p] = pc[p]]
      /\ fds \in [Proc -> [FD -> Descriptor]] /\ fds[p] \in [FD -> Descriptor]
      /\ StackIs(pc[p], local[p], fds[p]) /\ DescriptorsAre(fds[p]) /\ TablesTyped /\ pc \in [Proc -> Point]
      /\ local \in [Proc -> Local]
  BY Stacks DEF OpenLock, At, Base, StacksTyped
<1> DEFINE l == [local[p] EXCEPT !.index = 0]
<1>2. l \in Local
  BY <1>1, Changed, Bounds
<1>3. Goes(p, "find", l)
  BY <1>1 DEF OpenLock, Goes, Goto, Local
<1>4. "find" \in Point
  BY DEF Point, OpenPoints, ClosePoints
<1>5. StackIs("find", l, fds[p])
  BY <1>1, SizesAssumption DEF OpenLock, StackIs, Indexing, Undoing, Wanting, Point, OpenPoints, ClosePoints, Local, Slot, FileSlot, NoLocals, DescriptorsAre
<1>6. /\ Fits(openMutex, openMutex', InOpenAt(pc[p], local[p].rollback), InOpenAt("find", l.rollback))
      /\ Fits(closeMutex, closeMutex', InCloseAt(pc[p]), InCloseAt("find"))
  BY <1>1 DEF OpenLock, Fits, InOpenAt, InCloseAt, OpenPoints, ClosePoints, mutexes, Local, NoLocals, StackIs, Indexing, Undoing, Wanting, Point, OpenPoints, ClosePoints
<1> HIDE DEF l
<1> QED BY <1>1, <1>2, <1>3, <1>4, <1>5, <1>6, LockStep

(* The lock of closeMutex lets one process in.                             *)
LEMMA CloseLockKeeps ==
  ASSUME Base, NEW p \in Proc, CloseLock(p), faults' = faults \cup Faulty'
  PROVE  Base'
<1>1. /\ pc[p] = "closeLock" /\ p \in alive /\ Stay /\ UNCHANGED tables
      /\ local[p] \in Local /\ local = [local EXCEPT ![p] = local[p]] /\ pc = [pc EXCEPT ![p] = pc[p]]
      /\ fds \in [Proc -> [FD -> Descriptor]] /\ fds[p] \in [FD -> Descriptor]
      /\ StackIs(pc[p], local[p], fds[p]) /\ DescriptorsAre(fds[p]) /\ TablesTyped /\ pc \in [Proc -> Point]
      /\ local \in [Proc -> Local]
  BY Stacks DEF CloseLock, At, Base, StacksTyped
<1> DEFINE l == local[p]
<1>2. l \in Local
  BY <1>1
<1>3. Goes(p, "unmark", l)
  BY <1>1 DEF CloseLock, Goes, Goto, Local
<1>4. "unmark" \in Point
  BY DEF Point, OpenPoints, ClosePoints
<1>5. StackIs("unmark", l, fds[p])
  BY <1>1, SizesAssumption DEF CloseLock, StackIs, Indexing, Undoing, Wanting, Point, OpenPoints, ClosePoints, Local, Slot, FileSlot, NoLocals, DescriptorsAre
<1>6. /\ Fits(openMutex, openMutex', InOpenAt(pc[p], local[p].rollback), InOpenAt("unmark", l.rollback))
      /\ Fits(closeMutex, closeMutex', InCloseAt(pc[p]), InCloseAt("unmark"))
  BY <1>1 DEF CloseLock, Fits, InOpenAt, InCloseAt, OpenPoints, ClosePoints, mutexes, Local, NoLocals, StackIs, Indexing, Undoing, Wanting, Point, OpenPoints, ClosePoints
<1> HIDE DEF l
<1> QED BY <1>1, <1>2, <1>3, <1>4, <1>5, <1>6, LockStep

(* The unlock of openMutex is the way out of MQopen.                       *)
LEMMA OpenUnlockKeeps ==
  ASSUME Base, NEW p \in Proc, OpenUnlock(p), faults' = faults \cup Faulty'
  PROVE  Base'
<1>1. /\ pc[p] = "openUnlock" /\ p \in alive /\ Stay /\ UNCHANGED tables
      /\ local[p] \in Local /\ local = [local EXCEPT ![p] = local[p]] /\ pc = [pc EXCEPT ![p] = pc[p]]
      /\ fds \in [Proc -> [FD -> Descriptor]] /\ fds[p] \in [FD -> Descriptor]
      /\ StackIs(pc[p], local[p], fds[p]) /\ DescriptorsAre(fds[p]) /\ TablesTyped /\ pc \in [Proc -> Point]
      /\ local \in [Proc -> Local]
  BY Stacks DEF OpenUnlock, At, Base, StacksTyped
<1> DEFINE l == NoLocals
<1>2. l \in Local
  BY Blanks
<1>3. Goes(p, "user", l)
  BY <1>1 DEF OpenUnlock, Return, Goes, Goto
<1>4. "user" \in Point
  BY DEF Point, OpenPoints, ClosePoints
<1>5. StackIs("user", l, fds[p])
  BY <1>1, SizesAssumption DEF OpenUnlock, StackIs, Indexing, Undoing, Wanting, Point, OpenPoints, ClosePoints, Local, Slot, FileSlot, NoLocals, DescriptorsAre
<1>6. /\ Fits(openMutex, openMutex', InOpenAt(pc[p], local[p].rollback), InOpenAt("user", l.rollback))
      /\ Fits(closeMutex, closeMutex', InCloseAt(pc[p]), InCloseAt("user"))
  BY <1>1 DEF OpenUnlock, Fits, InOpenAt, InCloseAt, OpenPoints, ClosePoints, mutexes, Local, NoLocals, StackIs, Indexing, Undoing, Wanting, Point, OpenPoints, ClosePoints
<1> HIDE DEF l
<1> QED BY <1>1, <1>2, <1>3, <1>4, <1>5, <1>6, LockStep

(* MQopen is called: the caller is in no section.                          *)
LEMMA CallOpenKeeps ==
  ASSUME Base, NEW p \in Proc, NEW name \in Name, NEW flags \in Modes, CallOpen(p, name, flags), faults' = faults \cup Faulty'
  PROVE  Base'
<1>1. /\ pc[p] = "user" /\ p \in alive /\ Stay /\ UNCHANGED tables
      /\ local[p] \in Local /\ local = [local EXCEPT ![p] = local[p]] /\ pc = [pc EXCEPT ![p] = pc[p]]
      /\ fds \in [Proc -> [FD -> Descriptor]] /\ fds[p] \in [FD -> Descriptor]
      /\ StackIs(pc[p], local[p], fds[p]) /\ DescriptorsAre(fds[p]) /\ TablesTyped /\ pc \in [Proc -> Point]
      /\ local \in [Proc -> Local]
  BY Stacks DEF CallOpen, At, Base, StacksTyped
<1> DEFINE l == [NoLocals EXCEPT !.name = name, !.flags = flags]
<1>2. l \in Local
  BY Blanks DEF NoLocals, Local
<1>3. Goes(p, "openLock", l)
  BY <1>1 DEF CallOpen, Goes, Goto
<1>4. "openLock" \in Point
  BY DEF Point, OpenPoints, ClosePoints
<1>5. StackIs("openLock", l, fds[p])
  BY <1>1, SizesAssumption DEF CallOpen, StackIs, Indexing, Undoing, Wanting, Point, OpenPoints, ClosePoints, Local, Slot, FileSlot, NoLocals, DescriptorsAre
<1>6. /\ Fits(openMutex, openMutex', InOpenAt(pc[p], local[p].rollback), InOpenAt("openLock", l.rollback))
      /\ Fits(closeMutex, closeMutex', InCloseAt(pc[p]), InCloseAt("openLock"))
  BY <1>1 DEF CallOpen, Fits, InOpenAt, InCloseAt, OpenPoints, ClosePoints, mutexes, Local, NoLocals, StackIs, Indexing, Undoing, Wanting, Point, OpenPoints, ClosePoints
<1> HIDE DEF l
<1> QED BY <1>1, <1>2, <1>3, <1>4, <1>5, <1>6, LockStep

(* operateFile closes: the caller is in no section.                        *)
LEMMA CallCloseKeeps ==
  ASSUME Base, NEW p \in Proc, NEW d \in FD, CallClose(p, d), faults' = faults \cup Faulty'
  PROVE  Base'
<1>1. /\ pc[p] = "user" /\ p \in alive /\ Stay /\ UNCHANGED tables
      /\ local[p] \in Local /\ local = [local EXCEPT ![p] = local[p]] /\ pc = [pc EXCEPT ![p] = pc[p]]
      /\ fds \in [Proc -> [FD -> Descriptor]] /\ fds[p] \in [FD -> Descriptor]
      /\ StackIs(pc[p], local[p], fds[p]) /\ DescriptorsAre(fds[p]) /\ TablesTyped /\ pc \in [Proc -> Point]
      /\ local \in [Proc -> Local]
  BY Stacks DEF CallClose, At, Base, StacksTyped
<1> DEFINE l == [NoLocals EXCEPT !.index = fds[p][d].index, !.fd = d]
<1>2. l \in Local
  BY <1>1, Blanks DEF NoLocals, Local, Descriptor
<1>3. Goes(p, "closeLock", l)
  BY <1>1 DEF CallClose, Goes, Goto
<1>4. "closeLock" \in Point
  BY DEF Point, OpenPoints, ClosePoints
<1>5. StackIs("closeLock", l, fds[p])
  BY <1>1, SizesAssumption DEF CallClose, StackIs, Indexing, Undoing, Wanting, Point, OpenPoints, ClosePoints, Local, Slot, FileSlot, NoLocals, DescriptorsAre
<1>6. /\ Fits(openMutex, openMutex', InOpenAt(pc[p], local[p].rollback), InOpenAt("closeLock", l.rollback))
      /\ Fits(closeMutex, closeMutex', InCloseAt(pc[p]), InCloseAt("closeLock"))
  BY <1>1 DEF CallClose, Fits, InOpenAt, InCloseAt, OpenPoints, ClosePoints, mutexes, Local, NoLocals, StackIs, Indexing, Undoing, Wanting, Point, OpenPoints, ClosePoints
<1> HIDE DEF l
<1> QED BY <1>1, <1>2, <1>3, <1>4, <1>5, <1>6, LockStep

(* From the unlock an undone open goes back to that of openMutex.          *)
LEMMA CloseUnlockKeeps ==
  ASSUME Base, NEW p \in Proc, CloseUnlock(p), faults' = faults \cup Faulty'
  PROVE  Base'
<1>1. /\ pc[p] = "closeUnlock" /\ p \in alive /\ Stay /\ UNCHANGED tables
      /\ local[p] \in Local /\ local = [local EXCEPT ![p] = local[p]] /\ pc = [pc EXCEPT ![p] = pc[p]]
      /\ fds \in [Proc -> [FD -> Descriptor]] /\ fds[p] \in [FD -> Descriptor]
      /\ StackIs(pc[p], local[p], fds[p]) /\ DescriptorsAre(fds[p]) /\ TablesTyped /\ pc \in [Proc -> Point]
      /\ local \in [Proc -> Local]
  BY Stacks DEF CloseUnlock, At, Base, StacksTyped
<1>2. closeMutex' = 0 /\ openMutex' = openMutex
  BY DEF CloseUnlock
<1>3. ASSUME NEW x \in {"openUnlock", "removeFile", "user"}, NEW l \in {local[p], NoLocals}, Goes(p, x, l),
             /\ x = "user" => l = NoLocals /\ ~local[p].rollback
             /\ x = "removeFile" => l = local[p] /\ ~local[p].rollback
             /\ x = "openUnlock" => l = local[p] /\ local[p].rollback
      PROVE  Base'
  <2>1. l \in Local /\ x \in Point
    BY <1>1, Blanks DEF Point, OpenPoints, ClosePoints
  <2>2. StackIs(x, l, fds[p])
    <3>1. CASE x = "user"
      BY <1>3, <3>1, Blanks
    <3>2. CASE x = "removeFile"
      BY <1>1, <1>3, <3>2 DEF StackIs, Indexing, Undoing, Wanting, Point, OpenPoints, ClosePoints
    <3>3. CASE x = "openUnlock"
      BY <1>1, <1>3, <3>3 DEF StackIs, Indexing, Undoing, Wanting, Point, OpenPoints, ClosePoints
    <3> QED BY <3>1, <3>2, <3>3
  <2>3. /\ Fits(openMutex, openMutex', InOpenAt(pc[p], local[p].rollback), InOpenAt(x, l.rollback))
        /\ Fits(closeMutex, closeMutex', InCloseAt(pc[p]), InCloseAt(x))
    BY <1>1, <1>2, <1>3 DEF Fits, InOpenAt, InCloseAt, OpenPoints, ClosePoints, NoLocals
  <2> QED BY <1>1, <1>3, <2>1, <2>2, <2>3, LockStep
<1>4. CASE local[p].rollback
  <2>1. Goes(p, "openUnlock", local[p])
    BY <1>1, <1>4 DEF CloseUnlock, Goes, Goto
  <2> QED BY <1>3, <1>4, <2>1
<1>5. CASE ~local[p].rollback /\ local[p].ok
  <2>1. Goes(p, "removeFile", local[p])
    BY <1>1, <1>5 DEF CloseUnlock, Goes, Goto
  <2> QED BY <1>3, <1>5, <2>1
<1>6. CASE ~local[p].rollback /\ ~local[p].ok
  <2>1. Goes(p, "user", NoLocals)
    BY <1>1, <1>6 DEF CloseUnlock, Goes, Goto, Return
  <2> QED BY <1>3, <1>6, <2>1
<1> QED BY <1>4, <1>5, <1>6

(* The caller gives up its end, or has none.                               *)
LEMMA UnmarkKeeps ==
  ASSUME Base, NEW p \in Proc, Unmark(p), faults' = faults \cup Faulty'
  PROVE  Base'
<1>1. /\ pc[p] = "unmark" /\ p \in alive /\ Stay /\ UNCHANGED <<fds, mutexes>>
      /\ local[p] \in Local /\ local = [local EXCEPT ![p] = local[p]] /\ pc = [pc EXCEPT ![p] = pc[p]]
      /\ fds \in [Proc -> [FD -> Descriptor]] /\ fds[p] \in [FD -> Descriptor]
      /\ StackIs(pc[p], local[p], fds[p]) /\ DescriptorsAre(fds[p]) /\ TablesTyped /\ pc \in [Proc -> Point]
      /\ local \in [Proc -> Local]
  BY Stacks DEF Unmark, At, Base, StacksTyped
<1>2. local[p].index \in Slot
  BY <1>1 DEF StackIs, Indexing, ClosePoints
<1>3. PICK x \in {"closeUnlock", "unlink"}, e \in {"readPID", "writePID"} :
        Goes(p, x, local[p]) /\ mqs' \in {mqs, [mqs EXCEPT ![local[p].index][e] = NoPID]}
  <2> DEFINE q == mqs[local[p].index]
  <2>1. CASE q.file = NULL \/ (q.readPID # p /\ q.writePID # p)
    BY <1>1, <2>1 DEF Unmark, Goes, Goto
  <2>2. CASE q.file # NULL /\ q.readPID = p
    BY <1>1, <2>2 DEF Unmark, Goes, Goto
  <2>3. CASE q.file # NULL /\ q.readPID # p /\ q.writePID = p
    BY <1>1, <2>3 DEF Unmark, Goes, Goto
  <2> QED BY <2>1, <2>2, <2>3
<1>4. x \in Point /\ Sections(x) = Sections(pc[p])
  BY <1>1, <1>3 DEF Point, Sections, InCloseAt, OpenPoints, ClosePoints
<1>5. StackIs(x, local[p], fds[p])
  BY <1>1, <1>3 DEF StackIs, Indexing, Undoing, Wanting, Point, OpenPoints, ClosePoints
<1>6. TablesTyped'
  <2>1. mqs' \in [Slot -> Queue]
    <3>1. [mqs EXCEPT ![local[p].index][e] = NoPID] \in [Slot -> Queue]
      <4>1. mqs \in [Slot -> Queue] /\ local[p].index \in Slot /\ NoPID \in Proc \cup {NoPID}
        BY <1>1, <1>2 DEF TablesTyped
      <4>2. CASE e = "readPID"
        BY <4>1, <4>2 DEF Queue
      <4>3. CASE e = "writePID"
        BY <4>1, <4>3 DEF Queue
      <4> QED BY <1>3, <4>2, <4>3
    <3> QED BY <1>1, <1>3, <3>1 DEF TablesTyped
  <2> QED BY <1>1, <2>1 DEF Unmark, TablesTyped
<1> QED BY <1>1, <1>3, <1>4, <1>5, <1>6, TableStep

(* The descriptor is cleared outside both sections.                        *)
LEMMA removeFileKeeps ==
  ASSUME Base, NEW p \in Proc, removeFile(p), faults' = faults \cup Faulty'
  PROVE  Base'
<1>1. /\ pc[p] = "removeFile" /\ p \in alive /\ Stay
      /\ local[p] \in Local /\ local = [local EXCEPT ![p] = local[p]] /\ pc = [pc EXCEPT ![p] = pc[p]]
      /\ fds \in [Proc -> [FD -> Descriptor]] /\ fds[p] \in [FD -> Descriptor]
      /\ StackIs(pc[p], local[p], fds[p]) /\ DescriptorsAre(fds[p]) /\ TablesTyped /\ pc \in [Proc -> Point]
      /\ local \in [Proc -> Local]
  BY Stacks DEF removeFile, At, Base, StacksTyped
<1>2. Goes(p, "user", NoLocals) /\ UNCHANGED mutexes /\ "user" \in Point
  BY DEF removeFile, Return, Goto, Goes, Point
<1>3. ~local[p].rollback /\ local[p].fd \in FD
  BY <1>1 DEF StackIs, Undoing, ClosePoints
<1>4. TablesTyped'
  BY <1>1 DEF removeFile, TablesTyped
<1>5. /\ fds' \in [Proc -> [FD -> Descriptor]] /\ \A q \in Proc \ {p} : fds'[q] = fds[q]
      /\ \A e \in FD : fds'[p][e] = IF e = local[p].fd THEN Closed ELSE fds[p][e]
  BY <1>1, <1>3, Blanks DEF removeFile
<1>6. DescriptorsAre(fds'[p])
  <2>1. Closed.name = NoName
    BY DEF Closed
  <2> QED BY <1>1, <1>5, <2>1 DEF DescriptorsAre
<1>7. /\ Fits(openMutex, openMutex', InOpenAt(pc[p], local[p].rollback), InOpenAt("user", NoLocals.rollback))
      /\ Fits(closeMutex, closeMutex', InCloseAt(pc[p]), InCloseAt("user"))
  BY <1>1, <1>2, <1>3 DEF mutexes, Fits, InOpenAt, InCloseAt, OpenPoints, ClosePoints, NoLocals
<1> QED BY <1>1, <1>2, <1>4, <1>5, <1>6, <1>7, Blanks, StepKeeps

(* A process ends outside both sections, or the CPU changes hands.         *)
LEMMA OthersKeep ==
  ASSUME Base, UNCHANGED <<pc, local, mutexes, mqs, numMQs, filesTable, numFiles, orphans>>,
         fds' \in [Proc -> [FD -> Descriptor]],
         \A p \in Proc : fds'[p] = fds[p] \/ (pc[p] = "user" /\ DescriptorsAre(fds'[p])),
         alive' \subseteq alive, cpu' \in Proc, \A p \in alive \ alive' : pc[p] = "user",
         Recorded'
  PROVE  Base'
<1>1. pc' = pc /\ local' = local /\ openMutex' = openMutex /\ closeMutex' = closeMutex
  BY DEF mutexes
<1>2. Opening' = Opening /\ InClose' = InClose
  BY <1>1 DEF Opening, InClose
<1>3. TablesTyped'
  BY DEF Base, TablesTyped
<1>4. StacksTyped'
  <2>1. StacksTyped
    BY DEF Base
  <2>2. \A p \in Proc : StackIs(pc'[p], local'[p], fds'[p]) /\ DescriptorsAre(fds'[p])
    <3> SUFFICES ASSUME NEW p \in Proc PROVE StackIs(pc[p], local[p], fds'[p]) /\ DescriptorsAre(fds'[p])
      BY <1>1
    <3>1. CASE fds'[p] = fds[p]
      BY <2>1, <3>1 DEF StacksTyped
    <3>2. CASE pc[p] = "user" /\ DescriptorsAre(fds'[p])
      BY <2>1, <3>2 DEF StacksTyped, StackIs, Indexing, Undoing, Wanting, Point, OpenPoints, ClosePoints
    <3> QED BY <3>1, <3>2
  <2>3. \A p \in Proc \ alive' : pc'[p] = "user"
    BY <1>1, <2>1 DEF StacksTyped
  <2> QED BY <1>1, <2>1, <2>2, <2>3 DEF StacksTyped
<1> QED BY <1>1, <1>2, <1>3, <1>4 DEF Base, Guards

LEMMA ExitKeeps ==
  ASSUME Base, NEW p \in Proc, Exit(p), faults' = faults \cup Faulty'
  PROVE  Base'
<1>1. /\ UNCHANGED <<pc, local, mutexes, mqs, numMQs, filesTable, numFiles, orphans>>
      /\ pc[p] = "user" /\ p \in alive /\ alive' = alive \ {p}
      /\ fds' = [fds EXCEPT ![p] = [d \in FD |-> Closed]]
  BY DEF Exit, At
<1>2. StacksTyped /\ Recorded
  BY DEF Base
<1>3. /\ fds' \in [Proc -> [FD -> Descriptor]]
      /\ \A q \in Proc : fds'[q] = fds[q] \/ (pc[q] = "user" /\ DescriptorsAre(fds'[q]))
  <2>1. fds' \in [Proc -> [FD -> Descriptor]] /\ \A q \in Proc \ {p} : fds'[q] = fds[q]
    BY <1>1, <1>2, Blanks DEF StacksTyped
  <2>2. fds'[p] = [d \in FD |-> Closed]
    BY <1>1, <1>2 DEF StacksTyped
  <2>3. DescriptorsAre([d \in FD |-> Closed])
    BY DEF DescriptorsAre, Closed
  <2> QED BY <1>1, <2>1, <2>2, <2>3
<1>4. cpu' \in Proc
  <2>1. CASE alive = {p}
    BY <2>1 DEF Exit
  <2>2. CASE alive # {p}
    <3>1. alive \ {p} # {} /\ alive \ {p} \in SUBSET Proc
      BY <1>1, <1>2, <2>2 DEF StacksTyped
    <3> QED BY <2>2, <3>1, AfterIs DEF Exit
  <2> QED BY <2>1, <2>2
<1>5. Recorded'
  <2>1. Faulty' \subseteq {"links", "counts", "joined", "passed", "undone"}
    BY DEF Faulty, Fault
  <2> QED BY <1>2, <2>1 DEF Recorded
<1> QED BY <1>1, <1>3, <1>4, <1>5, OthersKeep

LEMMA YieldKeeps ==
  ASSUME Base, NEW p \in Proc, p \in alive, Yield(p), faults' = faults \cup Faulty'
  PROVE  Base'
<1>1. UNCHANGED <<pc, local, mutexes, mqs, numMQs, filesTable, numFiles, orphans, fds, alive>>
  BY DEF Yield, tables
<1>2. StacksTyped /\ Recorded
  BY DEF Base
<1>3. cpu' \in Proc
  <2>1. alive # {} /\ alive \in SUBSET Proc
    BY <1>2 DEF StacksTyped
  <2> QED BY <2>1, AfterIs DEF Yield, StacksTyped
<1>4. Recorded'
  <2>1. Faulty' \subseteq {"links", "counts", "joined", "passed", "undone"}
    BY DEF Faulty, Fault
  <2> QED BY <1>2, <2>1 DEF Recorded
<1>5. fds' \in [Proc -> [FD -> Descriptor]] /\ fds' = fds /\ alive' = alive
  BY <1>1, <1>2 DEF StacksTyped
<1> QED BY <1>1, <1>3, <1>4, <1>5, OthersKeep

-----------------------------------------------------------------------------
(* At the start both mutexes are free.                                     *)
LEMMA InitKeeps == Init => Base
<1> SUFFICES ASSUME Init PROVE Base
  OBVIOUS
<1>1. \A p \in Proc : pc[p] = "user" /\ local[p] = NoLocals /\ fds[p] = [d \in FD |-> Closed]
  BY DEF Init
<1>2. TablesTyped
  BY Blanks, WrapAssumption DEF Init, TablesTyped, Counter
<1>3. StacksTyped
  <2>1. \A p \in Proc : StackIs(pc[p], local[p], fds[p]) /\ DescriptorsAre(fds[p])
    <3>1. DescriptorsAre([d \in FD |-> Closed])
      BY DEF DescriptorsAre, Closed
    <3> QED BY <1>1, <3>1, Blanks
  <2>2. pc \in [Proc -> Point] /\ local \in [Proc -> Local] /\ fds \in [Proc -> [FD -> Descriptor]]
    BY Blanks DEF Init, Point
  <2>3. alive = Proc /\ cpu \in Proc
    BY SizesAssumption DEF Init, Proc
  <2> QED BY <2>1, <2>2, <2>3 DEF StacksTyped
<1>4. Opening = {} /\ InClose = {}
  <2>1. \A p \in Proc : ~local[p].rollback
    BY <1>1 DEF NoLocals
  <2> QED BY <1>1, <2>1 DEF Opening, InClose, OpenPoints, ClosePoints
<1>5. Recorded
  <2>1. \A p, q \in Proc : Fault(p, q) = {}
    BY <1>1 DEF Fault, Joining, Destroying, NoLocals
  <2>2. Faulty = {}
    BY <2>1 DEF Faulty
  <2> QED BY <2>2 DEF Init, Recorded
<1> QED BY <1>2, <1>3, <1>4, <1>5 DEF Init, Base, Guards

(* No step breaks it.                                                      *)
LEMMA NextKeeps == Base /\ [Next]_vars => Base'
<1> SUFFICES ASSUME Base, [Next]_vars PROVE Base'
  OBVIOUS
<1>1. CASE UNCHANGED vars
  <2>1. UNCHANGED <<pc, local, mutexes, mqs, numMQs, filesTable, numFiles, orphans, fds, alive, cpu, faults>>
    BY <1>1 DEF vars, tables
  <2>2. Faulty' = Faulty
    BY <2>1 DEF Faulty, Fault, Joining, Destroying
  <2>3. Recorded' /\ fds' \in [Proc -> [FD -> Descriptor]] /\ cpu' \in Proc
    BY <2>1, <2>2 DEF Base, Recorded, StacksTyped
  <2> QED BY <2>1, <2>3, OthersKeep
<1>2. ASSUME NEW p \in Proc, Step(p) PROVE Base'
  <2>1. faults' = faults \cup Faulty'
    BY <1>2 DEF Step
  <2>2. CASE Tick(p)
    BY <2>1, <2>2, YieldKeeps DEF Tick
  <2>3. CASE Open(p)
    <3>1. CASE OpenLock(p)
      BY <2>1, <3>1, OpenLockKeeps
    <3>2. CASE OpenLockBusy(p)
      BY <2>1, <3>2, YieldKeeps DEF OpenLockBusy, At
    <3>3. CASE indexOfMQ(p)
      BY <2>1, <3>3, indexOfMQKeeps
    <3>4. CASE findFreeSlot(p)
      BY <2>1, <3>4, findFreeSlotKeeps
    <3>5. CASE createBasicFile(p)
      BY <2>1, <3>5, createBasicFileKeeps
    <3>6. CASE fillFile(p)
      BY <2>1, <3>6, fillFileKeeps
    <3>7. CASE countFile(p)
      BY <2>1, <3>7, countFileKeeps
    <3>8. CASE newMQ(p)
      BY <2>1, <3>8, newMQKeeps
    <3>9. CASE countMQ(p)
      BY <2>1, <3>9, countMQKeeps
    <3>10. CASE markAccess(p)
      BY <2>1, <3>10, markAccessKeeps
    <3>11. CASE markAccessStore(p)
      BY <2>1, <3>11, markAccessStoreKeeps
    <3>12. CASE addFile(p)
      BY <2>1, <3>12, addFileKeeps
    <3>13. CASE Link(p)
      BY <2>1, <3>13, LinkKeeps
    <3>14. CASE OpenUnlock(p)
      BY <2>1, <3>14, OpenUnlockKeeps
    <3> QED BY <2>3, <3>1, <3>2, <3>3, <3>4, <3>5, <3>6, <3>7, <3>8, <3>9, <3>10, <3>11, <3>12, <3>13, <3>14 DEF Open
  <2>4. CASE Close(p)
    <3>1. CASE CloseLock(p)
      BY <2>1, <3>1, CloseLockKeeps
    <3>2. CASE CloseLockBusy(p)
      BY <2>1, <3>2, YieldKeeps DEF CloseLockBusy, At
    <3>3. CASE Unmark(p)
      BY <2>1, <3>3, UnmarkKeeps
    <3>4. CASE Unlink(p)
      BY <2>1, <3>4, UnlinkKeeps
    <3>5. CASE UnlinkStore(p)
      BY <2>1, <3>5, UnlinkStoreKeeps
    <3>6. CASE Last(p)
      BY <2>1, <3>6, LastKeeps
    <3>7. CASE destroyBasicFile(p)
      BY <2>1, <3>7, destroyBasicFileKeeps
    <3>8. CASE LoadFiles(p)
      BY <2>1, <3>8, LoadFilesKeeps
    <3>9. CASE uncountFile(p)
      BY <2>1, <3>9, uncountFileKeeps
    <3>10. CASE destroyMQ(p)
      BY <2>1, <3>10, destroyMQKeeps
    <3>11. CASE LoadMQs(p)
      BY <2>1, <3>11, LoadMQsKeeps
    <3>12. CASE uncountMQ(p)
      BY <2>1, <3>12, uncountMQKeeps
    <3>13. CASE CloseUnlock(p)
      BY <2>1, <3>13, CloseUnlockKeeps
    <3>14. CASE removeFile(p)
      BY <2>1, <3>14, removeFileKeeps
    <3> QED BY <2>4, <3>1, <3>2, <3>3, <3>4, <3>5, <3>6, <3>7, <3>8, <3>9, <3>10, <3>11, <3>12, <3>13, <3>14 DEF Close
  <2>5. CASE User(p)
    BY <2>1, <2>5, CallOpenKeeps, CallCloseKeeps, ExitKeeps DEF User
  <2> QED BY <1>2, <2>2, <2>3, <2>4, <2>5 DEF Step, Call
<1> QED BY <1>1, <1>2 DEF Next, Ended

(* A guard counts who is inside.                                           *)
LEMMA GuardsCount ==
  ASSUME NEW m, NEW S, Guards(m, S)
  PROVE  Cardinality(S) = m
<1>1. CASE m = 0 /\ S = {}
  BY <1>1, FS_EmptySet
<1>2. CASE m = 1 /\ \E p \in Proc : S = {p}
  BY <1>2, FS_Singleton
<1> QED BY <1>1, <1>2 DEF Guards

(* Whatever the processes open and close, and wherever ticks come, a mutex *)
(* of mq.c is taken exactly when one process is inside, and is given back  *)
(* on every way out, also by an open that had to undo itself.              *)
THEOREM MutexesExclude == Spec => []MutexesHeld
<1>1. Spec => []Base
  BY InitKeeps, NextKeeps, PTL DEF Spec
<1>2. Base => MutexesHeld
  BY GuardsCount DEF Base, MutexesHeld
<1> QED BY <1>1, <1>2, PTL

-----------------------------------------------------------------------------
(* A step of p is nobody else's.                                           *)
Alone(p) == /\ p \in alive /\ Stay
            /\ \A q \in Proc \ {p} : pc'[q] = pc[q] /\ local'[q] = local[q] /\ fds'[q] = fds[q]

(* What is known of p before a step, and of the variables' types after it. *)
LEMMA Known ==
  ASSUME Base, NEW p \in Proc
  PROVE  /\ pc \in [Proc -> Point] /\ local \in [Proc -> Local] /\ fds \in [Proc -> [FD -> Descriptor]]
         /\ local[p] \in Local /\ fds[p] \in [FD -> Descriptor]
         /\ StackIs(pc[p], local[p], fds[p]) /\ DescriptorsAre(fds[p])
         /\ \A x : Goto(p, x) => pc'[p] = x /\ \A q \in Proc \ {p} : pc'[q] = pc[q]
         /\ \A l : local' = [local EXCEPT ![p] = l] => local'[p] = l /\ \A q \in Proc \ {p} : local'[q] = local[q]
         /\ Return(p) => pc'[p] = "user" /\ local'[p] = NoLocals
                         /\ \A q \in Proc \ {p} : pc'[q] = pc[q] /\ local'[q] = local[q]
<1>1. /\ pc \in [Proc -> Point] /\ local \in [Proc -> Local] /\ fds \in [Proc -> [FD -> Descriptor]]
      /\ local[p] \in Local /\ fds[p] \in [FD -> Descriptor]
      /\ StackIs(pc[p], local[p], fds[p]) /\ DescriptorsAre(fds[p])
  BY DEF Base, StacksTyped
<1>2. \A x : Goto(p, x) => pc'[p] = x /\ \A q \in Proc \ {p} : pc'[q] = pc[q]
  BY <1>1 DEF Goto
<1>3. \A l : local' = [local EXCEPT ![p] = l] => local'[p] = l /\ \A q \in Proc \ {p} : local'[q] = local[q]
  BY <1>1
<1>4. Return(p) => pc'[p] = "user" /\ local'[p] = NoLocals
                   /\ \A q \in Proc \ {p} : pc'[q] = pc[q] /\ local'[q] = local[q]
  BY <1>1 DEF Return, Goto
<1> QED BY <1>1, <1>2, <1>3, <1>4

LEMMA OpenAlone ==
  ASSUME Base, NEW p \in Proc, Open(p), ~OpenLockBusy(p)
  PROVE  Alone(p)
<1>1. /\ pc \in [Proc -> Point] /\ local \in [Proc -> Local] /\ fds \in [Proc -> [FD -> Descriptor]]
  BY Known
<1>2. CASE OpenLock(p)      BY <1>1, <1>2 DEF OpenLock, At, Goto, Alone, tables
<1>3. CASE indexOfMQ(p)     BY <1>1, <1>3 DEF indexOfMQ, At, Goto, Alone, tables
<1>4. CASE findFreeSlot(p)  BY <1>1, <1>4 DEF findFreeSlot, At, Goto, Alone, tables
<1>5. CASE createBasicFile(p) BY <1>1, <1>5 DEF createBasicFile, At, Goto, Alone, tables
<1>6. CASE fillFile(p)      BY <1>1, <1>6 DEF fillFile, At, Goto, Alone
<1>7. CASE countFile(p)     BY <1>1, <1>7 DEF countFile, At, Goto, Alone
<1>8. CASE newMQ(p)         BY <1>1, <1>8 DEF newMQ, At, Goto, Alone
<1>9. CASE countMQ(p)       BY <1>1, <1>9 DEF countMQ, At, Goto, Alone
<1>10. CASE markAccess(p)   BY <1>1, <1>10 DEF markAccess, At, Goto, Alone, tables
<1>11. CASE markAccessStore(p) BY <1>1, <1>11 DEF markAccessStore, At, Goto, Alone
<1>12. CASE addFile(p)      BY <1>1, <1>12 DEF addFile, At, Goto, Alone
<1>13. CASE Link(p)         BY <1>1, <1>13 DEF Link, At, Goto, Alone
<1>14. CASE OpenUnlock(p)   BY <1>1, <1>14 DEF OpenUnlock, At, Goto, Alone, tables, Return
<1> QED BY <1>2, <1>3, <1>4, <1>5, <1>6, <1>7, <1>8, <1>9, <1>10, <1>11, <1>12, <1>13, <1>14 DEF Open

LEMMA CloseAlone ==
  ASSUME Base, NEW p \in Proc, Close(p), ~CloseLockBusy(p)
  PROVE  Alone(p)
<1>1. /\ pc \in [Proc -> Point] /\ local \in [Proc -> Local] /\ fds \in [Proc -> [FD -> Descriptor]]
  BY Known
<1>2. CASE CloseLock(p)     BY <1>1, <1>2 DEF CloseLock, At, Goto, Alone, tables
<1>3. CASE Unmark(p)        BY <1>1, <1>3 DEF Unmark, At, Goto, Alone
<1>4. CASE Unlink(p)        BY <1>1, <1>4 DEF Unlink, At, Goto, Alone, tables
<1>5. CASE UnlinkStore(p)   BY <1>1, <1>5 DEF UnlinkStore, At, Goto, Alone
<1>6. CASE Last(p)          BY <1>1, <1>6 DEF Last, At, Goto, Alone, tables
<1>7. CASE destroyBasicFile(p) BY <1>1, <1>7 DEF destroyBasicFile, At, Goto, Alone
<1>8. CASE LoadFiles(p)     BY <1>1, <1>8 DEF LoadFiles, At, Goto, Alone, tables
<1>9. CASE uncountFile(p)   BY <1>1, <1>9 DEF uncountFile, At, Goto, Alone
<1>10. CASE destroyMQ(p)    BY <1>1, <1>10 DEF destroyMQ, At, Goto, Alone
<1>11. CASE LoadMQs(p)      BY <1>1, <1>11 DEF LoadMQs, At, Goto, Alone, tables
<1>12. CASE uncountMQ(p)    BY <1>1, <1>12 DEF uncountMQ, At, Goto, Alone
<1>13. CASE CloseUnlock(p)  BY <1>1, <1>13 DEF CloseUnlock, At, Goto, Alone, tables, Return
<1>14. CASE removeFile(p)   BY <1>1, <1>14 DEF removeFile, At, Goto, Alone, Return
<1> QED BY <1>2, <1>3, <1>4, <1>5, <1>6, <1>7, <1>8, <1>9, <1>10, <1>11, <1>12, <1>13, <1>14 DEF Close

(* Who is in a section is alone there.                                     *)
LEMMA OnlyOne ==
  ASSUME Base, NEW p \in Proc, NEW q \in Proc
  PROVE  /\ (InOpenAt(pc[p], local[p].rollback) /\ InOpenAt(pc[q], local[q].rollback)) => p = q
         /\ (InCloseAt(pc[p]) /\ InCloseAt(pc[q])) => p = q
<1>1. Guards(openMutex, Opening) /\ Guards(closeMutex, InClose)
  BY DEF Base
<1>2. \A r \in Proc : /\ r \in Opening <=> InOpenAt(pc[r], local[r].rollback)
                      /\ r \in InClose <=> InCloseAt(pc[r])
  BY DEF Opening, InClose, InOpenAt, InCloseAt
<1> QED BY <1>1, <1>2 DEF Guards

-----------------------------------------------------------------------------
(* The points of one who has erased a file but not yet freed its queue, of *)
(* one who has named a file that is no queue's yet, of one who makes a     *)
(* queue, and of one whose queue is there until he frees it.               *)
Erasing == {"filesLoad", "filesStore", "free"}
Filling == {"countFile", "newMQ"}
Making  == {"room", "search", "countFile", "newMQ"}
Holding == {"unlink", "unlinkStore", "last", "destroy", "filesLoad", "filesStore", "free"}

Erased(i) == \E q \in Proc : pc[q] \in Erasing /\ local[q].index = i
Filled(f) == \E q \in Proc : pc[q] \in Filling /\ local[q].file = f

FileView(x, l) == /\ x \in Making => mqs[l.index].file = NULL
                  /\ x = "search" => \A f \in FileSlot : filesTable[f] # l.name
                  /\ x \in Filling => filesTable[l.file] = l.name
                  /\ x \in Holding => mqs[l.index].file # NULL

(* No two files have one name; a queue's file has a name and is nobody     *)
(* else's, unless it has been erased; no file with a name is forgotten.    *)
NamesApart == \A f, g \in FileSlot : filesTable[f] = filesTable[g] /\ filesTable[f] # NoName => f = g
FilesApart == \A i \in Slot : mqs[i].file # NULL /\ ~Erased(i) =>
                /\ filesTable[mqs[i].file] # NoName
                /\ \A j \in Slot : mqs[j].file = mqs[i].file => j = i \/ Erased(j)
                /\ ~Filled(mqs[i].file)
FilesKept  == \A f \in FileSlot : filesTable[f] # NoName =>
                f \in orphans \/ (\E i \in Slot : mqs[i].file = f /\ ~Erased(i)) \/ Filled(f)
FileViews  == \A q \in Proc : FileView(pc[q], local[q])
Files == NamesApart /\ FilesApart /\ FilesKept /\ FileViews

(* A step that leaves the files alone, those on the stacks, too.           *)
LeavesFiles(p) == /\ filesTable' = filesTable /\ orphans' = orphans
                  /\ \A i \in Slot : mqs'[i].file = mqs[i].file
                  /\ pc'[p] \in Erasing <=> pc[p] \in Erasing
                  /\ pc[p] \in Erasing => local'[p].index = local[p].index
                  /\ pc'[p] \in Filling <=> pc[p] \in Filling
                  /\ pc[p] \in Filling => local'[p].file = local[p].file
                  /\ FileView(pc'[p], local'[p])

LEMMA FilesStill ==
  ASSUME Base', Files, NEW p \in Proc, Alone(p), LeavesFiles(p)
  PROVE  Files'
<1>1. \A q \in Proc \ {p} : pc'[q] = pc[q] /\ local'[q] = local[q]
  BY DEF Alone
<1>2. \A i : Erased(i)' <=> Erased(i)
  BY <1>1 DEF Erased, LeavesFiles
<1>3. \A f : Filled(f)' <=> Filled(f)
  BY <1>1 DEF Filled, LeavesFiles
<1>4. NamesApart'
  BY DEF Files, NamesApart, LeavesFiles
<1>5. FilesApart'
  BY <1>2, <1>3 DEF Files, FilesApart, LeavesFiles
<1>6. FilesKept'
  BY <1>2, <1>3 DEF Files, FilesKept, LeavesFiles
<1>7. FileViews'
  <2> SUFFICES ASSUME NEW q \in Proc PROVE FileView(pc[q], local[q])'
    BY DEF FileViews
  <2>1. FileView(pc'[q], local'[q])
    BY <1>1 DEF Files, FileViews, LeavesFiles
  <2>2. pc'[q] \in Making \cup Holding => local'[q].index \in Slot
    BY DEF Base, StacksTyped, StackIs, Indexing, Making, Holding, ClosePoints
  <2> QED BY <2>1, <2>2 DEF FileView, LeavesFiles
<1> QED BY <1>4, <1>5, <1>6, <1>7 DEF Files

LEMMA FilesRest ==
  ASSUME Files, UNCHANGED <<mqs, filesTable, orphans, pc, local>>
  PROVE  Files'
BY DEF Files, NamesApart, FilesApart, FilesKept, FileViews, FileView, Erased, Filled

(* Most steps leave the files alone.                                       *)
LEMMA OpenLeavesFiles ==
  ASSUME Base, Files, NEW p \in Proc,
         OpenLock(p) \/ indexOfMQ(p) \/ createBasicFile(p) \/ countFile(p) \/ countMQ(p) \/
         markAccess(p) \/ addFile(p) \/ OpenUnlock(p)
  PROVE  LeavesFiles(p)
<1>1. /\ pc \in [Proc -> Point] /\ local \in [Proc -> Local]
      /\ FileView(pc[p], local[p])
  BY Known DEF Files, FileViews
<1>2. CASE OpenLock(p)
  BY <1>1, <1>2 DEF OpenLock, LeavesFiles, FileView, Making, Filling, Holding, Erasing, At, Goto, tables
<1>3. CASE indexOfMQ(p)
  BY <1>1, <1>3 DEF indexOfMQ, LeavesFiles, FileView, Making, Filling, Holding, Erasing, At, Goto, tables
<1>4. CASE createBasicFile(p)
  <2>1. filesTable' = filesTable /\ orphans' = orphans /\ mqs' = mqs /\ pc[p] = "room" /\ local[p] \in Local
    BY <1>4, Known DEF createBasicFile, At, tables
  <2>2. CASE pc'[p] = "openUnlock"
    BY <2>1, <2>2 DEF LeavesFiles, FileView, Making, Filling, Holding, Erasing
  <2>3. CASE pc'[p] # "openUnlock"
    <3>1. pc'[p] = "search" /\ local' = [local EXCEPT ![p].file = 0] /\ \A f \in FileSlot : filesTable[f] # local[p].name
      BY <1>1, <1>4, <2>3 DEF createBasicFile, Goto
    <3>2. local'[p].name = local[p].name /\ local'[p].index = local[p].index
      BY <1>1, <2>1, <3>1 DEF Local
    <3>3. mqs[local[p].index].file = NULL
      BY <1>1, <2>1 DEF FileView, Making
    <3> QED BY <2>1, <3>1, <3>2, <3>3 DEF LeavesFiles, FileView, Making, Filling, Holding, Erasing
  <2> QED BY <2>2, <2>3
<1>5. CASE countFile(p)
  BY <1>1, <1>5 DEF countFile, LeavesFiles, FileView, Making, Filling, Holding, Erasing, At, Goto
<1>6. CASE countMQ(p)
  BY <1>1, <1>6 DEF countMQ, LeavesFiles, FileView, Making, Filling, Holding, Erasing, At, Goto
<1>7. CASE markAccess(p)
  BY <1>1, <1>7 DEF markAccess, LeavesFiles, FileView, Making, Filling, Holding, Erasing, At, Goto, tables
<1>8. CASE addFile(p)
  BY <1>1, <1>8 DEF addFile, LeavesFiles, FileView, Making, Filling, Holding, Erasing, At, Goto
<1>9. CASE OpenUnlock(p)
  BY <1>1, <1>9 DEF OpenUnlock, LeavesFiles, FileView, Making, Filling, Holding, Erasing, At, Goto, tables, Return
<1> QED BY <1>2, <1>3, <1>4, <1>5, <1>6, <1>7, <1>8, <1>9

(* So do most of MQclose.                                                  *)
LEMMA CloseLeavesFiles ==
  ASSUME Base, Files, NEW p \in Proc,
         CloseLock(p) \/ Unlink(p) \/ Last(p) \/ LoadFiles(p) \/ uncountFile(p) \/
         LoadMQs(p) \/ uncountMQ(p) \/ CloseUnlock(p) \/ removeFile(p)
  PROVE  LeavesFiles(p)
<1>1. /\ pc \in [Proc -> Point] /\ local \in [Proc -> Local]
      /\ FileView(pc[p], local[p])
  BY Known DEF Files, FileViews
<1>2. CASE CloseLock(p)
  BY <1>1, <1>2 DEF CloseLock, LeavesFiles, FileView, Making, Filling, Holding, Erasing, At, Goto, tables
<1>3. CASE Unlink(p)
  BY <1>1, <1>3 DEF Unlink, LeavesFiles, FileView, Making, Filling, Holding, Erasing, At, Goto, tables
<1>4. CASE Last(p)
  BY <1>1, <1>4 DEF Last, LeavesFiles, FileView, Making, Filling, Holding, Erasing, At, Goto, tables
<1>5. CASE LoadFiles(p)
  BY <1>1, <1>5 DEF LoadFiles, LeavesFiles, FileView, Making, Filling, Holding, Erasing, At, Goto, tables
<1>6. CASE uncountFile(p)
  BY <1>1, <1>6 DEF uncountFile, LeavesFiles, FileView, Making, Filling, Holding, Erasing, At, Goto
<1>7. CASE LoadMQs(p)
  BY <1>1, <1>7 DEF LoadMQs, LeavesFiles, FileView, Making, Filling, Holding, Erasing, At, Goto, tables
<1>8. CASE uncountMQ(p)
  BY <1>1, <1>8 DEF uncountMQ, LeavesFiles, FileView, Making, Filling, Holding, Erasing, At, Goto
<1>9. CASE CloseUnlock(p)
  BY <1>1, <1>9 DEF CloseUnlock, LeavesFiles, FileView, Making, Filling, Holding, Erasing, At, Goto, tables, Return
<1>10. CASE removeFile(p)
  BY <1>1, <1>10 DEF removeFile, LeavesFiles, FileView, Making, Filling, Holding, Erasing, At, Goto, Return
<1> QED BY <1>2, <1>3, <1>4, <1>5, <1>6, <1>7, <1>8, <1>9, <1>10

(* Marking an end and counting a link leave the files alone.               *)
LEMMA FieldsLeaveFiles ==
  ASSUME Base, NEW i \in Slot
  PROVE  /\ \A n : mqs' = [mqs EXCEPT ![i].links = n] => \A j \in Slot : mqs'[j].file = mqs[j].file
         /\ \A q : \A e \in {"readPID", "writePID"} :
              mqs' = [mqs EXCEPT ![i][e] = q] => \A j \in Slot : mqs'[j].file = mqs[j].file
<1>1. mqs \in [Slot -> Queue]
  BY DEF Base, TablesTyped
<1>2. \A n : mqs' = [mqs EXCEPT ![i].links = n] => \A j \in Slot : mqs'[j].file = mqs[j].file
  BY <1>1 DEF Queue
<1>3. \A q : \A e \in {"readPID", "writePID"} :
        mqs' = [mqs EXCEPT ![i][e] = q] => \A j \in Slot : mqs'[j].file = mqs[j].file
  BY <1>1 DEF Queue
<1> QED BY <1>2, <1>3

LEMMA FieldStepsLeaveFiles ==
  ASSUME Base, Files, NEW p \in Proc,
         markAccessStore(p) \/ Link(p) \/ UnlinkStore(p) \/ Unmark(p)
  PROVE  LeavesFiles(p)
<1>1. /\ pc \in [Proc -> Point] /\ local \in [Proc -> Local] /\ local[p] \in Local
      /\ FileView(pc[p], local[p])
  BY Known DEF Files, FileViews
<1>2. pc[p] \in Indexing => local[p].index \in Slot
  BY Known DEF StackIs
<1>3. filesTable' = filesTable /\ orphans' = orphans
  BY DEF markAccessStore, Link, UnlinkStore, Unmark
<1>4. CASE markAccessStore(p)
  <2>1. pc[p] = "markStore" /\ pc'[p] = "addFile"
    BY <1>1, <1>4 DEF markAccessStore, At, Goto
  <2>2. \A j \in Slot : mqs'[j].file = mqs[j].file
    BY <1>2, <1>4, <2>1, FieldsLeaveFiles DEF markAccessStore, Indexing, End
  <2> QED BY <1>3, <2>1, <2>2 DEF LeavesFiles, FileView, Making, Filling, Holding, Erasing
<1>5. CASE Link(p)
  <2>1. pc[p] = "link" /\ pc'[p] = "openUnlock"
    BY <1>1, <1>5 DEF Link, At, Goto
  <2>2. \A j \in Slot : mqs'[j].file = mqs[j].file
    BY <1>2, <1>5, <2>1, FieldsLeaveFiles DEF Link, Indexing
  <2> QED BY <1>3, <2>1, <2>2 DEF LeavesFiles, FileView, Making, Filling, Holding, Erasing
<1>6. CASE UnlinkStore(p)
  <2>1. pc[p] = "unlinkStore" /\ pc'[p] = "last" /\ local'[p].index = local[p].index
    BY <1>1, <1>6 DEF UnlinkStore, At, Goto, Local
  <2>2. \A j \in Slot : mqs'[j].file = mqs[j].file
    BY <1>2, <1>6, <2>1, FieldsLeaveFiles DEF UnlinkStore, Indexing, ClosePoints
  <2> QED BY <1>1, <1>3, <2>1, <2>2 DEF LeavesFiles, FileView, Making, Filling, Holding, Erasing
<1>7. CASE Unmark(p)
  <2>1. pc[p] = "unmark" /\ local' = local
    BY <1>7 DEF Unmark, At
  <2>2. CASE pc'[p] = "closeUnlock" /\ mqs' = mqs
    BY <1>3, <2>1, <2>2 DEF LeavesFiles, FileView, Making, Filling, Holding, Erasing
  <2>3. CASE ~(pc'[p] = "closeUnlock" /\ mqs' = mqs)
    <3>1. /\ pc'[p] = "unlink" /\ mqs[local[p].index].file # NULL
          /\ \E e \in {"readPID", "writePID"} : mqs' = [mqs EXCEPT ![local[p].index][e] = NoPID]
      BY <1>1, <1>7, <2>3 DEF Unmark, Goto
    <3>2. \A j \in Slot : mqs'[j].file = mqs[j].file
      BY <1>2, <2>1, <3>1, FieldsLeaveFiles DEF Indexing, ClosePoints
    <3> QED BY <1>3, <2>1, <3>1, <3>2 DEF LeavesFiles, FileView, Making, Filling, Holding, Erasing
  <2> QED BY <2>2, <2>3
<1> QED BY <1>4, <1>5, <1>6, <1>7

(* A round of a search that goes on, or of findFreeSlot.                   *)
LEMMA SearchesLeaveFiles ==
  ASSUME Base, Files, NEW p \in Proc,
         findFreeSlot(p) \/ (fillFile(p) /\ filesTable[local[p].file] # NoName)
  PROVE  LeavesFiles(p)
<1>1. /\ pc \in [Proc -> Point] /\ local \in [Proc -> Local] /\ local[p] \in Local
      /\ FileView(pc[p], local[p])
  BY Known DEF Files, FileViews
<1>2. CASE findFreeSlot(p)
  <2>1. filesTable' = filesTable /\ orphans' = orphans /\ mqs' = mqs /\ pc[p] = "slot"
    BY <1>2 DEF findFreeSlot, At, tables
  <2>2. CASE pc'[p] = "room"
    <3>1. local' = local /\ mqs[local[p].index].file = NULL
      BY <1>1, <1>2, <2>1, <2>2 DEF findFreeSlot, Goto
    <3> QED BY <2>1, <2>2, <3>1 DEF LeavesFiles, FileView, Making, Filling, Holding, Erasing
  <2>3. CASE pc'[p] # "room"
    <3>1. pc'[p] \in {"slot", "openUnlock"}
      BY <1>1, <1>2, <2>1, <2>3 DEF findFreeSlot, Goto
    <3> QED BY <2>1, <3>1 DEF LeavesFiles, FileView, Making, Filling, Holding, Erasing
  <2> QED BY <2>2, <2>3
<1>3. CASE fillFile(p) /\ filesTable[local[p].file] # NoName
  <2>1. /\ filesTable' = filesTable /\ orphans' = orphans /\ mqs' = mqs /\ pc[p] = "search"
        /\ pc' = pc /\ local' = [local EXCEPT ![p].file = local[p].file + 1]
    BY <1>3 DEF fillFile, At
  <2>2. local'[p].name = local[p].name /\ local'[p].index = local[p].index
    BY <1>1, <2>1 DEF Local
  <2> QED BY <1>1, <2>1, <2>2 DEF LeavesFiles, FileView, Making, Filling, Holding, Erasing
<1> QED BY <1>2, <1>3

-----------------------------------------------------------------------------
(* What a step of p leaves as it is of who erases and who fills what.      *)
LEMMA OthersHold ==
  ASSUME Files, NEW p \in Proc, Alone(p)
  PROVE  /\ \A q \in Proc \ {p} : pc'[q] = pc[q] /\ local'[q] = local[q] /\ FileView(pc[q], local[q])
         /\ \A i : Erased(i)' <=> \/ pc'[p] \in Erasing /\ local'[p].index = i
                                  \/ \E q \in Proc \ {p} : pc[q] \in Erasing /\ local[q].index = i
         /\ \A f : Filled(f)' <=> \/ pc'[p] \in Filling /\ local'[p].file = f
                                  \/ \E q \in Proc \ {p} : pc[q] \in Filling /\ local[q].file = f
<1>1. \A q \in Proc \ {p} : pc'[q] = pc[q] /\ local'[q] = local[q] /\ FileView(pc[q], local[q])
  BY DEF Alone, Files, FileViews
<1>2. \A i : Erased(i)' <=> \/ pc'[p] \in Erasing /\ local'[p].index = i
                            \/ \E q \in Proc \ {p} : pc[q] \in Erasing /\ local[q].index = i
  BY <1>1 DEF Erased
<1>3. \A f : Filled(f)' <=> \/ pc'[p] \in Filling /\ local'[p].file = f
                            \/ \E q \in Proc \ {p} : pc[q] \in Filling /\ local[q].file = f
  BY <1>1 DEF Filled
<1> QED BY <1>1, <1>2, <1>3

(* Nobody else is at a point of MQopen, or of MQclose, that p is alone at. *)
LEMMA OnlyOneAt ==
  ASSUME Base, NEW p \in Proc
  PROVE  /\ pc[p] \in OpenPoints \ {"openLock"} => \A q \in Proc \ {p} : pc[q] \notin OpenPoints \ {"openLock"}
         /\ InCloseAt(pc[p]) => \A q \in Proc \ {p} : ~InCloseAt(pc[q])
BY OnlyOne DEF InOpenAt

(* A file that gets a name is nobody's, and gets one nobody has.           *)
LEMMA fillFileKeepsFiles ==
  ASSUME Base, Files, NEW p \in Proc, fillFile(p), Alone(p), filesTable[local[p].file] = NoName
  PROVE  Files'
<1> DEFINE f == local[p].file
           n == local[p].name
<1>1. /\ pc[p] = "search" /\ pc'[p] = "countFile" /\ local'[p].file = f /\ local'[p].name = n
      /\ local'[p].index = local[p].index
      /\ filesTable' = [filesTable EXCEPT ![f] = n] /\ mqs' = mqs /\ orphans' = orphans /\ f < MaxFiles
  BY Known DEF fillFile, At, Goto, Local
<1>2. f \in FileSlot /\ n \in Name /\ n # NoName
  <2>1. f \in 0..MaxFiles /\ f < MaxFiles /\ n \in Name
    BY Known, <1>1 DEF StackIs, OpenPoints
  <2> QED BY <2>1, NameAssumption, SizesAssumption DEF FileSlot
<1>3. filesTable \in [FileSlot -> Name \cup {NoName}] /\ mqs \in [Slot -> Queue]
  BY DEF Base, TablesTyped
<1>4. filesTable[f] = NoName /\ \A g \in FileSlot : filesTable[g] # n
  BY <1>1 DEF Files, FileViews, FileView
<1>5. \A g \in FileSlot : filesTable'[g] = IF g = f THEN n ELSE filesTable[g]
  BY <1>1, <1>2, <1>3
<1> HIDE DEF f, n
<1>6. \A i \in Slot : mqs[i].file \in FileSlot \cup {NULL}
  BY <1>3 DEF Queue
<1>7. \A i : Erased(i)' <=> Erased(i)
  BY <1>1, OthersHold DEF Erased, Erasing
<1>8. \A g : Filled(g)' <=> g = f
  <2>1. \A q \in Proc \ {p} : pc[q] \notin Filling
    BY <1>1, OnlyOneAt DEF Filling, OpenPoints
  <2>2. \A g : Filled(g)' <=> pc'[p] \in Filling /\ local'[p].file = g
    BY <2>1, OthersHold
  <2> QED BY <1>1, <2>2 DEF Filling
<1>9. \A i \in Slot : mqs[i].file = f => Erased(i)
  BY <1>2, <1>4, Numbers DEF Files, FilesApart
<1>10. NamesApart'
  BY <1>2, <1>4, <1>5 DEF Files, NamesApart
<1>11. FilesApart'
  <2> SUFFICES ASSUME NEW i \in Slot, mqs[i].file # NULL, ~Erased(i)
      PROVE  /\ filesTable'[mqs[i].file] # NoName
             /\ \A j \in Slot : mqs[j].file = mqs[i].file => j = i \/ Erased(j)
             /\ mqs[i].file # f
    BY <1>1, <1>7, <1>8 DEF FilesApart
  <2>1. /\ filesTable[mqs[i].file] # NoName
        /\ \A j \in Slot : mqs[j].file = mqs[i].file => j = i \/ Erased(j)
    BY DEF Files, FilesApart
  <2>2. mqs[i].file \in FileSlot /\ mqs[i].file # f
    BY <1>6, <1>9
  <2> QED BY <1>5, <2>1, <2>2
<1>12. FilesKept'
  <2> SUFFICES ASSUME NEW g \in FileSlot, filesTable'[g] # NoName, g # f
      PROVE  g \in orphans \/ \E i \in Slot : mqs[i].file = g /\ ~Erased(i)
    BY <1>1, <1>7, <1>8 DEF FilesKept
  <2>1. ~Filled(g)
    BY <1>1, OnlyOneAt DEF Filled, Filling, OpenPoints
  <2> QED BY <1>5, <2>1 DEF Files, FilesKept
<1>13. FileViews'
  <2> SUFFICES ASSUME NEW q \in Proc PROVE FileView(pc[q], local[q])'
    BY DEF FileViews
  <2>1. CASE q = p
    <3>1. filesTable'[local'[p].file] = local'[p].name
      BY <1>1, <1>2, <1>5 DEF f, n
    <3>2. mqs'[local'[p].index].file = NULL
      BY <1>1 DEF Files, FileViews, FileView, Making
    <3> QED BY <1>1, <2>1, <3>1, <3>2 DEF FileView, Holding
  <2>2. CASE q # p
    <3>1. pc'[q] = pc[q] /\ local'[q] = local[q] /\ FileView(pc[q], local[q])
      BY <2>2, OthersHold
    <3>2. pc[q] \notin Making
      BY <1>1, <2>2, OnlyOneAt DEF Making, OpenPoints
    <3> QED BY <1>1, <3>1, <3>2 DEF FileView, Making, Filling
  <2> QED BY <2>1, <2>2
<1> QED BY <1>10, <1>11, <1>12, <1>13 DEF Files

(* The file of a new queue is no other's that is not being destroyed.      *)
LEMMA newMQKeepsFiles ==
  ASSUME Base, Files, NEW p \in Proc, newMQ(p), Alone(p)
  PROVE  Files'
<1> DEFINE i == local[p].index
           f == local[p].file
<1>1. /\ pc[p] = "newMQ" /\ pc'[p] = "countMQ" /\ filesTable' = filesTable /\ orphans' = orphans
      /\ mqs' = [mqs EXCEPT ![i] = [[FreeMQ EXCEPT !.file = f] EXCEPT ![End(local[p].flags)] = p]]
  BY Known DEF newMQ, At, Goto
<1>2. f \in FileSlot /\ i \in Slot
  BY Known, <1>1 DEF StackIs, Indexing
<1>3. filesTable \in [FileSlot -> Name \cup {NoName}] /\ mqs \in [Slot -> Queue]
  BY DEF Base, TablesTyped
<1>4. mqs[i].file = NULL /\ filesTable[f] = local[p].name /\ filesTable[f] # NoName
  <2>1. local[p].name \in Name
    BY Known, <1>1 DEF StackIs, OpenPoints
  <2> QED BY <1>1, <2>1, NameAssumption DEF Files, FileViews, FileView, Making, Filling
<1>5. \A j \in Slot : mqs'[j].file = IF j = i THEN f ELSE mqs[j].file
  <2>1. \A j \in Slot \ {i} : mqs'[j] = mqs[j]
    BY <1>1, <1>3
  <2>2. mqs'[i].file = f
    BY <1>1, <1>2, <1>3 DEF FreeMQ, End
  <2> QED BY <2>1, <2>2
<1> HIDE DEF f, i
<1>6. \A j : Erased(j)' <=> Erased(j)
  BY <1>1, OthersHold DEF Erased, Erasing
<1>7. ~Erased(i)
  BY <1>2, <1>4 DEF Files, FileViews, FileView, Erased, Erasing, Holding
<1>8. \A g : Filled(g)' <=> FALSE
  <2>1. \A q \in Proc \ {p} : pc[q] \notin Filling
    BY <1>1, OnlyOneAt DEF Filling, OpenPoints
  <2> QED BY <1>1, <2>1, OthersHold DEF Filling
<1>9. Filled(f)
  BY <1>1 DEF Filled, Filling, f
<1>10. \A j \in Slot : mqs[j].file = f => Erased(j)
  BY <1>2, <1>9, Numbers DEF Files, FilesApart
<1>11. NamesApart'
  BY <1>1 DEF Files, NamesApart
<1>12. FilesApart'
  <2> SUFFICES ASSUME NEW j \in Slot, mqs'[j].file # NULL, ~Erased(j)
      PROVE  /\ filesTable[mqs'[j].file] # NoName
             /\ \A k \in Slot : mqs'[k].file = mqs'[j].file => k = j \/ Erased(k)
    BY <1>1, <1>6, <1>8 DEF FilesApart
  <2>1. CASE j = i
    BY <1>4, <1>5, <1>10, <2>1
  <2>2. CASE j # i
    <3>1. /\ mqs'[j].file = mqs[j].file /\ filesTable[mqs[j].file] # NoName
          /\ \A k \in Slot : mqs[k].file = mqs[j].file => k = j \/ Erased(k)
      BY <1>5, <2>2 DEF Files, FilesApart
    <3>2. mqs[j].file # f
      BY <1>10
    <3> QED BY <1>5, <3>1, <3>2
  <2> QED BY <2>1, <2>2
<1>13. FilesKept'
  <2> SUFFICES ASSUME NEW g \in FileSlot, filesTable[g] # NoName
      PROVE  g \in orphans \/ \E j \in Slot : mqs'[j].file = g /\ ~Erased(j)
    BY <1>1, <1>6 DEF FilesKept
  <2>1. CASE g = f
    BY <1>2, <1>5, <1>7, <2>1
  <2>2. CASE g # f
    <3>1. ~Filled(g)
      BY <1>1, <2>2, OnlyOneAt DEF Filled, Filling, OpenPoints, f
    <3>2. \A j \in Slot : mqs[j].file = g => j # i
      BY <1>4, Numbers
    <3> QED BY <1>5, <3>1, <3>2 DEF Files, FilesKept
  <2> QED BY <2>1, <2>2
<1>14. FileViews'
  <2> SUFFICES ASSUME NEW q \in Proc PROVE FileView(pc[q], local[q])'
    BY DEF FileViews
  <2>1. CASE q = p
    BY <1>1, <2>1 DEF FileView, Making, Holding, Filling
  <2>2. CASE q # p
    <3>1. pc'[q] = pc[q] /\ local'[q] = local[q] /\ FileView(pc[q], local[q])
      BY <2>2, OthersHold
    <3>2. pc[q] \notin Making
      BY <1>1, <2>2, OnlyOneAt DEF Making, OpenPoints
    <3>3. pc[q] \in Holding => local[q].index \in Slot /\ local[q].index # i
      <4>1. pc[q] \in Holding => local[q].index \in Slot
        BY Known DEF StackIs, Indexing, Holding, ClosePoints
      <4> QED BY <1>4, <3>1, <4>1 DEF FileView
    <3> QED BY <1>5, <3>1, <3>2, <3>3 DEF FileView, Making, Filling
  <2> QED BY <2>1, <2>2
<1> QED BY <1>11, <1>12, <1>13, <1>14 DEF Files

-----------------------------------------------------------------------------
(* indexOfFile finds nothing or the very file, which a name is only one's. *)
LEMMA indexOfFileFinds ==
  ASSUME Files, NEW f \in FileSlot, filesTable[f] # NoName
  PROVE  indexOfFile(f) \in {NULL, f}
<1> DEFINE S == {g \in FileSlot : g < numFiles /\ filesTable[g] = filesTable[f]}
<1>1. S \subseteq {f}
  BY DEF Files, NamesApart
<1>2. S \in SUBSET Nat
  BY Numbers
<1>3. indexOfFile(f) = LowestOrNull(S)
  BY DEF indexOfFile
<1> HIDE DEF S
<1>4. S = {} => LowestOrNull(S) = NULL
  BY <1>2, LowestIs
<1>5. S # {} => LowestOrNull(S) \in S
  BY <1>2, LowestIs
<1> QED BY <1>1, <1>3, <1>4, <1>5

(* The file of a queue that is destroyed is erased, or forgotten.          *)
LEMMA destroyBasicFileKeepsFiles ==
  ASSUME Base, Files, NEW p \in Proc, destroyBasicFile(p), Alone(p)
  PROVE  Files'
<1> DEFINE i == local[p].index
           f == mqs[i].file
<1>1. pc[p] = "destroy" /\ local' = local /\ mqs' = mqs
  BY DEF destroyBasicFile, At
<1>2. i \in Slot /\ mqs \in [Slot -> Queue] /\ filesTable \in [FileSlot -> Name \cup {NoName}]
  BY Known, <1>1 DEF Base, TablesTyped, StackIs, Indexing, ClosePoints
<1>3. f \in FileSlot
  BY <1>1, <1>2 DEF Queue, Files, FileViews, FileView, Holding
<1>4. \A q \in Proc \ {p} : pc[q] \notin Holding /\ pc[q] \notin Erasing
  BY <1>1, OnlyOneAt DEF Holding, Erasing, InCloseAt, ClosePoints
<1>5. \A j : ~Erased(j)
  BY <1>1, <1>4 DEF Erased, Erasing
<1>6. pc'[p] \in Erasing
  BY Known DEF destroyBasicFile, Erasing
<1>7. \A j : Erased(j)' <=> j = i
  BY <1>1, <1>4, <1>6, OthersHold
<1>8. \A g : Filled(g)' <=> Filled(g)
  BY <1>1, <1>6, OthersHold DEF Filled, Filling, Erasing
<1>9. /\ filesTable[f] # NoName /\ ~Filled(f)
      /\ \A j \in Slot : mqs[j].file = f => j = i
  BY <1>2, <1>3, <1>5, Numbers DEF Files, FilesApart
<1>10. /\ orphans \subseteq orphans'
       /\ \/ filesTable' = filesTable /\ f \in orphans'
          \/ filesTable' = [filesTable EXCEPT ![f] = NoName]
  <2>1. indexOfFile(f) \in {NULL, f}
    BY <1>3, <1>9, indexOfFileFinds
  <2> QED BY <2>1 DEF destroyBasicFile
<1>11. \A g \in FileSlot : /\ g # f => filesTable'[g] = filesTable[g]
                           /\ filesTable'[f] = NoName \/ (filesTable'[f] = filesTable[f] /\ f \in orphans')
  BY <1>2, <1>3, <1>10
<1>12. \A j \in Slot : mqs[j].file \in FileSlot \cup {NULL}
  BY <1>2 DEF Queue
<1> HIDE DEF f
<1>13. NamesApart'
  <2> SUFFICES ASSUME NEW g \in FileSlot, NEW h \in FileSlot,
                      filesTable'[g] = filesTable'[h], filesTable'[g] # NoName
      PROVE  g = h
    BY DEF NamesApart
  <2>1. filesTable'[g] = filesTable[g] /\ filesTable'[h] = filesTable[h]
    BY <1>11
  <2> QED BY <2>1 DEF Files, NamesApart
<1>14. FilesApart'
  <2> SUFFICES ASSUME NEW j \in Slot, mqs[j].file # NULL, j # i
      PROVE  /\ filesTable'[mqs[j].file] # NoName
             /\ \A k \in Slot : mqs[k].file = mqs[j].file => k = j \/ k = i
             /\ ~Filled(mqs[j].file)
    BY <1>1, <1>7, <1>8 DEF FilesApart
  <2>1. /\ filesTable[mqs[j].file] # NoName /\ ~Filled(mqs[j].file)
        /\ \A k \in Slot : mqs[k].file = mqs[j].file => k = j
    BY <1>5 DEF Files, FilesApart
  <2>2. mqs[j].file # f /\ mqs[j].file \in FileSlot
    BY <1>9, <1>12
  <2> QED BY <1>11, <2>1, <2>2
<1>15. FilesKept'
  <2> SUFFICES ASSUME NEW g \in FileSlot, filesTable'[g] # NoName
      PROVE  g \in orphans' \/ (\E j \in Slot : mqs[j].file = g /\ j # i) \/ Filled(g)
    BY <1>1, <1>7, <1>8 DEF FilesKept
  <2>1. CASE g = f
    BY <1>11, <2>1
  <2>2. CASE g # f
    <3>1. g \in orphans \/ (\E j \in Slot : mqs[j].file = g) \/ Filled(g)
      BY <1>11, <2>2 DEF Files, FilesKept
    <3>2. mqs[i].file # g
      BY <2>2 DEF f
    <3> QED BY <1>10, <3>1, <3>2
  <2> QED BY <2>1, <2>2
<1>16. FileViews'
  <2> SUFFICES ASSUME NEW q \in Proc PROVE FileView(pc[q], local[q])'
    BY DEF FileViews
  <2>1. CASE q = p
    BY <1>1, <1>3, <1>6, <2>1, Numbers DEF FileView, Making, Filling, Erasing, f
  <2>2. CASE q # p
    <3>1. pc'[q] = pc[q] /\ local'[q] = local[q] /\ FileView(pc[q], local[q])
      BY <2>2, OthersHold
    <3>2. pc[q] = "search" => \A g \in FileSlot : filesTable'[g] # local[q].name
      <4>1. pc[q] = "search" => local[q].name # NoName
        <5>1. StackIs(pc[q], local[q], fds[q])
          BY Known
        <5> QED BY <5>1, NameAssumption DEF StackIs, OpenPoints
      <4> QED BY <1>11, <3>1, <4>1 DEF FileView
    <3>3. pc[q] \in Filling => filesTable'[local[q].file] = local[q].name
      <4>1. pc[q] \in Filling => local[q].file \in FileSlot
        BY Known DEF StackIs, Filling
      <4>2. pc[q] \in Filling => local[q].file # f
        BY <1>9 DEF Filled
      <4> QED BY <1>11, <3>1, <4>1, <4>2 DEF FileView
    <3> QED BY <1>1, <3>1, <3>2, <3>3 DEF FileView
  <2> QED BY <2>1, <2>2
<1> QED BY <1>13, <1>14, <1>15, <1>16 DEF Files

(* An erased queue goes; it was nobody's.                                  *)
LEMMA destroyMQKeepsFiles ==
  ASSUME Base, Files, NEW p \in Proc, destroyMQ(p), Alone(p)
  PROVE  Files'
<1> DEFINE i == local[p].index
<1>1. /\ pc[p] = "free" /\ pc'[p] = "mqsLoad" /\ filesTable' = filesTable /\ orphans' = orphans
      /\ mqs' = [mqs EXCEPT ![i].file = NULL]
  BY Known DEF destroyMQ, At
<1>2. i \in Slot /\ mqs \in [Slot -> Queue]
  BY Known, <1>1 DEF Base, TablesTyped, StackIs, Indexing, ClosePoints
<1>3. \A j \in Slot : mqs'[j].file = IF j = i THEN NULL ELSE mqs[j].file
  BY <1>1, <1>2 DEF Queue
<1>4. \A q \in Proc \ {p} : pc[q] \notin Holding /\ pc[q] \notin Erasing
  BY <1>1, OnlyOneAt DEF Holding, Erasing, InCloseAt, ClosePoints
<1>5. \A j : Erased(j) <=> j = i
  BY <1>1, <1>4 DEF Erased, Erasing
<1>6. \A j : ~Erased(j)'
  BY <1>1, <1>4, OthersHold DEF Erasing
<1>7. \A g : Filled(g)' <=> Filled(g)
  BY <1>1, OthersHold DEF Filled, Filling
<1> HIDE DEF i
<1>8. NamesApart'
  BY <1>1 DEF Files, NamesApart
<1>9. FilesApart'
  <2> SUFFICES ASSUME NEW j \in Slot, mqs'[j].file # NULL
      PROVE  /\ filesTable[mqs'[j].file] # NoName
             /\ \A k \in Slot : mqs'[k].file = mqs'[j].file => k = j
             /\ ~Filled(mqs'[j].file)
    BY <1>1, <1>7 DEF FilesApart
  <2>1. j # i /\ mqs'[j].file = mqs[j].file
    BY <1>3
  <2>2. /\ filesTable[mqs[j].file] # NoName /\ ~Filled(mqs[j].file)
        /\ \A k \in Slot : mqs[k].file = mqs[j].file => k = j \/ k = i
    BY <1>5, <2>1 DEF Files, FilesApart
  <2> QED BY <1>3, <2>1, <2>2
<1>10. FilesKept'
  <2> SUFFICES ASSUME NEW g \in FileSlot, filesTable[g] # NoName
      PROVE  g \in orphans \/ (\E j \in Slot : mqs'[j].file = g) \/ Filled(g)
    BY <1>1, <1>6, <1>7 DEF FilesKept
  <2>1. g \in orphans \/ (\E j \in Slot : mqs[j].file = g /\ j # i) \/ Filled(g)
    BY <1>5 DEF Files, FilesKept
  <2> QED BY <1>3, <2>1
<1>11. FileViews'
  <2> SUFFICES ASSUME NEW q \in Proc PROVE FileView(pc[q], local[q])'
    BY DEF FileViews
  <2>1. CASE q = p
    BY <1>1, <2>1 DEF FileView, Making, Filling, Holding
  <2>2. CASE q # p
    <3>1. pc'[q] = pc[q] /\ local'[q] = local[q] /\ FileView(pc[q], local[q]) /\ pc[q] \notin Holding
      BY <1>4, <2>2, OthersHold
    <3>2. pc[q] \in Making => local[q].index \in Slot
      BY Known DEF StackIs, Indexing, Making
    <3> QED BY <1>1, <1>3, <3>1, <3>2 DEF FileView
  <2> QED BY <2>1, <2>2
<1> QED BY <1>8, <1>9, <1>10, <1>11 DEF Files

LEMMA CallsKeepFiles ==
  ASSUME Base, Base', Files, NEW p \in Proc, Call(p), ~OpenLockBusy(p), ~CloseLockBusy(p)
  PROVE  Files'
<1>1. Alone(p)
  BY OpenAlone, CloseAlone DEF Call, Open, Close
<1>2. CASE LeavesFiles(p)
  BY <1>1, <1>2, FilesStill
<1>3. CASE fillFile(p)
  BY <1>1, <1>2, <1>3, fillFileKeepsFiles, SearchesLeaveFiles
<1>4. CASE newMQ(p)
  BY <1>1, <1>4, newMQKeepsFiles
<1>5. CASE destroyBasicFile(p)
  BY <1>1, <1>5, destroyBasicFileKeepsFiles
<1>6. CASE destroyMQ(p)
  BY <1>1, <1>6, destroyMQKeepsFiles
<1> QED BY <1>2, <1>3, <1>4, <1>5, <1>6, OpenLeavesFiles, CloseLeavesFiles, FieldStepsLeaveFiles,
           SearchesLeaveFiles DEF Call, Open, Close

(* The beginnings of calls.                                                *)
LEMMA UsersKeepFiles ==
  ASSUME Base, Base', Files, NEW p \in Proc, User(p) \/ Tick(p) \/ OpenLockBusy(p) \/ CloseLockBusy(p)
  PROVE  Files'
<1>1. CASE Tick(p) \/ OpenLockBusy(p) \/ CloseLockBusy(p) \/ Exit(p)
  <2>1. UNCHANGED <<mqs, filesTable, orphans, pc, local>>
    BY <1>1 DEF Tick, OpenLockBusy, CloseLockBusy, Exit, Yield, tables
  <2> QED BY <2>1, FilesRest
<1>2. ASSUME NEW name \in Name, NEW flags \in Modes, CallOpen(p, name, flags)
      PROVE  Files'
  <2>1. /\ pc[p] = "user" /\ pc'[p] = "openLock" /\ UNCHANGED <<mqs, filesTable, orphans>>
    BY Known, <1>2 DEF CallOpen, At, tables
  <2>2. Alone(p)
    BY Known, <1>2 DEF CallOpen, At, Alone, tables
  <2>3. LeavesFiles(p)
    BY <2>1 DEF LeavesFiles, FileView, Making, Filling, Holding, Erasing
  <2> QED BY <2>2, <2>3, FilesStill
<1>3. ASSUME NEW d \in FD, CallClose(p, d)
      PROVE  Files'
  <2>1. /\ pc[p] = "user" /\ pc'[p] = "closeLock" /\ UNCHANGED <<mqs, filesTable, orphans>>
    BY Known, <1>3 DEF CallClose, At, tables
  <2>2. Alone(p)
    BY Known, <1>3 DEF CallClose, At, Alone, tables
  <2>3. LeavesFiles(p)
    BY <2>1 DEF LeavesFiles, FileView, Making, Filling, Holding, Erasing
  <2> QED BY <2>2, <2>3, FilesStill
<1> QED BY <1>1, <1>2, <1>3 DEF User

LEMMA InitKeepsFiles == Init => Files
<1> SUFFICES ASSUME Init PROVE Files
  OBVIOUS
<1>1. \A q \in Proc : pc[q] = "user"
  BY DEF Init
<1>2. FileViews
  BY <1>1 DEF FileViews, FileView, Making, Filling, Holding
<1>3. NamesApart /\ FilesKept
  BY DEF Init, NamesApart, FilesKept
<1>4. FilesApart
  BY DEF Init, FilesApart, FreeMQ
<1> QED BY <1>2, <1>3, <1>4 DEF Files

LEMMA NextKeepsFiles == Base /\ Files /\ [Next]_vars => Files'
<1> SUFFICES ASSUME Base, Files, [Next]_vars PROVE Files'
  OBVIOUS
<1>1. Base'
  BY NextKeeps
<1>2. CASE UNCHANGED vars
  BY <1>2, FilesRest DEF vars, tables
<1>3. ASSUME NEW p \in Proc, Step(p) PROVE Files'
  BY <1>1, <1>3, CallsKeepFiles, UsersKeepFiles DEF Step
<1> QED BY <1>2, <1>3 DEF Next, Ended

(* Every file with a name is a queue's, or one's whose queue is being made,*)
(* or was forgotten.                                                       *)
LEMMA FilesAreBacked == Files => FilesBacked
BY DEF Files, FilesKept, FilesBacked, Filled, Filling

-----------------------------------------------------------------------------
One(b) == IF b THEN 1 ELSE 0

(* With x the points and l the stacks: the counter n counts the things in  *)
(* used, but for one a process at up has not counted yet and one somebody  *)
(* from load to store has not uncounted yet; who has loaded n has it.      *)
CountIs(x, l, n, used, up, load, store) ==
  /\ n + One(\E q \in Proc : x[q] = up) = Cardinality(used) + One(\E q \in Proc : x[q] \in {load, store})
  /\ \A q \in Proc : x[q] \in {up, store} => l[q].count = n

QueuesUsed == {i \in Slot : mqs[i].file # NULL}
FilesUsed  == {f \in FileSlot : filesTable[f] # NoName}
Counts == "counts" \notin faults =>
            /\ CountIs(pc, local, numMQs, QueuesUsed, "countMQ", "mqsLoad", "mqsStore")
            /\ CountIs(pc, local, numFiles, FilesUsed, "countFile", "filesLoad", "filesStore")

(* The points of a counter, and a step of p from x to y.                   *)
Counted(up, load, store) == <<up, load, store>> \in {<<"countMQ", "mqsLoad", "mqsStore">>,
                                                     <<"countFile", "filesLoad", "filesStore">>}

LEMMA CountStays ==
  ASSUME NEW p \in Proc, Alone(p), NEW n \in Nat, NEW used, NEW up, NEW load, NEW store,
         CountIs(pc, local, n, used, up, load, store),
         pc'[p] = up <=> pc[p] = up, pc'[p] \in {load, store} <=> pc[p] \in {load, store},
         pc'[p] \in {up, store} => local'[p].count = n
  PROVE  CountIs(pc', local', n, used, up, load, store)
<1>1. \A q \in Proc \ {p} : pc'[q] = pc[q] /\ local'[q] = local[q]
  BY DEF Alone
<1>2. (\E q \in Proc : pc'[q] = up) <=> (\E q \in Proc : pc[q] = up)
  BY <1>1
<1>3. (\E q \in Proc : pc'[q] \in {load, store}) <=> (\E q \in Proc : pc[q] \in {load, store})
  BY <1>1
<1>4. \A q \in Proc : pc'[q] \in {up, store} => local'[q].count = n
  BY <1>1 DEF CountIs
<1> QED BY <1>2, <1>3, <1>4 DEF CountIs

(* The others are not where p is, of the points of a counter.              *)
LEMMA OthersAway ==
  ASSUME Base, NEW p \in Proc, NEW up, NEW load, NEW store, Counted(up, load, store)
  PROVE  /\ pc[p] \in OpenPoints \ {"openLock"} => \A q \in Proc \ {p} : pc[q] # up
         /\ InCloseAt(pc[p]) => \A q \in Proc \ {p} : pc[q] \notin {load, store}
         /\ up \notin {load, store} /\ load # store
<1>1. up \in OpenPoints \ {"openLock"} /\ InCloseAt(load) /\ InCloseAt(store) /\ up \notin {load, store} /\ load # store
  BY DEF Counted, OpenPoints, ClosePoints, InCloseAt
<1> QED BY <1>1, OnlyOneAt

LEMMA CountBegins ==
  ASSUME Base, NEW p \in Proc, Alone(p), NEW n \in Nat, NEW S, IsFiniteSet(S), NEW e, e \notin S,
         NEW up, NEW load, NEW store, Counted(up, load, store),
         CountIs(pc, local, n, S, up, load, store),
         pc[p] \in OpenPoints \ {"openLock"}, pc[p] # up, pc'[p] = up, local'[p].count = n
  PROVE  CountIs(pc', local', n, S \cup {e}, up, load, store)
<1>1. \A q \in Proc \ {p} : pc'[q] = pc[q] /\ local'[q] = local[q] /\ pc[q] # up
  BY OthersAway DEF Alone
<1>2. up \notin {load, store} /\ pc[p] \notin {load, store}
  BY OthersAway DEF Counted, OpenPoints
<1>3. (\E q \in Proc : pc'[q] \in {load, store}) <=> (\E q \in Proc : pc[q] \in {load, store})
  BY <1>1, <1>2
<1>4. (\E q \in Proc : pc'[q] = up) /\ ~(\E q \in Proc : pc[q] = up)
  BY <1>1
<1>5. Cardinality(S \cup {e}) = Cardinality(S) + 1 /\ Cardinality(S) \in Nat
  BY FS_AddElement, FS_CardinalityType
<1>6. \A q \in Proc : pc'[q] \in {up, store} => local'[q].count = n
  BY <1>1 DEF CountIs
<1>7. n = Cardinality(S) + One(\E q \in Proc : pc[q] \in {load, store})
  BY <1>4 DEF CountIs, One
<1>8. n + 1 = Cardinality(S \cup {e}) + One(\E q \in Proc : pc'[q] \in {load, store})
  BY <1>3, <1>5, <1>7 DEF One
<1> QED BY <1>4, <1>6, <1>8 DEF CountIs, One

LEMMA CountEnds ==
  ASSUME Base, NEW p \in Proc, Alone(p), NEW n \in Counter, NEW S, Cardinality(S) \in Nat,
         Cardinality(S) + 1 < Wrap,
         NEW up, NEW load, NEW store, Counted(up, load, store),
         CountIs(pc, local, n, S, up, load, store), \A q \in Proc : pc[q] # store,
         pc[p] = up, pc'[p] \notin {up, load, store}
  PROVE  CountIs(pc', local', Up(local[p].count), S, up, load, store)
<1>1. up \in OpenPoints \ {"openLock"}
  BY DEF Counted, OpenPoints
<1>2. \A q \in Proc \ {p} : pc'[q] = pc[q] /\ local'[q] = local[q] /\ pc[q] # up
  BY <1>1, OthersAway DEF Alone
<1>3. (\E q \in Proc : pc[q] = up) /\ ~(\E q \in Proc : pc'[q] = up)
  BY <1>2
<1>4. (\E q \in Proc : pc'[q] \in {load, store}) <=> (\E q \in Proc : pc[q] \in {load, store})
  BY <1>2, OthersAway
<1>5. n + 1 = Cardinality(S) + One(\E q \in Proc : pc[q] \in {load, store}) /\ local[p].count = n
  BY <1>3 DEF CountIs, One
<1>6. n + 1 < Wrap
  BY <1>5, WrapAssumption DEF One, Counter
<1>7. Up(n) = n + 1
  BY <1>6, Counting
<1>8. \A q \in Proc : pc'[q] \notin {up, store}
  BY <1>2
<1> QED BY <1>3, <1>4, <1>5, <1>7, <1>8 DEF CountIs, One

LEMMA UncountBegins ==
  ASSUME Base, NEW p \in Proc, Alone(p), NEW n \in Nat, NEW S, IsFiniteSet(S), NEW e \in S,
         NEW up, NEW load, NEW store, Counted(up, load, store),
         CountIs(pc, local, n, S, up, load, store),
         InCloseAt(pc[p]), pc[p] \notin {load, store}, pc'[p] = load
  PROVE  CountIs(pc', local', n, S \ {e}, up, load, store)
<1>1. \A q \in Proc \ {p} : pc'[q] = pc[q] /\ local'[q] = local[q] /\ pc[q] \notin {load, store}
  BY OthersAway DEF Alone
<1>2. up # load /\ load # store /\ pc[p] # up
  BY OthersAway DEF Counted, InCloseAt, ClosePoints
<1>3. (\E q \in Proc : pc'[q] = up) <=> (\E q \in Proc : pc[q] = up)
  BY <1>1, <1>2
<1>4. (\E q \in Proc : pc'[q] \in {load, store}) /\ ~(\E q \in Proc : pc[q] \in {load, store})
  BY <1>1
<1>5. Cardinality(S \ {e}) = Cardinality(S) - 1 /\ Cardinality(S) \in Nat
  BY FS_RemoveElement, FS_CardinalityType
<1>6. \A q \in Proc : pc'[q] \in {up, store} => local'[q].count = n
  BY <1>1, <1>2 DEF CountIs
<1>7. n + One(\E q \in Proc : pc[q] = up) = Cardinality(S)
  BY <1>4, <1>5 DEF CountIs, One
<1>8. n + One(\E q \in Proc : pc'[q] = up) = Cardinality(S \ {e}) + 1
  BY <1>3, <1>5, <1>7 DEF One
<1> QED BY <1>4, <1>6, <1>8 DEF CountIs, One

LEMMA UncountEnds ==
  ASSUME Base, NEW p \in Proc, Alone(p), NEW n \in Counter, NEW S, Cardinality(S) \in Nat,
         NEW up, NEW load, NEW store, Counted(up, load, store),
         CountIs(pc, local, n, S, up, load, store), \A q \in Proc : pc[q] # up,
         pc[p] = store, pc'[p] \notin {up, load, store}
  PROVE  CountIs(pc', local', Down(local[p].count), S, up, load, store)
<1>1. InCloseAt(store)
  BY DEF Counted, InCloseAt, ClosePoints
<1>2. \A q \in Proc \ {p} : pc'[q] = pc[q] /\ local'[q] = local[q] /\ pc[q] \notin {load, store}
  BY <1>1, OthersAway DEF Alone
<1>3. ~(\E q \in Proc : pc[q] = up) /\ ~(\E q \in Proc : pc'[q] = up)
  BY <1>2
<1>4. (\E q \in Proc : pc[q] \in {load, store}) /\ ~(\E q \in Proc : pc'[q] \in {load, store})
  BY <1>2
<1>5. n = Cardinality(S) + 1 /\ local[p].count = n
  BY <1>3, <1>4, WrapAssumption DEF CountIs, One, Counter
<1>6. Down(n) = n - 1
  BY <1>5, Counting
<1>7. \A q \in Proc : pc'[q] \notin {up, store}
  BY <1>2
<1> QED BY <1>3, <1>4, <1>5, <1>6, <1>7 DEF CountIs, One

-----------------------------------------------------------------------------
(* A step of p that leaves numMQs, or numFiles, alone.                     *)
LeavesNumMQs(p) == /\ numMQs' = numMQs
                   /\ pc'[p] = "countMQ" <=> pc[p] = "countMQ"
                   /\ pc'[p] \in {"mqsLoad", "mqsStore"} <=> pc[p] \in {"mqsLoad", "mqsStore"}
                   /\ pc'[p] = "mqsStore" => local'[p].count = numMQs
LeavesNumFiles(p) == /\ numFiles' = numFiles
                     /\ pc'[p] = "countFile" <=> pc[p] = "countFile"
                     /\ pc'[p] \in {"filesLoad", "filesStore"} <=> pc[p] \in {"filesLoad", "filesStore"}
                     /\ pc'[p] = "filesStore" => local'[p].count = numFiles

(* Most steps leave numMQs alone.                                          *)
LEMMA OpenLeavesNumMQs ==
  ASSUME Base, NEW p \in Proc,
         OpenLock(p) \/ indexOfMQ(p) \/ findFreeSlot(p) \/ createBasicFile(p) \/ fillFile(p) \/
         countFile(p) \/ markAccess(p) \/ markAccessStore(p) \/ addFile(p) \/ Link(p) \/
         OpenUnlock(p)
  PROVE  LeavesNumMQs(p)
<1>1. pc \in [Proc -> Point] /\ local \in [Proc -> Local] /\ local[p] \in Local
  BY Known
<1>2. CASE OpenLock(p)
  BY <1>1, <1>2 DEF OpenLock, LeavesNumMQs, At, Goto, tables
<1>3. CASE indexOfMQ(p)
  BY <1>1, <1>3 DEF indexOfMQ, LeavesNumMQs, At, Goto, tables
<1>4. CASE findFreeSlot(p)
  BY <1>1, <1>4 DEF findFreeSlot, LeavesNumMQs, At, Goto, tables
<1>5. CASE createBasicFile(p)
  BY <1>1, <1>5 DEF createBasicFile, LeavesNumMQs, At, Goto, tables
<1>6. CASE fillFile(p)
  BY <1>1, <1>6 DEF fillFile, LeavesNumMQs, At, Goto
<1>7. CASE countFile(p)
  BY <1>1, <1>7 DEF countFile, LeavesNumMQs, At, Goto
<1>8. CASE markAccess(p)
  BY <1>1, <1>8 DEF markAccess, LeavesNumMQs, At, Goto, tables
<1>9. CASE markAccessStore(p)
  BY <1>1, <1>9 DEF markAccessStore, LeavesNumMQs, At, Goto
<1>10. CASE addFile(p)
  BY <1>1, <1>10 DEF addFile, LeavesNumMQs, At, Goto
<1>11. CASE Link(p)
  BY <1>1, <1>11 DEF Link, LeavesNumMQs, At, Goto
<1>12. CASE OpenUnlock(p)
  BY <1>1, <1>12 DEF OpenUnlock, LeavesNumMQs, At, Goto, tables, Return
<1> QED BY <1>2, <1>3, <1>4, <1>5, <1>6, <1>7, <1>8, <1>9, <1>10, <1>11, <1>12

(* The same for MQclose.                                                   *)
LEMMA CloseLeavesNumMQs ==
  ASSUME Base, NEW p \in Proc,
         CloseLock(p) \/ Unmark(p) \/ Unlink(p) \/ UnlinkStore(p) \/ Last(p) \/
         destroyBasicFile(p) \/ LoadFiles(p) \/ uncountFile(p) \/ LoadMQs(p) \/ CloseUnlock(p) \/
         removeFile(p)
  PROVE  LeavesNumMQs(p)
<1>1. pc \in [Proc -> Point] /\ local \in [Proc -> Local] /\ local[p] \in Local
  BY Known
<1>2. CASE CloseLock(p)
  BY <1>1, <1>2 DEF CloseLock, LeavesNumMQs, At, Goto, tables
<1>3. CASE Unmark(p)
  BY <1>1, <1>3 DEF Unmark, LeavesNumMQs, At, Goto
<1>4. CASE Unlink(p)
  BY <1>1, <1>4 DEF Unlink, LeavesNumMQs, At, Goto, tables
<1>5. CASE UnlinkStore(p)
  BY <1>1, <1>5 DEF UnlinkStore, LeavesNumMQs, At, Goto
<1>6. CASE Last(p)
  BY <1>1, <1>6 DEF Last, LeavesNumMQs, At, Goto, tables
<1>7. CASE destroyBasicFile(p)
  BY <1>1, <1>7 DEF destroyBasicFile, LeavesNumMQs, At, Goto
<1>8. CASE LoadFiles(p)
  BY <1>1, <1>8 DEF LoadFiles, LeavesNumMQs, At, Goto, tables, Local
<1>9. CASE uncountFile(p)
  BY <1>1, <1>9 DEF uncountFile, LeavesNumMQs, At, Goto
<1>10. CASE LoadMQs(p)
  BY <1>1, <1>10 DEF LoadMQs, LeavesNumMQs, At, Goto, tables, Local
<1>11. CASE CloseUnlock(p)
  BY <1>1, <1>11 DEF CloseUnlock, LeavesNumMQs, At, Goto, tables, Return
<1>12. CASE removeFile(p)
  BY <1>1, <1>12 DEF removeFile, LeavesNumMQs, At, Goto, Return
<1> QED BY <1>2, <1>3, <1>4, <1>5, <1>6, <1>7, <1>8, <1>9, <1>10, <1>11, <1>12

(* And most leave numFiles alone.                                          *)
LEMMA OpenLeavesNumFiles ==
  ASSUME Base, NEW p \in Proc,
         OpenLock(p) \/ indexOfMQ(p) \/ findFreeSlot(p) \/ createBasicFile(p) \/ newMQ(p) \/
         countMQ(p) \/ markAccess(p) \/ markAccessStore(p) \/ addFile(p) \/ Link(p) \/
         OpenUnlock(p)
  PROVE  LeavesNumFiles(p)
<1>1. pc \in [Proc -> Point] /\ local \in [Proc -> Local] /\ local[p] \in Local
  BY Known
<1>2. CASE OpenLock(p)
  BY <1>1, <1>2 DEF OpenLock, LeavesNumFiles, At, Goto, tables
<1>3. CASE indexOfMQ(p)
  BY <1>1, <1>3 DEF indexOfMQ, LeavesNumFiles, At, Goto, tables
<1>4. CASE findFreeSlot(p)
  BY <1>1, <1>4 DEF findFreeSlot, LeavesNumFiles, At, Goto, tables
<1>5. CASE createBasicFile(p)
  BY <1>1, <1>5 DEF createBasicFile, LeavesNumFiles, At, Goto, tables
<1>6. CASE newMQ(p)
  BY <1>1, <1>6 DEF newMQ, LeavesNumFiles, At, Goto
<1>7. CASE countMQ(p)
  BY <1>1, <1>7 DEF countMQ, LeavesNumFiles, At, Goto
<1>8. CASE markAccess(p)
  BY <1>1, <1>8 DEF markAccess, LeavesNumFiles, At, Goto, tables
<1>9. CASE markAccessStore(p)
  BY <1>1, <1>9 DEF markAccessStore, LeavesNumFiles, At, Goto
<1>10. CASE addFile(p)
  BY <1>1, <1>10 DEF addFile, LeavesNumFiles, At, Goto
<1>11. CASE Link(p)
  BY <1>1, <1>11 DEF Link, LeavesNumFiles, At, Goto
<1>12. CASE OpenUnlock(p)
  BY <1>1, <1>12 DEF OpenUnlock, LeavesNumFiles, At, Goto, tables, Return
<1> QED BY <1>2, <1>3, <1>4, <1>5, <1>6, <1>7, <1>8, <1>9, <1>10, <1>11, <1>12

(* The same for MQclose.                                                   *)
LEMMA CloseLeavesNumFiles ==
  ASSUME Base, NEW p \in Proc,
         CloseLock(p) \/ Unmark(p) \/ Unlink(p) \/ UnlinkStore(p) \/ Last(p) \/
         LoadFiles(p) \/ destroyMQ(p) \/ LoadMQs(p) \/ uncountMQ(p) \/ CloseUnlock(p) \/
         removeFile(p)
  PROVE  LeavesNumFiles(p)
<1>1. pc \in [Proc -> Point] /\ local \in [Proc -> Local] /\ local[p] \in Local
  BY Known
<1>2. CASE CloseLock(p)
  BY <1>1, <1>2 DEF CloseLock, LeavesNumFiles, At, Goto, tables
<1>3. CASE Unmark(p)
  BY <1>1, <1>3 DEF Unmark, LeavesNumFiles, At, Goto
<1>4. CASE Unlink(p)
  BY <1>1, <1>4 DEF Unlink, LeavesNumFiles, At, Goto, tables
<1>5. CASE UnlinkStore(p)
  BY <1>1, <1>5 DEF UnlinkStore, LeavesNumFiles, At, Goto
<1>6. CASE Last(p)
  BY <1>1, <1>6 DEF Last, LeavesNumFiles, At, Goto, tables
<1>7. CASE LoadFiles(p)
  BY <1>1, <1>7 DEF LoadFiles, LeavesNumFiles, At, Goto, tables, Local
<1>8. CASE destroyMQ(p)
  BY <1>1, <1>8 DEF destroyMQ, LeavesNumFiles, At, Goto
<1>9. CASE LoadMQs(p)
  BY <1>1, <1>9 DEF LoadMQs, LeavesNumFiles, At, Goto, tables, Local
<1>10. CASE uncountMQ(p)
  BY <1>1, <1>10 DEF uncountMQ, LeavesNumFiles, At, Goto
<1>11. CASE CloseUnlock(p)
  BY <1>1, <1>11 DEF CloseUnlock, LeavesNumFiles, At, Goto, tables, Return
<1>12. CASE removeFile(p)
  BY <1>1, <1>12 DEF removeFile, LeavesNumFiles, At, Goto, Return
<1> QED BY <1>2, <1>3, <1>4, <1>5, <1>6, <1>7, <1>8, <1>9, <1>10, <1>11, <1>12

-----------------------------------------------------------------------------
MQsCounted   == CountIs(pc, local, numMQs, QueuesUsed, "countMQ", "mqsLoad", "mqsStore")
FilesCounted == CountIs(pc, local, numFiles, FilesUsed, "countFile", "filesLoad", "filesStore")

(* As long as no update of a counter was lost, nobody is about to lose one.*)
LEMMA NoneLost ==
  ASSUME Base, "counts" \notin faults
  PROVE  \A p, q \in Proc : /\ ~(pc[p] = "countFile" /\ pc[q] = "filesStore")
                            /\ ~(pc[p] = "countMQ" /\ pc[q] = "mqsStore")
<1> SUFFICES ASSUME NEW p \in Proc, NEW q \in Proc,
                    <<pc[p], pc[q]>> \in {<<"countFile", "filesStore">>, <<"countMQ", "mqsStore">>}
    PROVE  FALSE
  OBVIOUS
<1>1. "counts" \in Fault(p, q)
  BY DEF Fault
<1>2. "counts" \in Faulty
  BY <1>1 DEF Faulty
<1> QED BY <1>2 DEF Base, Recorded

(* The queues and the files in use are finitely many.                      *)
LEMMA UsedAreFew ==
  /\ IsFiniteSet(QueuesUsed) /\ Cardinality(QueuesUsed) \in Nat /\ Cardinality(QueuesUsed) + 1 < Wrap
  /\ IsFiniteSet(FilesUsed) /\ Cardinality(FilesUsed) \in Nat /\ Cardinality(FilesUsed) + 1 < Wrap
<1>1. QueuesUsed \subseteq Slot /\ FilesUsed \subseteq FileSlot
  BY DEF QueuesUsed, FilesUsed
<1>2. IsFiniteSet(QueuesUsed) /\ Cardinality(QueuesUsed) <= MaxMQs
  BY <1>1, Numbers, FS_Subset
<1>3. IsFiniteSet(FilesUsed) /\ Cardinality(FilesUsed) <= MaxFiles
  BY <1>1, Numbers, FS_Subset
<1>4. Cardinality(QueuesUsed) \in Nat /\ Cardinality(FilesUsed) \in Nat
  BY <1>2, <1>3, FS_CardinalityType
<1> QED BY <1>2, <1>3, <1>4, WrapAssumption, SizesAssumption

LEMMA UsedStay ==
  ASSUME NEW p, LeavesFiles(p)
  PROVE  QueuesUsed' = QueuesUsed /\ FilesUsed' = FilesUsed
BY DEF LeavesFiles, QueuesUsed, FilesUsed

LEMMA LeavesMQsCounted ==
  ASSUME Base, NEW p \in Proc, Alone(p), LeavesNumMQs(p), QueuesUsed' = QueuesUsed, MQsCounted,
         pc[p] # "countMQ"
  PROVE  MQsCounted'
<1>1. numMQs \in Nat
  BY WrapAssumption DEF Base, TablesTyped, Counter
<1>2. pc'[p] \in {"countMQ", "mqsStore"} => local'[p].count = numMQs
  BY DEF LeavesNumMQs
<1>3. CountIs(pc', local', numMQs, QueuesUsed, "countMQ", "mqsLoad", "mqsStore")
  BY <1>1, <1>2, CountStays DEF LeavesNumMQs, MQsCounted
<1> QED BY <1>3 DEF LeavesNumMQs, MQsCounted, CountIs

LEMMA LeavesFilesCounted ==
  ASSUME Base, NEW p \in Proc, Alone(p), LeavesNumFiles(p), FilesUsed' = FilesUsed, FilesCounted,
         pc[p] # "countFile"
  PROVE  FilesCounted'
<1>1. numFiles \in Nat
  BY WrapAssumption DEF Base, TablesTyped, Counter
<1>2. pc'[p] \in {"countFile", "filesStore"} => local'[p].count = numFiles
  BY DEF LeavesNumFiles
<1>3. CountIs(pc', local', numFiles, FilesUsed, "countFile", "filesLoad", "filesStore")
  BY <1>1, <1>2, CountStays DEF LeavesNumFiles, FilesCounted
<1> QED BY <1>3 DEF LeavesNumFiles, FilesCounted, CountIs

(* The steps that make a queue, count it, free it and uncount it.          *)
LEMMA QueuesKeepCount ==
  ASSUME Base, Files, NEW p \in Proc, newMQ(p) \/ countMQ(p) \/ destroyMQ(p) \/ uncountMQ(p),
         Alone(p), "counts" \notin faults, MQsCounted
  PROVE  MQsCounted'
<1>1. /\ mqs \in [Slot -> Queue] /\ numMQs \in Counter /\ numMQs \in Nat
      /\ local[p] \in Local /\ FileView(pc[p], local[p])
  BY Known, WrapAssumption DEF Base, TablesTyped, Counter, Files, FileViews
<1>2. pc[p] \in Indexing => local[p].index \in Slot
  BY Known DEF StackIs
<1>3. Counted("countMQ", "mqsLoad", "mqsStore")
  BY DEF Counted
<1>4. CASE newMQ(p)
  <2> DEFINE i == local[p].index
  <2>1. /\ pc[p] = "newMQ" /\ pc'[p] = "countMQ" /\ numMQs' = numMQs /\ local'[p].count = numMQs
        /\ mqs' = [mqs EXCEPT ![i] = [[FreeMQ EXCEPT !.file = local[p].file] EXCEPT ![End(local[p].flags)] = p]]
    BY <1>1, <1>4, Known DEF newMQ, At, Local
  <2>2. i \in Slot /\ i \notin QueuesUsed /\ local[p].file # NULL
    <3>1. local[p].file \in FileSlot
      BY <2>1, Known DEF StackIs
    <3> QED BY <1>1, <1>2, <2>1, <3>1, Numbers DEF Indexing, FileView, Making, QueuesUsed
  <2>3. QueuesUsed' = QueuesUsed \cup {i}
    <3>1. \A j \in Slot \ {i} : mqs'[j] = mqs[j]
      BY <1>1, <2>1
    <3>2. mqs'[i].file = local[p].file
      BY <1>1, <2>1, <2>2 DEF FreeMQ, End
    <3> QED BY <2>2, <3>1, <3>2 DEF QueuesUsed
  <2> HIDE DEF i
  <2>4. CountIs(pc', local', numMQs, QueuesUsed \cup {i}, "countMQ", "mqsLoad", "mqsStore")
    BY <1>1, <1>3, <2>1, <2>2, UsedAreFew, CountBegins DEF MQsCounted, OpenPoints
  <2> QED BY <2>1, <2>3, <2>4 DEF MQsCounted
<1>5. CASE countMQ(p)
  <2>1. /\ pc[p] = "countMQ" /\ pc'[p] = "addFile" /\ numMQs' = Up(local[p].count) /\ mqs' = mqs
    BY <1>5, Known DEF countMQ, At
  <2>2. QueuesUsed' = QueuesUsed
    BY <2>1 DEF QueuesUsed
  <2>3. \A q \in Proc : pc[q] # "mqsStore"
    BY <2>1, NoneLost
  <2>4. CountIs(pc', local', Up(local[p].count), QueuesUsed, "countMQ", "mqsLoad", "mqsStore")
    BY <1>1, <1>3, <2>1, <2>3, UsedAreFew, CountEnds DEF MQsCounted
  <2> QED BY <2>1, <2>2, <2>4 DEF MQsCounted
<1>6. CASE destroyMQ(p)
  <2> DEFINE i == local[p].index
  <2>1. /\ pc[p] = "free" /\ pc'[p] = "mqsLoad" /\ numMQs' = numMQs
        /\ mqs' = [mqs EXCEPT ![i].file = NULL]
    BY <1>6, Known DEF destroyMQ, At
  <2>2. i \in QueuesUsed
    BY <1>1, <1>2, <2>1 DEF Indexing, ClosePoints, FileView, Holding, QueuesUsed
  <2>3. QueuesUsed' = QueuesUsed \ {i}
    <3>1. \A j \in Slot : mqs'[j].file = IF j = i THEN NULL ELSE mqs[j].file
      BY <1>1, <2>1 DEF Queue
    <3> QED BY <3>1 DEF QueuesUsed
  <2> HIDE DEF i
  <2>4. CountIs(pc', local', numMQs, QueuesUsed \ {i}, "countMQ", "mqsLoad", "mqsStore")
    BY <1>1, <1>3, <2>1, <2>2, UsedAreFew, UncountBegins DEF MQsCounted, InCloseAt, ClosePoints
  <2> QED BY <2>1, <2>3, <2>4 DEF MQsCounted
<1>7. CASE uncountMQ(p)
  <2>1. /\ pc[p] = "mqsStore" /\ pc'[p] = "closeUnlock" /\ numMQs' = Down(local[p].count) /\ mqs' = mqs
    BY <1>7, Known DEF uncountMQ, At
  <2>2. QueuesUsed' = QueuesUsed
    BY <2>1 DEF QueuesUsed
  <2>3. \A q \in Proc : pc[q] # "countMQ"
    BY <2>1, NoneLost
  <2>4. CountIs(pc', local', Down(local[p].count), QueuesUsed, "countMQ", "mqsLoad", "mqsStore")
    BY <1>1, <1>3, <2>1, <2>3, UsedAreFew, UncountEnds DEF MQsCounted
  <2> QED BY <2>1, <2>2, <2>4 DEF MQsCounted
<1> QED BY <1>4, <1>5, <1>6, <1>7

(* And those that name a file, count it, erase it and uncount it.          *)
LEMMA FilesKeepCount ==
  ASSUME Base, Files, NEW p \in Proc,
         fillFile(p) \/ countFile(p) \/ destroyBasicFile(p) \/ uncountFile(p),
         Alone(p), "counts" \notin faults, FilesCounted
  PROVE  FilesCounted'
<1>1. /\ filesTable \in [FileSlot -> Name \cup {NoName}] /\ numFiles \in Counter /\ numFiles \in Nat
      /\ local[p] \in Local /\ StackIs(pc[p], local[p], fds[p])
  BY Known, WrapAssumption DEF Base, TablesTyped, Counter
<1>2. Counted("countFile", "filesLoad", "filesStore")
  BY DEF Counted
<1>3. CASE fillFile(p)
  <2> DEFINE f == local[p].file
  <2>1. pc[p] = "search" /\ f < MaxFiles
    BY <1>3 DEF fillFile, At
  <2>2. CASE filesTable[f] = NoName
    <3>1. /\ pc'[p] = "countFile" /\ numFiles' = numFiles /\ local'[p].count = numFiles
          /\ filesTable' = [filesTable EXCEPT ![f] = local[p].name]
      BY <1>1, <1>3, <2>2, Known DEF fillFile, Local
    <3>2. f \in FileSlot /\ f \notin FilesUsed /\ local[p].name # NoName
      BY <1>1, <2>1, <2>2, NameAssumption, SizesAssumption DEF StackIs, OpenPoints, FileSlot, FilesUsed
    <3>3. FilesUsed' = FilesUsed \cup {f}
      <4>1. \A g \in FileSlot : filesTable'[g] = IF g = f THEN local[p].name ELSE filesTable[g]
        BY <1>1, <3>1, <3>2
      <4> QED BY <3>2, <4>1 DEF FilesUsed
    <3> HIDE DEF f
    <3>4. CountIs(pc', local', numFiles, FilesUsed \cup {f}, "countFile", "filesLoad", "filesStore")
      BY <1>1, <1>2, <2>1, <3>1, <3>2, UsedAreFew, CountBegins DEF FilesCounted, OpenPoints
    <3> QED BY <3>1, <3>3, <3>4 DEF FilesCounted
  <2>3. CASE filesTable[f] # NoName
    <3>1. pc' = pc /\ filesTable' = filesTable /\ numFiles' = numFiles
      BY <1>3, <2>3 DEF fillFile
    <3>2. LeavesNumFiles(p)
      BY <2>1, <3>1 DEF LeavesNumFiles
    <3> QED BY <2>1, <3>1, <3>2, LeavesFilesCounted DEF FilesUsed
  <2> QED BY <2>2, <2>3
<1>4. CASE countFile(p)
  <2>1. /\ pc[p] = "countFile" /\ pc'[p] = "newMQ" /\ numFiles' = Up(local[p].count)
        /\ filesTable' = filesTable
    BY <1>4, Known DEF countFile, At
  <2>2. FilesUsed' = FilesUsed
    BY <2>1 DEF FilesUsed
  <2>3. \A q \in Proc : pc[q] # "filesStore"
    BY <2>1, NoneLost
  <2>4. CountIs(pc', local', Up(local[p].count), FilesUsed, "countFile", "filesLoad", "filesStore")
    BY <1>1, <1>2, <2>1, <2>3, UsedAreFew, CountEnds DEF FilesCounted
  <2> QED BY <2>1, <2>2, <2>4 DEF FilesCounted
<1>5. CASE destroyBasicFile(p)
  <2> DEFINE f == mqs[local[p].index].file
  <2>1. pc[p] = "destroy" /\ numFiles' = numFiles
    BY <1>5 DEF destroyBasicFile, At
  <2>2. f \in FileSlot /\ f \in FilesUsed
    <3>1. local[p].index \in Slot /\ mqs[local[p].index] \in Queue
      BY <1>1, <2>1 DEF StackIs, Indexing, ClosePoints, Base, TablesTyped
    <3>2. f # NULL
      BY <2>1 DEF Files, FileViews, FileView, Holding
    <3>3. f \in FileSlot
      BY <3>1, <3>2 DEF Queue
    <3>4. ~Erased(local[p].index)
      BY <2>1, OnlyOneAt DEF Erased, Erasing, InCloseAt, ClosePoints
    <3> QED BY <3>1, <3>2, <3>3, <3>4 DEF Files, FilesApart, FilesUsed
  <2>3. indexOfFile(f) \in {NULL, f} /\ f # NULL
    BY <2>2, indexOfFileFinds, Numbers DEF FilesUsed
  <2>4. CASE indexOfFile(f) = NULL
    <3>1. pc'[p] = "free" /\ filesTable' = filesTable
      BY <1>5, <2>4, Known DEF destroyBasicFile
    <3>2. LeavesNumFiles(p)
      BY <2>1, <3>1 DEF LeavesNumFiles
    <3> QED BY <2>1, <3>1, <3>2, LeavesFilesCounted DEF FilesUsed
  <2>5. CASE indexOfFile(f) = f
    <3>1. pc'[p] = "filesLoad" /\ filesTable' = [filesTable EXCEPT ![f] = NoName]
      BY <1>5, <2>3, <2>5, Known DEF destroyBasicFile
    <3>2. FilesUsed' = FilesUsed \ {f}
      <4>1. \A g \in FileSlot : filesTable'[g] = IF g = f THEN NoName ELSE filesTable[g]
        BY <1>1, <2>2, <3>1
      <4> QED BY <4>1 DEF FilesUsed
    <3> HIDE DEF f
    <3>3. CountIs(pc', local', numFiles, FilesUsed \ {f}, "countFile", "filesLoad", "filesStore")
      BY <1>1, <1>2, <2>1, <2>2, <3>1, UsedAreFew, UncountBegins DEF FilesCounted, InCloseAt, ClosePoints
    <3> QED BY <2>1, <3>2, <3>3 DEF FilesCounted
  <2> QED BY <2>3, <2>4, <2>5
<1>6. CASE uncountFile(p)
  <2>1. /\ pc[p] = "filesStore" /\ pc'[p] = "free" /\ numFiles' = Down(local[p].count)
        /\ filesTable' = filesTable
    BY <1>6, Known DEF uncountFile, At
  <2>2. FilesUsed' = FilesUsed
    BY <2>1 DEF FilesUsed
  <2>3. \A q \in Proc : pc[q] # "countFile"
    BY <2>1, NoneLost
  <2>4. CountIs(pc', local', Down(local[p].count), FilesUsed, "countFile", "filesLoad", "filesStore")
    BY <1>1, <1>2, <2>1, <2>3, UsedAreFew, UncountEnds DEF FilesCounted
  <2> QED BY <2>1, <2>2, <2>4 DEF FilesCounted
<1> QED BY <1>3, <1>4, <1>5, <1>6

-----------------------------------------------------------------------------
LEMMA CallsKeepCounts ==
  ASSUME Base, Files, Counts, NEW p \in Proc, Call(p), ~OpenLockBusy(p), ~CloseLockBusy(p),
         faults \subseteq faults'
  PROVE  Counts'
<1> SUFFICES ASSUME "counts" \notin faults' PROVE MQsCounted' /\ FilesCounted'
  BY DEF Counts, MQsCounted, FilesCounted
<1>1. "counts" \notin faults /\ MQsCounted /\ FilesCounted
  BY DEF Counts, MQsCounted, FilesCounted
<1>2. Alone(p)
  BY OpenAlone, CloseAlone DEF Call, Open, Close
<1>3. MQsCounted'
  <2>1. CASE newMQ(p) \/ countMQ(p) \/ destroyMQ(p) \/ uncountMQ(p)
    BY <1>1, <1>2, <2>1, QueuesKeepCount
  <2>2. CASE ~(newMQ(p) \/ countMQ(p) \/ destroyMQ(p) \/ uncountMQ(p))
    <3>1. LeavesNumMQs(p)
      BY <2>2, OpenLeavesNumMQs, CloseLeavesNumMQs DEF Call, Open, Close
    <3>2. QueuesUsed' = QueuesUsed
      <4>1. CASE fillFile(p) \/ destroyBasicFile(p)
        BY <4>1 DEF fillFile, destroyBasicFile, QueuesUsed
      <4>2. CASE ~(fillFile(p) \/ destroyBasicFile(p))
        BY <2>2, <4>2, UsedStay, OpenLeavesFiles, CloseLeavesFiles, FieldStepsLeaveFiles,
           SearchesLeaveFiles DEF Call, Open, Close
      <4> QED BY <4>1, <4>2
    <3>3. pc[p] # "countMQ"
      BY <2>2 DEF Call, Open, Close, OpenLock, indexOfMQ, findFreeSlot, createBasicFile, fillFile,
         countFile, markAccess, markAccessStore, addFile, Link, OpenUnlock, CloseLock, Unmark,
         Unlink, UnlinkStore, Last, destroyBasicFile, LoadFiles, uncountFile, LoadMQs,
         CloseUnlock, removeFile, At
    <3> QED BY <1>1, <1>2, <3>1, <3>2, <3>3, LeavesMQsCounted
  <2> QED BY <2>1, <2>2
<1>4. FilesCounted'
  <2>1. CASE fillFile(p) \/ countFile(p) \/ destroyBasicFile(p) \/ uncountFile(p)
    BY <1>1, <1>2, <2>1, FilesKeepCount
  <2>2. CASE ~(fillFile(p) \/ countFile(p) \/ destroyBasicFile(p) \/ uncountFile(p))
    <3>1. LeavesNumFiles(p)
      BY <2>2, OpenLeavesNumFiles, CloseLeavesNumFiles DEF Call, Open, Close
    <3>2. FilesUsed' = FilesUsed
      <4>1. CASE newMQ(p) \/ destroyMQ(p)
        BY <4>1 DEF newMQ, destroyMQ, FilesUsed
      <4>2. CASE ~(newMQ(p) \/ destroyMQ(p))
        BY <2>2, <4>2, UsedStay, OpenLeavesFiles, CloseLeavesFiles, FieldStepsLeaveFiles,
           SearchesLeaveFiles DEF Call, Open, Close
      <4> QED BY <4>1, <4>2
    <3>3. pc[p] # "countFile"
      BY <2>2 DEF Call, Open, Close, OpenLock, indexOfMQ, findFreeSlot, createBasicFile,
         newMQ, countMQ, markAccess, markAccessStore, addFile, Link, OpenUnlock, CloseLock, Unmark,
         Unlink, UnlinkStore, Last, LoadFiles, destroyMQ, LoadMQs, uncountMQ,
         CloseUnlock, removeFile, At
    <3> QED BY <1>1, <1>2, <3>1, <3>2, <3>3, LeavesFilesCounted
  <2> QED BY <2>1, <2>2
<1> QED BY <1>3, <1>4

LEMMA UsersKeepCounts ==
  ASSUME Base, Counts, NEW p \in Proc, User(p) \/ Tick(p) \/ OpenLockBusy(p) \/ CloseLockBusy(p),
         faults \subseteq faults'
  PROVE  Counts'
<1> SUFFICES ASSUME "counts" \notin faults' PROVE MQsCounted' /\ FilesCounted'
  BY DEF Counts, MQsCounted, FilesCounted
<1>1. "counts" \notin faults /\ MQsCounted /\ FilesCounted
  BY DEF Counts, MQsCounted, FilesCounted
<1>2. CASE Tick(p) \/ OpenLockBusy(p) \/ CloseLockBusy(p) \/ Exit(p)
  <2>1. UNCHANGED <<mqs, filesTable, numMQs, numFiles, pc, local>>
    BY <1>2 DEF Tick, OpenLockBusy, CloseLockBusy, Exit, Yield, tables
  <2> QED BY <1>1, <2>1 DEF MQsCounted, FilesCounted, CountIs, QueuesUsed, FilesUsed
<1>3. ASSUME pc[p] = "user", pc'[p] \in {"openLock", "closeLock"}, Alone(p), UNCHANGED tables
      PROVE  MQsCounted' /\ FilesCounted'
  <2>1. LeavesNumMQs(p) /\ LeavesNumFiles(p) /\ QueuesUsed' = QueuesUsed /\ FilesUsed' = FilesUsed
    BY <1>3 DEF LeavesNumMQs, LeavesNumFiles, QueuesUsed, FilesUsed, tables
  <2> QED BY <1>1, <1>3, <2>1, LeavesMQsCounted, LeavesFilesCounted
<1>4. ASSUME NEW name \in Name, NEW flags \in Modes, CallOpen(p, name, flags)
      PROVE  MQsCounted' /\ FilesCounted'
  <2>1. /\ pc[p] = "user" /\ pc'[p] = "openLock" /\ Alone(p) /\ UNCHANGED tables
    BY Known, <1>4 DEF CallOpen, At, Alone, tables
  <2> QED BY <1>3, <2>1
<1>5. ASSUME NEW d \in FD, CallClose(p, d)
      PROVE  MQsCounted' /\ FilesCounted'
  <2>1. /\ pc[p] = "user" /\ pc'[p] = "closeLock" /\ Alone(p) /\ UNCHANGED tables
    BY Known, <1>5 DEF CallClose, At, Alone, tables
  <2> QED BY <1>3, <2>1
<1> QED BY <1>2, <1>4, <1>5 DEF User

LEMMA InitKeepsCounts == Init => Counts
<1> SUFFICES ASSUME Init PROVE Counts
  OBVIOUS
<1>1. QueuesUsed = {} /\ FilesUsed = {}
  BY DEF Init, QueuesUsed, FilesUsed, FreeMQ
<1>2. \A q \in Proc : pc[q] = "user"
  BY DEF Init
<1> QED BY <1>1, <1>2, FS_EmptySet DEF Counts, CountIs, One, Init

LEMMA NextKeepsCounts == Base /\ Files /\ Counts /\ [Next]_vars => Counts'
<1> SUFFICES ASSUME Base, Files, Counts, [Next]_vars PROVE Counts'
  OBVIOUS
<1>1. CASE UNCHANGED vars
  BY <1>1 DEF vars, tables, Counts, CountIs, QueuesUsed, FilesUsed
<1>2. ASSUME NEW p \in Proc, Step(p) PROVE Counts'
  BY <1>2, CallsKeepCounts, UsersKeepCounts DEF Step
<1> QED BY <1>1, <1>2 DEF Next, Ended

(* Who is at some points of a section is there alone.                      *)
LEMMA InUseIs ==
  ASSUME Base, NEW S, S \subseteq OpenPoints \ {"openLock"} \/ \A x \in S : InCloseAt(x)
  PROVE  InUse(S) = One(\E q \in Proc : pc[q] \in S)
<1> DEFINE T == {q \in Proc : pc[q] \in S}
<1>1. \A p, q \in T : p = q
  BY OnlyOne DEF InOpenAt
<1>2. CASE T = {}
  BY <1>2, FS_EmptySet DEF InUse, One
<1>3. CASE T # {}
  <2>1. PICK p \in T : T = {p}
    BY <1>1, <1>3
  <2>2. Cardinality(T) = 1
    BY <2>1, FS_Singleton
  <2>3. \E q \in Proc : pc[q] \in S
    BY <2>1
  <2> QED BY <2>2, <2>3 DEF InUse, One
<1> QED BY <1>2, <1>3

LEMMA CountsCount == Base /\ Counts => CountsAreRight
<1> SUFFICES ASSUME Base, Counts, "counts" \notin faults PROVE CountsAreRight
  BY DEF CountsAreRight
<1>1. /\ {"countMQ"} \subseteq OpenPoints \ {"openLock"} /\ {"countFile"} \subseteq OpenPoints \ {"openLock"}
      /\ \A x \in {"mqsLoad", "mqsStore"} \cup {"filesLoad", "filesStore"} : InCloseAt(x)
  BY DEF OpenPoints, InCloseAt, ClosePoints
<1>2. /\ InUse({"countMQ"}) = One(\E q \in Proc : pc[q] \in {"countMQ"})
      /\ InUse({"countFile"}) = One(\E q \in Proc : pc[q] \in {"countFile"})
  BY <1>1, InUseIs
<1>3. /\ InUse({"mqsLoad", "mqsStore"}) = One(\E q \in Proc : pc[q] \in {"mqsLoad", "mqsStore"})
      /\ InUse({"filesLoad", "filesStore"}) = One(\E q \in Proc : pc[q] \in {"filesLoad", "filesStore"})
  BY <1>1, InUseIs
<1>4. /\ (\E q \in Proc : pc[q] \in {"countMQ"}) <=> (\E q \in Proc : pc[q] = "countMQ")
      /\ (\E q \in Proc : pc[q] \in {"countFile"}) <=> (\E q \in Proc : pc[q] = "countFile")
  OBVIOUS
<1> QED BY <1>2, <1>3, <1>4 DEF Counts, CountIs, CountsAreRight, QueuesUsed, FilesUsed, One

-----------------------------------------------------------------------------
Ends == {"readPID", "writePID"}
ClosingPoints == ClosePoints \ {"closeLock", "unmark"}

(* At point x with stack l: an open that has its end but no descriptor, an *)
(* open that has not counted its link, a close that has not uncounted it,  *)
(* and one who destroys a queue.                                           *)
Pend(x, l) == x \in {"countMQ", "addFile"} \/ (l.rollback /\ x \in {"closeLock", "unmark"})
Unc(x, l)  == Pend(x, l) \/ x = "link"
Leav(x, l) == ~l.rollback /\ x \in {"unlink", "unlinkStore"}
Doom(x)    == x \in {"destroy", "filesLoad", "filesStore", "free"}

(* With descriptors f as well: end e of queue i is claimed by the name n.  *)
OpensAt(x, l, f, d) == f[d] # Closed /\ ~(x \in ClosingPoints /\ l.fd = d)
Claims(x, l, f, i, e, n) ==
  \/ Pend(x, l) /\ l.index = i /\ End(l.flags) = e /\ l.name = n
  \/ \E d \in FD : OpensAt(x, l, f, d) /\ f[d].index = i /\ End(f[d].flags) = e /\ f[d].name = n
Claim(q, i, e, n) == q \in alive /\ Claims(pc[q], local[q], fds[q], i, e, n)

Uncd(i)   == \E q \in Proc : Unc(pc[q], local[q]) /\ local[q].index = i
Leavd(i)  == \E q \in Proc : Leav(pc[q], local[q]) /\ local[q].index = i
Doomed(i) == \E q \in Proc : Doom(pc[q]) /\ local[q].index = i

NamedBy(i, n) == mqs[i].file # NULL /\ filesTable[mqs[i].file] = n

LinkView(x, l) ==
  /\ x \in {"mark", "markStore"} => ~Doomed(l.index) /\ NamedBy(l.index, l.name)
  /\ x = "markStore" => mqs[l.index][End(l.flags)] = NoPID
  /\ x = "link" => l.count = mqs[l.index].links
  /\ x = "unlinkStore" => l.count = mqs[l.index].links /\ l.count > 0 /\ ~l.rollback
  /\ x \in ClosingPoints \ {"unlink"} /\ ~l.rollback => l.ok

(* What is claimed is there, has the name, and is the claimer's; who has   *)
(* an end claims it; links counts the ends; and what the stacks say.       *)
ClaimsHold == \A q \in Proc : \A i \in Slot, e \in Ends, n \in Name :
                Claim(q, i, e, n) => ~Doomed(i) /\ NamedBy(i, n) /\ mqs[i][e] = q
OwnersClaim == \A q \in alive : \A i \in Slot, e \in Ends :
                 mqs[i].file # NULL /\ mqs[i][e] = q => \E n \in Name : Claim(q, i, e, n)
EndsIn(i) == One(mqs[i].readPID # NoPID) + One(mqs[i].writePID # NoPID)
LinksAdd == \A i \in Slot : mqs[i].file # NULL =>
              mqs[i].links + One(Uncd(i)) = EndsIn(i) + One(Leavd(i))
LinkViews == \A q \in Proc : LinkView(pc[q], local[q])
Links == LinksKept => ClaimsHold /\ OwnersClaim /\ LinksAdd /\ LinkViews

(* What is claimed has its type.                                           *)
LEMMA ClaimsTyped ==
  ASSUME Base, NEW q \in Proc, NEW i, NEW e, NEW n, Claims(pc[q], local[q], fds[q], i, e, n)
  PROVE  i \in Slot /\ e \in Ends /\ n \in Name
<1>1. StackIs(pc[q], local[q], fds[q]) /\ DescriptorsAre(fds[q]) /\ End(local[q].flags) \in Ends
      /\ \A d \in FD : End(fds[q][d].flags) \in Ends
  BY Known DEF End, Ends
<1>2. CASE Pend(pc[q], local[q]) /\ local[q].index = i /\ End(local[q].flags) = e /\ local[q].name = n
  BY <1>1, <1>2 DEF StackIs, Pend, Indexing, OpenPoints, ClosePoints
<1>3. CASE \E d \in FD : /\ OpensAt(pc[q], local[q], fds[q], d) /\ fds[q][d].index = i
                         /\ End(fds[q][d].flags) = e /\ fds[q][d].name = n
  BY <1>1, <1>3 DEF DescriptorsAre, OpensAt
<1> QED BY <1>2, <1>3 DEF Claims

(* A step of p that leaves what is claimed and counted alone.              *)
LeavesLinks(p) ==
  /\ mqs' = mqs /\ filesTable' = filesTable
  /\ \A i, e, n : Claims(pc'[p], local'[p], fds'[p], i, e, n) <=> Claims(pc[p], local[p], fds[p], i, e, n)
  /\ Unc(pc'[p], local'[p]) <=> Unc(pc[p], local[p])
  /\ Leav(pc'[p], local'[p]) <=> Leav(pc[p], local[p])
  /\ Doom(pc'[p]) <=> Doom(pc[p])
  /\ Unc(pc[p], local[p]) \/ Leav(pc[p], local[p]) \/ Doom(pc[p]) => local'[p].index = local[p].index
  /\ LinkView(pc'[p], local'[p])

(* One that names or erases a file, too, if no queue that is not being     *)
(* destroyed has it.                                                       *)
KeepsLinks(p) ==
  /\ mqs' = mqs
  /\ \A i \in Slot, n \in Name : NamedBy(i, n) /\ ~Doomed(i) => NamedBy(i, n)'
  /\ \A i, e, n : Claims(pc'[p], local'[p], fds'[p], i, e, n) <=> Claims(pc[p], local[p], fds[p], i, e, n)
  /\ Unc(pc'[p], local'[p]) <=> Unc(pc[p], local[p])
  /\ Leav(pc'[p], local'[p]) <=> Leav(pc[p], local[p])
  /\ Doom(pc'[p]) <=> Doom(pc[p])
  /\ Unc(pc[p], local[p]) \/ Leav(pc[p], local[p]) \/ Doom(pc[p]) => local'[p].index = local[p].index
  /\ LinkView(pc'[p], local'[p])

LEMMA LeavesKeeps ==
  ASSUME NEW p, LeavesLinks(p)
  PROVE  KeepsLinks(p)
BY DEF LeavesLinks, KeepsLinks, NamedBy

LEMMA LinksStill ==
  ASSUME Base, Base', Links, LinksKept, NEW p \in Proc, Alone(p), KeepsLinks(p)
  PROVE  (ClaimsHold /\ OwnersClaim /\ LinksAdd /\ LinkViews)'
<1>1. /\ \A q \in Proc \ {p} : pc'[q] = pc[q] /\ local'[q] = local[q] /\ fds'[q] = fds[q]
      /\ alive' = alive
  BY DEF Alone, Stay
<1>2. \A q \in Proc : \A i, e, n : Claim(q, i, e, n)' <=> Claim(q, i, e, n)
  <2> TAKE q \in Proc
  <2>1. CASE q = p
    BY <1>1, <2>1 DEF Claim, KeepsLinks
  <2>2. CASE q # p
    BY <1>1, <2>2 DEF Claim
  <2> QED BY <2>1, <2>2
<1>3. \A i : (Uncd(i)' <=> Uncd(i)) /\ (Leavd(i)' <=> Leavd(i)) /\ (Doomed(i)' <=> Doomed(i))
  <2>1. \A i : Uncd(i)' <=> Uncd(i)
    BY <1>1 DEF Uncd, KeepsLinks
  <2>2. \A i : Leavd(i)' <=> Leavd(i)
    BY <1>1 DEF Leavd, KeepsLinks
  <2>3. \A i : Doomed(i)' <=> Doomed(i)
    BY <1>1 DEF Doomed, KeepsLinks
  <2> QED BY <2>1, <2>2, <2>3
<1>4. mqs' = mqs /\ ClaimsHold /\ OwnersClaim /\ LinksAdd /\ LinkViews
  BY DEF KeepsLinks, Links
<1>5. ClaimsHold'
  BY <1>2, <1>3, <1>4 DEF ClaimsHold, KeepsLinks
<1>6. OwnersClaim'
  BY <1>1, <1>2, <1>4 DEF OwnersClaim, Base, StacksTyped
<1>7. LinksAdd'
  BY <1>3, <1>4 DEF LinksAdd, EndsIn, One
<1>8. LinkViews'
  <2> SUFFICES ASSUME NEW q \in Proc PROVE LinkView(pc[q], local[q])'
    BY DEF LinkViews
  <2>1. LinkView(pc'[q], local'[q])
    BY <1>1, <1>4 DEF LinkViews, KeepsLinks
  <2>2. pc'[q] \in {"mark", "markStore"} => local'[q].index \in Slot /\ local'[q].name \in Name
    BY DEF Base, StacksTyped, StackIs, Indexing, OpenPoints
  <2>3. pc'[q] \in {"mark", "markStore"} =>
          /\ ~Doomed(local'[q].index)
          /\ mqs'[local'[q].index].file # NULL /\ filesTable'[mqs'[local'[q].index].file] = local'[q].name
    BY <2>1, <2>2 DEF LinkView, KeepsLinks, NamedBy
  <2> QED BY <1>3, <1>4, <2>1, <2>3 DEF LinkView, NamedBy
<1> QED BY <1>5, <1>6, <1>7, <1>8

-----------------------------------------------------------------------------
(* Two stacks that claim the same.                                         *)
LEMMA ClaimsSame ==
  ASSUME NEW x, NEW y, NEW l, NEW m, NEW f, NEW g,
         Pend(x, l) <=> Pend(y, m),
         Pend(x, l) => m.index = l.index /\ m.flags = l.flags /\ m.name = l.name,
         \A d \in FD : OpensAt(y, m, g, d) <=> OpensAt(x, l, f, d),
         \A d \in FD : OpensAt(x, l, f, d) => g[d] = f[d]
  PROVE  \A i, e, n : Claims(y, m, g, i, e, n) <=> Claims(x, l, f, i, e, n)
BY DEF Claims

(* A stack at a point at which the calls of MQopen and MQclose claim       *)
(* nothing but what the descriptors say.                                   *)
Plain(x, l) == ~Pend(x, l) /\ (x \in ClosingPoints => l.fd \notin FD)

LEMMA PlainClaims ==
  ASSUME NEW x, NEW y, NEW l, NEW m, NEW f, Plain(x, l), Plain(y, m)
  PROVE  \A i, e, n : Claims(y, m, f, i, e, n) <=> Claims(x, l, f, i, e, n)
<1>1. \A d \in FD : OpensAt(y, m, f, d) <=> OpensAt(x, l, f, d)
  BY DEF OpensAt, Plain
<1> QED BY <1>1, ClaimsSame DEF Plain

LEMMA ClosingClaims ==
  ASSUME NEW x, NEW y, NEW l, NEW m, NEW f, ~Pend(x, l), ~Pend(y, m),
         x \in ClosingPoints, y \in ClosingPoints, m.fd = l.fd
  PROVE  \A i, e, n : Claims(y, m, f, i, e, n) <=> Claims(x, l, f, i, e, n)
<1>1. \A d \in FD : OpensAt(y, m, f, d) <=> OpensAt(x, l, f, d)
  BY DEF OpensAt
<1> QED BY <1>1, ClaimsSame

(* What an intact history says of the points two processes are at.         *)
NoFaults == \A p, q \in Proc :
  /\ ~(local[p].index = local[q].index /\ pc[p] = "link" /\ pc[q] = "unlinkStore")
  /\ ~(local[p].index = local[q].index /\ p # q /\ Joining(p) /\ Destroying(q))
  /\ ~(local[p].rollback /\ pc[p] = "unlinkStore")

LEMMA NoneFaulty == Recorded /\ LinksKept => NoFaults
<1> SUFFICES ASSUME Recorded, LinksKept, NEW p \in Proc, NEW q \in Proc
    PROVE  /\ ~(local[p].index = local[q].index /\ pc[p] = "link" /\ pc[q] = "unlinkStore")
           /\ ~(local[p].index = local[q].index /\ p # q /\ Joining(p) /\ Destroying(q))
           /\ ~(local[p].rollback /\ pc[p] = "unlinkStore")
  BY DEF NoFaults
<1>1. Fault(p, q) \subseteq faults
  BY DEF Faulty, Recorded
<1>2. Fault(p, q) \cap {"links", "joined", "undone"} = {}
  BY <1>1 DEF LinksKept
<1> QED BY <1>2 DEF Fault

LEMMA NoneFaultyThen == Base' /\ LinksKept' => NoFaults'
<1>1. (Recorded /\ LinksKept => NoFaults)'
  BY NoneFaulty, PTL
<1> QED BY <1>1 DEF Base

(* The queue one process is joining is destroyed by no other.              *)
LEMMA JoinedIsKept ==
  ASSUME Base', LinksKept', NEW p \in Proc, Alone(p), Joining(p)', ~Doom(pc[p])
  PROVE  ~Doomed(local'[p].index)
<1> SUFFICES ASSUME NEW q \in Proc, Doom(pc[q]), local[q].index = local'[p].index
    PROVE  FALSE
  BY DEF Doomed
<1>1. q # p /\ pc'[q] = pc[q] /\ local'[q] = local[q]
  BY DEF Alone
<1>2. Destroying(q)'
  BY <1>1 DEF Doom, Destroying
<1> QED BY <1>1, <1>2, NoneFaultyThen DEF NoFaults

(* The steps before an open has its end, and the first of a close.         *)
LEMMA PlainLeavesLinks ==
  ASSUME Base, NEW p \in Proc, mqs' = mqs, filesTable' = filesTable, fds'[p] = fds[p],
         Plain(pc[p], local[p]), ~Unc(pc[p], local[p]), ~Leav(pc[p], local[p]), ~Doom(pc[p]),
         Plain(pc'[p], local'[p]), ~Unc(pc'[p], local'[p]), ~Leav(pc'[p], local'[p]), ~Doom(pc'[p]),
         LinkView(pc'[p], local'[p])
  PROVE  LeavesLinks(p)
<1>1. \A i, e, n : Claims(pc'[p], local'[p], fds'[p], i, e, n) <=> Claims(pc[p], local[p], fds[p], i, e, n)
  BY PlainClaims
<1> QED BY <1>1 DEF LeavesLinks

LEMMA SearchesLeaveLinks ==
  ASSUME Base, Base', Links, LinksKept, LinksKept', NEW p \in Proc, Alone(p),
         \/ OpenLock(p) \/ indexOfMQ(p) \/ findFreeSlot(p) \/ createBasicFile(p)
         \/ (fillFile(p) /\ filesTable' = filesTable) \/ countFile(p) \/ markAccess(p) \/ OpenUnlock(p)
  PROVE  LeavesLinks(p)
<1>1. /\ pc \in [Proc -> Point] /\ local \in [Proc -> Local] /\ local[p] \in Local
      /\ StackIs(pc[p], local[p], fds[p]) /\ LinkView(pc[p], local[p])
  BY Known DEF Links, LinkViews
<1>2. CASE OpenLock(p)
  <2>1. /\ pc[p] = "openLock" /\ pc'[p] = "find" /\ mqs' = mqs /\ filesTable' = filesTable /\ fds' = fds
        /\ local[p].rollback = FALSE /\ local'[p].rollback = FALSE
    BY <1>1, <1>2 DEF OpenLock, At, Goto, tables, Local, StackIs, Undoing, ClosePoints
  <2> QED BY <2>1, PlainLeavesLinks DEF Plain, Pend, ClosingPoints, ClosePoints, Unc, Leav, Doom, LinkView
<1>3. CASE indexOfMQ(p)
  <2>1. /\ pc[p] = "find" /\ mqs' = mqs /\ filesTable' = filesTable /\ fds' = fds
        /\ pc'[p] \in {"find", "slot", "mark"}
        /\ local[p].rollback = FALSE /\ local'[p].rollback = FALSE
    BY <1>1, <1>3 DEF indexOfMQ, At, Goto, tables, Local, StackIs, Undoing, ClosePoints
  <2>2. pc'[p] = "mark" => /\ NamedBy(local[p].index, local[p].name)
                           /\ local'[p].index = local[p].index /\ local'[p].name = local[p].name
    BY <1>1, <1>3, <2>1 DEF indexOfMQ, At, Goto, Local, NamedBy
  <2>3. pc'[p] = "mark" => ~Doomed(local'[p].index)
    BY <2>1, JoinedIsKept DEF Joining, Doom
  <2> QED BY <2>1, <2>2, <2>3, PlainLeavesLinks
          DEF Plain, Pend, ClosingPoints, ClosePoints, Unc, Leav, Doom, LinkView
<1>4. CASE findFreeSlot(p) \/ createBasicFile(p) \/ (fillFile(p) /\ filesTable' = filesTable) \/ countFile(p)
  <2>1. /\ pc[p] \in {"slot", "room", "search", "countFile"} /\ mqs' = mqs /\ filesTable' = filesTable /\ fds' = fds
        /\ local[p].rollback = FALSE
    BY <1>1, <1>4 DEF findFreeSlot, createBasicFile, fillFile, countFile, At, tables, Local, StackIs, Undoing, ClosePoints
  <2>2. local'[p].rollback = FALSE
    BY <1>1, <1>4, <2>1 DEF findFreeSlot, createBasicFile, fillFile, countFile, Local
  <2>3. pc'[p] \in {"slot", "room", "search", "countFile", "newMQ", "openUnlock"}
    BY <1>1, <1>4, <2>1 DEF findFreeSlot, createBasicFile, fillFile, countFile, Goto
  <2> QED BY <1>4, <2>1, <2>2, <2>3, PlainLeavesLinks
          DEF Plain, Pend, ClosingPoints, ClosePoints, Unc, Leav, Doom, LinkView
<1>5. CASE markAccess(p)
  <2>1. /\ pc[p] = "mark" /\ mqs' = mqs /\ filesTable' = filesTable /\ fds' = fds /\ local' = local
        /\ local[p].rollback = FALSE
    BY <1>1, <1>5 DEF markAccess, At, tables, Local, StackIs, Undoing, ClosePoints
  <2>2. /\ pc'[p] \in {"openUnlock", "markStore"}
        /\ pc'[p] = "markStore" => mqs[local[p].index][End(local[p].flags)] = NoPID
    BY <1>1, <1>5 DEF markAccess, Goto
  <2> QED BY <1>1, <2>1, <2>2, PlainLeavesLinks
          DEF Plain, Pend, ClosingPoints, ClosePoints, Unc, Leav, Doom, LinkView
<1>6. CASE OpenUnlock(p)
  <2>1. /\ pc[p] = "openUnlock" /\ pc'[p] = "user" /\ local'[p] = NoLocals
        /\ mqs' = mqs /\ filesTable' = filesTable /\ fds' = fds
    BY <1>6, Known DEF OpenUnlock, At, tables
  <2> QED BY <2>1, PlainLeavesLinks
          DEF Plain, Pend, ClosingPoints, ClosePoints, Unc, Leav, Doom, LinkView, NoLocals
<1> QED BY <1>2, <1>3, <1>4, <1>5, <1>6

LEMMA CallsLeaveLinks ==
  ASSUME Base, Links, LinksKept, NEW p \in Proc,
         \/ \E name \in Name, flags \in Modes : CallOpen(p, name, flags)
         \/ \E d \in FD : CallClose(p, d)
  PROVE  LeavesLinks(p)
<1>1. /\ pc \in [Proc -> Point] /\ local \in [Proc -> Local] /\ local[p] \in Local
      /\ StackIs(pc[p], local[p], fds[p])
  BY Known
<1>2. /\ pc[p] = "user" /\ pc'[p] \in {"openLock", "closeLock"}
      /\ mqs' = mqs /\ filesTable' = filesTable /\ fds' = fds
  BY <1>1 DEF CallOpen, CallClose, At, Goto, tables
<1>3. local[p].rollback = FALSE
  BY <1>1, <1>2 DEF StackIs, Undoing, ClosePoints, Local
<1>4. local'[p].rollback = FALSE
  <2>1. CASE \E name \in Name, flags \in Modes : CallOpen(p, name, flags)
    BY <1>1, <2>1 DEF CallOpen, NoLocals
  <2>2. CASE \E d \in FD : CallClose(p, d)
    BY <1>1, <2>2 DEF CallClose, NoLocals
  <2> QED BY <2>1, <2>2
<1> QED BY <1>2, <1>3, <1>4, PlainLeavesLinks
        DEF Plain, Pend, ClosingPoints, ClosePoints, Unc, Leav, Doom, LinkView

-----------------------------------------------------------------------------
(* Whoever has not counted a link claims an end of the queue.              *)
LEMMA UncClaims ==
  ASSUME Base, NEW q \in Proc, Unc(pc[q], local[q])
  PROVE  \E e \in Ends, n \in Name : Claim(q, local[q].index, e, n)
<1>1. StackIs(pc[q], local[q], fds[q]) /\ DescriptorsAre(fds[q])
  BY Known
<1>2. q \in alive
  BY DEF Base, StacksTyped, Unc, Pend
<1>3. \E e, n : Claims(pc[q], local[q], fds[q], local[q].index, e, n)
  <2>1. CASE Pend(pc[q], local[q])
    BY <2>1 DEF Claims
  <2>2. CASE pc[q] = "link"
    <3>1. local[q].index \in Slot
      BY <1>1, <2>2 DEF StackIs, Indexing
    <3>2. PICK d \in FD : fds[q][d] = [index |-> local[q].index, flags |-> local[q].flags, name |-> local[q].name]
      BY <1>1, <2>2 DEF StackIs
    <3>3. fds[q][d] # Closed /\ fds[q][d].index = local[q].index
      BY <3>1, <3>2, Numbers DEF Closed
    <3>4. OpensAt(pc[q], local[q], fds[q], d)
      BY <2>2, <3>3 DEF OpensAt, ClosingPoints, ClosePoints
    <3> QED BY <3>3, <3>4 DEF Claims
  <2> QED BY <2>1, <2>2 DEF Unc
<1>4. PICK e, n : Claims(pc[q], local[q], fds[q], local[q].index, e, n)
  BY <1>3
<1>5. e \in Ends /\ n \in Name
  BY <1>4, ClaimsTyped
<1> QED BY <1>2, <1>4, <1>5 DEF Claim

(* A queue in use has ends; a link that is being taken off is there.       *)
LEMMA LinkThere ==
  ASSUME Base, Links, LinksKept, NEW i \in Slot, mqs[i].file # NULL
  PROVE  /\ mqs[i].links \in Nat
         /\ EndsIn(i) \in Nat
         /\ Uncd(i) => EndsIn(i) > 0
         /\ Leavd(i) => mqs[i].links > 0
<1>1. mqs[i].links \in Nat
  BY WrapAssumption DEF Base, TablesTyped, Queue, Counter
<1>2. EndsIn(i) \in Nat
  BY DEF EndsIn, One
<1>3. Uncd(i) => EndsIn(i) > 0
  <2> SUFFICES ASSUME NEW q \in Proc, Unc(pc[q], local[q]), local[q].index = i
      PROVE  EndsIn(i) > 0
    BY DEF Uncd
  <2>1. PICK e \in Ends, n \in Name : Claim(q, i, e, n)
    BY UncClaims
  <2>2. mqs[i][e] = q /\ q # NoPID
    BY <2>1, Numbers DEF Links, ClaimsHold
  <2> QED BY <2>2 DEF EndsIn, One, Ends
<1>4. mqs[i].links + One(Uncd(i)) = EndsIn(i) + One(Leavd(i))
  BY DEF Links, LinksAdd
<1> QED BY <1>1, <1>2, <1>3, <1>4 DEF One

(* The steps of a close that leave the tables alone.                       *)
LEMMA ClosingLeavesLinks ==
  ASSUME NEW p \in Proc, mqs' = mqs, filesTable' = filesTable, fds'[p] = fds[p],
         pc[p] \in ClosingPoints, pc'[p] \in ClosingPoints,
         local'[p].fd = local[p].fd, local'[p].index = local[p].index,
         local'[p].rollback = local[p].rollback,
         Leav(pc'[p], local'[p]) <=> Leav(pc[p], local[p]),
         Doom(pc'[p]) <=> Doom(pc[p]), LinkView(pc'[p], local'[p])
  PROVE  LeavesLinks(p)
<1>1. ~Unc(pc[p], local[p]) /\ ~Unc(pc'[p], local'[p])
  BY DEF Unc, Pend, ClosingPoints, ClosePoints
<1>2. ~Pend(pc[p], local[p]) /\ ~Pend(pc'[p], local'[p])
  BY <1>1 DEF Unc
<1>3. \A i, e, n : Claims(pc'[p], local'[p], fds[p], i, e, n) <=> Claims(pc[p], local[p], fds[p], i, e, n)
  BY <1>2, ClosingClaims
<1> QED BY <1>1, <1>3 DEF LeavesLinks

LEMMA UnlinkLeavesLinks ==
  ASSUME Base, Base', Files, Links, LinksKept, LinksKept', NEW p \in Proc, Unlink(p)
  PROVE  LeavesLinks(p)
<1> DEFINE i == local[p].index
<1>1. /\ pc \in [Proc -> Point] /\ local \in [Proc -> Local] /\ local[p] \in Local
      /\ StackIs(pc[p], local[p], fds[p]) /\ FileView(pc[p], local[p])
  BY Known DEF Files, FileViews
<1>2. /\ pc[p] = "unlink" /\ mqs' = mqs /\ filesTable' = filesTable /\ fds' = fds
      /\ pc'[p] = IF mqs[i].links > 0 THEN "unlinkStore" ELSE "last"
      /\ local'[p] = [local[p] EXCEPT !.ok = TRUE, !.count = mqs[i].links]
  BY <1>1 DEF Unlink, At, Goto, tables
<1>3. /\ local'[p].rollback = local[p].rollback /\ local'[p].index = i /\ local'[p].fd = local[p].fd
      /\ local'[p].ok = TRUE /\ local'[p].count = mqs[i].links
  BY <1>1, <1>2 DEF Local
<1>4. i \in Slot /\ mqs[i].file # NULL
  BY <1>1, <1>2 DEF StackIs, Indexing, ClosePoints, FileView, Holding
<1> HIDE DEF i
<1>5. CASE local[p].rollback
  <2>1. pc'[p] # "unlinkStore"
    BY <1>3, <1>5, NoneFaultyThen DEF NoFaults
  <2>2. pc'[p] = "last"
    BY <1>2, <2>1
  <2> QED BY <1>2, <1>3, <1>5, <2>2, ClosingLeavesLinks
          DEF ClosingPoints, ClosePoints, Leav, Doom, LinkView, i
<1>6. CASE ~local[p].rollback
  <2>1. Leavd(i)
    BY <1>2, <1>6 DEF Leavd, Leav, i
  <2>2. mqs[i].links > 0
    BY <1>4, <2>1, LinkThere
  <2>3. pc'[p] = "unlinkStore"
    BY <1>2, <2>2
  <2> QED BY <1>2, <1>3, <1>6, <2>2, <2>3, ClosingLeavesLinks
          DEF ClosingPoints, ClosePoints, Leav, Doom, LinkView, i
<1> QED BY <1>5, <1>6

-----------------------------------------------------------------------------
LEMMA CloseLeavesLinks ==
  ASSUME Base, Links, LinksKept, NEW p \in Proc,
         \/ (Last(p) /\ pc'[p] # "destroy") \/ LoadFiles(p) \/ uncountFile(p)
         \/ LoadMQs(p) \/ uncountMQ(p)
  PROVE  LeavesLinks(p)
<1>1. /\ pc \in [Proc -> Point] /\ local \in [Proc -> Local] /\ local[p] \in Local
      /\ LinkView(pc[p], local[p])
  BY Known DEF Links, LinkViews
<1>2. mqs' = mqs /\ filesTable' = filesTable /\ fds'[p] = fds[p]
  BY DEF Last, LoadFiles, uncountFile, LoadMQs, uncountMQ, tables
<1>3. <<pc[p], pc'[p]>> \in {<<"last", "closeUnlock">>, <<"filesLoad", "filesStore">>, <<"filesStore", "free">>,
                             <<"mqsLoad", "mqsStore">>, <<"mqsStore", "closeUnlock">>}
  BY <1>1 DEF Last, LoadFiles, uncountFile, LoadMQs, uncountMQ, At, Goto
<1>4. /\ local'[p].fd = local[p].fd /\ local'[p].index = local[p].index
      /\ local'[p].rollback = local[p].rollback /\ local'[p].ok = local[p].ok
  BY <1>1 DEF Last, LoadFiles, uncountFile, LoadMQs, uncountMQ, Local
<1>5. LinkView(pc'[p], local'[p])
  BY <1>1, <1>3, <1>4 DEF LinkView, ClosingPoints, ClosePoints
<1>6. /\ pc[p] \in ClosingPoints /\ pc'[p] \in ClosingPoints
      /\ Doom(pc'[p]) <=> Doom(pc[p])
      /\ ~Leav(pc[p], local[p]) /\ ~Leav(pc'[p], local'[p])
  BY <1>3 DEF ClosingPoints, ClosePoints, Doom, Leav
<1> QED BY <1>2, <1>4, <1>5, <1>6, ClosingLeavesLinks

(* Taking and giving back closeMutex, and the end of a close.              *)
LEMMA CloseEdgesLeaveLinks ==
  ASSUME Base, Links, LinksKept, NEW p \in Proc, CloseLock(p) \/ CloseUnlock(p) \/ removeFile(p)
  PROVE  LeavesLinks(p)
<1>1. /\ pc \in [Proc -> Point] /\ local \in [Proc -> Local] /\ local[p] \in Local
      /\ fds \in [Proc -> [FD -> Descriptor]]
      /\ LinkView(pc[p], local[p]) /\ StackIs(pc[p], local[p], fds[p])
  BY Known DEF Links, LinkViews
<1>2. mqs' = mqs /\ filesTable' = filesTable
  BY DEF CloseLock, CloseUnlock, removeFile, tables
<1>3. CASE CloseLock(p)
  <2>1. pc[p] = "closeLock" /\ pc'[p] = "unmark" /\ local' = local /\ fds' = fds
    BY <1>1, <1>3 DEF CloseLock, At, Goto, tables
  <2>2. Pend(pc'[p], local[p]) <=> Pend(pc[p], local[p])
    BY <2>1 DEF Pend
  <2>3. \A d \in FD : OpensAt(pc'[p], local[p], fds[p], d) <=> OpensAt(pc[p], local[p], fds[p], d)
    BY <2>1 DEF OpensAt, ClosingPoints
  <2>4. \A i, e, n : Claims(pc'[p], local[p], fds[p], i, e, n) <=> Claims(pc[p], local[p], fds[p], i, e, n)
    BY <2>2, <2>3, ClaimsSame
  <2>5. LinkView(pc'[p], local[p])
    BY <2>1 DEF LinkView, ClosingPoints
  <2> QED BY <1>2, <2>1, <2>2, <2>4, <2>5 DEF LeavesLinks, Unc, Leav, Doom
<1>4. CASE CloseUnlock(p)
  <2>1. /\ pc[p] = "closeUnlock" /\ fds' = fds /\ local' = local
        /\ pc'[p] = IF local[p].rollback THEN "openUnlock" ELSE "removeFile"
    BY <1>1, <1>4 DEF CloseUnlock, At, Goto, tables, LinkView, ClosingPoints, ClosePoints
  <2>2. local[p].rollback => local[p].fd \notin FD
    BY <1>1, Numbers DEF StackIs
  <2>3. \A d \in FD : OpensAt(pc'[p], local[p], fds[p], d) <=> OpensAt(pc[p], local[p], fds[p], d)
    BY <2>1, <2>2 DEF OpensAt, ClosingPoints, ClosePoints
  <2>4. ~Pend(pc'[p], local[p]) /\ ~Pend(pc[p], local[p])
    BY <2>1 DEF Pend
  <2>5. \A i, e, n : Claims(pc'[p], local[p], fds[p], i, e, n) <=> Claims(pc[p], local[p], fds[p], i, e, n)
    BY <2>3, <2>4, ClaimsSame
  <2>6. LinkView(pc'[p], local[p])
    BY <1>1, <2>1 DEF LinkView, ClosingPoints, ClosePoints
  <2> QED BY <1>2, <2>1, <2>4, <2>5, <2>6 DEF LeavesLinks, Unc, Leav, Doom
<1>5. CASE removeFile(p)
  <2>1. /\ pc[p] = "removeFile" /\ pc'[p] = "user" /\ local'[p] = NoLocals
        /\ fds' = [fds EXCEPT ![p][local[p].fd] = Closed]
    BY <1>5, Known DEF removeFile, At
  <2>2. \A d \in FD : fds'[p][d] = IF d = local[p].fd THEN Closed ELSE fds[p][d]
    BY <1>1, <2>1
  <2>3. \A d \in FD : OpensAt(pc'[p], local'[p], fds'[p], d) <=> OpensAt(pc[p], local[p], fds[p], d)
    BY <2>1, <2>2 DEF OpensAt, ClosingPoints, ClosePoints
  <2>4. \A d \in FD : OpensAt(pc[p], local[p], fds[p], d) => fds'[p][d] = fds[p][d]
    BY <2>1, <2>2 DEF OpensAt, ClosingPoints, ClosePoints
  <2>5. ~Pend(pc'[p], local'[p]) /\ ~Pend(pc[p], local[p])
    BY <2>1 DEF Pend
  <2>6. \A i, e, n : Claims(pc'[p], local'[p], fds'[p], i, e, n) <=> Claims(pc[p], local[p], fds[p], i, e, n)
    BY <2>3, <2>4, <2>5, ClaimsSame
  <2>7. LinkView(pc'[p], local'[p])
    BY <2>1 DEF LinkView, ClosingPoints, ClosePoints
  <2> QED BY <1>2, <2>1, <2>5, <2>6, <2>7 DEF LeavesLinks, Unc, Leav, Doom
<1> QED BY <1>3, <1>4, <1>5

(* From the end to the descriptor: the claim stays, or a close will give   *)
(* it up.                                                                  *)
LEMMA OpenLeavesLinks ==
  ASSUME Base, Links, LinksKept, NEW p \in Proc, countMQ(p) \/ addFile(p)
  PROVE  LeavesLinks(p)
<1>1. /\ pc \in [Proc -> Point] /\ local \in [Proc -> Local] /\ local[p] \in Local
      /\ fds \in [Proc -> [FD -> Descriptor]] /\ StackIs(pc[p], local[p], fds[p])
  BY Known
<1>2. mqs' = mqs /\ filesTable' = filesTable
  BY DEF countMQ, addFile
<1>3. CASE countMQ(p)
  <2>1. pc[p] = "countMQ" /\ pc'[p] = "addFile" /\ local' = local /\ fds' = fds
    BY <1>1, <1>3 DEF countMQ, At, Goto
  <2>2. \A d \in FD : OpensAt(pc'[p], local[p], fds[p], d) <=> OpensAt(pc[p], local[p], fds[p], d)
    BY <2>1 DEF OpensAt, ClosingPoints, ClosePoints
  <2>3. Pend(pc'[p], local[p]) /\ Pend(pc[p], local[p])
    BY <2>1 DEF Pend
  <2>4. \A i, e, n : Claims(pc'[p], local[p], fds[p], i, e, n) <=> Claims(pc[p], local[p], fds[p], i, e, n)
    BY <2>2, <2>3, ClaimsSame
  <2>5. LinkView(pc'[p], local[p])
    BY <2>1 DEF LinkView, ClosingPoints, ClosePoints
  <2> QED BY <1>2, <2>1, <2>3, <2>4, <2>5 DEF LeavesLinks, Unc, Leav, Doom
<1>4. CASE addFile(p)
  <2> DEFINE S == {e \in FD : e < FDsLeft[p] /\ fds[p][e] = Closed}
             d == LowestOrNull(S)
  <2>1. pc[p] = "addFile"
    BY <1>4 DEF addFile, At
  <2>2. d = NULL \/ (d \in FD /\ fds[p][d] = Closed)
    <3>1. S \in SUBSET Nat
      BY Numbers
    <3>2. S # {} => LowestOrNull(S) \in S
      BY <3>1, LowestIs
    <3>3. S = {} => LowestOrNull(S) = NULL
      BY <3>1, LowestIs
    <3> QED BY <3>2, <3>3
  <2>3. CASE d = NULL
    <3>1. pc'[p] = "closeLock" /\ local'[p] = [local[p] EXCEPT !.rollback = TRUE] /\ fds' = fds
      BY <1>1, <1>4, <2>3 DEF addFile, Goto
    <3>2. /\ local'[p].rollback = TRUE /\ local'[p].index = local[p].index
          /\ local'[p].flags = local[p].flags /\ local'[p].name = local[p].name
      BY <1>1, <3>1 DEF Local
    <3>3. \A e \in FD : OpensAt(pc'[p], local'[p], fds[p], e) <=> OpensAt(pc[p], local[p], fds[p], e)
      BY <2>1, <3>1 DEF OpensAt, ClosingPoints, ClosePoints
    <3>4. Pend(pc'[p], local'[p]) /\ Pend(pc[p], local[p])
      BY <2>1, <3>1, <3>2 DEF Pend
    <3>5. \A i, e, n : Claims(pc'[p], local'[p], fds[p], i, e, n) <=> Claims(pc[p], local[p], fds[p], i, e, n)
      BY <3>2, <3>3, <3>4, ClaimsSame
    <3>6. LinkView(pc'[p], local'[p])
      BY <3>1 DEF LinkView, ClosingPoints, ClosePoints
    <3> QED BY <1>2, <2>1, <3>1, <3>2, <3>4, <3>5, <3>6 DEF LeavesLinks, Unc, Leav, Doom
  <2>4. CASE d # NULL
    <3> DEFINE new == [index |-> local[p].index, flags |-> local[p].flags, name |-> local[p].name]
    <3>1. /\ pc'[p] = "link" /\ fds' = [fds EXCEPT ![p][d] = new]
          /\ local'[p] = [local[p] EXCEPT !.count = mqs[local[p].index].links]
      BY <1>1, <1>4, <2>4 DEF addFile, Goto
    <3>2. /\ local'[p].index = local[p].index /\ local'[p].count = mqs[local[p].index].links
      BY <1>1, <3>1 DEF Local
    <3>3. d \in FD /\ fds[p][d] = Closed
      BY <2>2, <2>4
    <3> HIDE DEF d
    <3>4. \A e \in FD : fds'[p][e] = IF e = d THEN new ELSE fds[p][e]
      BY <1>1, <3>1, <3>3
    <3>5. new # Closed
      <4>1. local[p].name \in Name
        BY <1>1, <2>1 DEF StackIs, OpenPoints
      <4>2. Closed.name = NoName /\ new.name = local[p].name
        BY DEF Closed
      <4> QED BY <4>1, <4>2, NameAssumption
    <3>6. \A e \in FD : OpensAt(pc'[p], local'[p], fds'[p], e) <=> e = d \/ OpensAt(pc[p], local[p], fds[p], e)
      BY <2>1, <3>1, <3>4, <3>5 DEF OpensAt, ClosingPoints, ClosePoints
    <3>7. Pend(pc[p], local[p]) /\ ~Pend(pc'[p], local'[p]) /\ ~OpensAt(pc[p], local[p], fds[p], d)
      BY <2>1, <3>1, <3>3 DEF Pend, OpensAt
    <3>8. fds'[p][d] = new /\ \A e \in FD : e # d => fds'[p][e] = fds[p][e]
      BY <3>3, <3>4
    <3>9. new.index = local[p].index /\ new.flags = local[p].flags /\ new.name = local[p].name
      OBVIOUS
    <3> HIDE DEF new
    <3>10. ASSUME NEW i, NEW e, NEW n
           PROVE  Claims(pc'[p], local'[p], fds'[p], i, e, n) <=> Claims(pc[p], local[p], fds[p], i, e, n)
      <4>1. Claims(pc'[p], local'[p], fds'[p], i, e, n) => Claims(pc[p], local[p], fds[p], i, e, n)
        BY <3>6, <3>7, <3>8, <3>9 DEF Claims
      <4>2. Claims(pc[p], local[p], fds[p], i, e, n) => Claims(pc'[p], local'[p], fds'[p], i, e, n)
        BY <3>3, <3>6, <3>7, <3>8, <3>9 DEF Claims
      <4> QED BY <4>1, <4>2
    <3>11. LinkView(pc'[p], local'[p])
      BY <3>1, <3>2 DEF LinkView, ClosingPoints, ClosePoints
    <3> QED BY <1>2, <2>1, <3>1, <3>2, <3>7, <3>10, <3>11 DEF LeavesLinks, Unc, Leav, Doom
  <2> QED BY <2>3, <2>4
<1> QED BY <1>3, <1>4

-----------------------------------------------------------------------------
LinksSet == ClaimsHold /\ OwnersClaim /\ LinksAdd /\ LinkViews

(* What a step of p changes of what is claimed and counted is p's part.    *)
LEMMA LinkOthers ==
  ASSUME NEW p \in Proc, Alone(p)
  PROVE  /\ alive' = alive
         /\ \A q \in Proc \ {p} : /\ pc'[q] = pc[q] /\ local'[q] = local[q]
                                  /\ \A i, e, n : Claim(q, i, e, n)' <=> Claim(q, i, e, n)
         /\ \A i, e, n : Claim(p, i, e, n)' <=> Claims(pc'[p], local'[p], fds'[p], i, e, n)
         /\ \A i, e, n : Claim(p, i, e, n) <=> Claims(pc[p], local[p], fds[p], i, e, n)
<1>1. /\ alive' = alive /\ p \in alive
      /\ \A q \in Proc \ {p} : pc'[q] = pc[q] /\ local'[q] = local[q] /\ fds'[q] = fds[q]
  BY DEF Alone, Stay
<1>2. \A q \in Proc \ {p} : \A i, e, n : Claim(q, i, e, n)' <=> Claim(q, i, e, n)
  BY <1>1 DEF Claim
<1>3. \A i, e, n : Claim(p, i, e, n)' <=> Claims(pc'[p], local'[p], fds'[p], i, e, n)
  BY <1>1 DEF Claim
<1>4. \A i, e, n : Claim(p, i, e, n) <=> Claims(pc[p], local[p], fds[p], i, e, n)
  BY <1>1 DEF Claim
<1> QED BY <1>1, <1>2, <1>3, <1>4

(* In MQopen p is the only one with a link to count, and in MQclose the    *)
(* only one with a link to take off or a queue to destroy.                 *)
LEMMA OpenerAlone ==
  ASSUME Base, NEW p \in Proc, Alone(p), InOpenAt(pc[p], local[p].rollback)
  PROVE  /\ \A q \in Proc \ {p} : pc[q] \notin OpenPoints \ {"openLock"} /\ ~Unc(pc[q], local[q])
         /\ \A i : Uncd(i) <=> Unc(pc[p], local[p]) /\ local[p].index = i
         /\ \A i : Uncd(i)' <=> Unc(pc'[p], local'[p]) /\ local'[p].index = i
<1>1. \A q \in Proc \ {p} : ~InOpenAt(pc[q], local[q].rollback) /\ pc'[q] = pc[q] /\ local'[q] = local[q]
  BY OnlyOne DEF Alone
<1>2. \A q \in Proc \ {p} : pc[q] \notin OpenPoints \ {"openLock"} /\ ~Unc(pc[q], local[q])
  BY <1>1 DEF Unc, Pend, InOpenAt, OpenPoints, ClosePoints
<1> QED BY <1>1, <1>2 DEF Uncd

LEMMA CloserAlone ==
  ASSUME Base, NEW p \in Proc, Alone(p), InCloseAt(pc[p])
  PROVE  /\ \A q \in Proc \ {p} : ~InCloseAt(pc[q]) /\ ~Leav(pc[q], local[q]) /\ ~Doom(pc[q])
         /\ \A i : Leavd(i) <=> Leav(pc[p], local[p]) /\ local[p].index = i
         /\ \A i : Leavd(i)' <=> Leav(pc'[p], local'[p]) /\ local'[p].index = i
         /\ \A i : Doomed(i) <=> Doom(pc[p]) /\ local[p].index = i
         /\ \A i : Doomed(i)' <=> Doom(pc'[p]) /\ local'[p].index = i
<1>1. \A q \in Proc \ {p} : ~InCloseAt(pc[q]) /\ pc'[q] = pc[q] /\ local'[q] = local[q]
  BY OnlyOne DEF Alone
<1>2. \A q \in Proc \ {p} : ~Leav(pc[q], local[q]) /\ ~Doom(pc[q])
  BY <1>1 DEF Leav, Doom, InCloseAt, ClosePoints
<1> QED BY <1>1, <1>2 DEF Leavd, Doomed

(* Where p is in neither part of a section before nor after, the others'   *)
(* part is all there is.                                                   *)
LEMMA OutsideClose ==
  ASSUME NEW p \in Proc, Alone(p), ~Leav(pc[p], local[p]), ~Leav(pc'[p], local'[p]),
         ~Doom(pc[p]), ~Doom(pc'[p])
  PROVE  \A i : (Leavd(i)' <=> Leavd(i)) /\ (Doomed(i)' <=> Doomed(i))
<1>1. \A q \in Proc \ {p} : pc'[q] = pc[q] /\ local'[q] = local[q]
  BY DEF Alone
<1>2. \A i : Leavd(i)' <=> Leavd(i)
  BY <1>1 DEF Leavd
<1>3. \A i : Doomed(i)' <=> Doomed(i)
  BY <1>1 DEF Doomed
<1> QED BY <1>2, <1>3

LEMMA OutsideOpen ==
  ASSUME NEW p \in Proc, Alone(p), ~Unc(pc[p], local[p]), ~Unc(pc'[p], local'[p])
  PROVE  \A i : Uncd(i)' <=> Uncd(i)
<1>1. \A q \in Proc \ {p} : pc'[q] = pc[q] /\ local'[q] = local[q]
  BY DEF Alone
<1> QED BY <1>1 DEF Uncd

(* A file is named, or erased: no queue that is claimed has it.            *)
LEMMA FilesKeepLinks ==
  ASSUME Base, Base', Files, Links, LinksKept, NEW p \in Proc, Alone(p),
         (fillFile(p) /\ filesTable[local[p].file] = NoName) \/ destroyBasicFile(p)
  PROVE  LinksSet'
<1>1. /\ pc \in [Proc -> Point] /\ local \in [Proc -> Local] /\ local[p] \in Local
      /\ StackIs(pc[p], local[p], fds[p]) /\ FileView(pc[p], local[p]) /\ LinkView(pc[p], local[p])
      /\ mqs \in [Slot -> Queue] /\ filesTable \in [FileSlot -> Name \cup {NoName}]
  BY Known DEF Base, TablesTyped, Files, FileViews, Links, LinkViews
<1>2. CASE fillFile(p) /\ filesTable[local[p].file] = NoName
  <2>1. /\ pc[p] = "search" /\ pc'[p] = "countFile" /\ mqs' = mqs /\ fds' = fds
        /\ filesTable' = [filesTable EXCEPT ![local[p].file] = local[p].name]
        /\ local[p].rollback = FALSE /\ local'[p].rollback = FALSE
    BY <1>1, <1>2 DEF fillFile, At, Goto, StackIs, Undoing, ClosePoints, Local
  <2>2. \A i \in Slot, n \in Name : NamedBy(i, n) /\ ~Doomed(i) => NamedBy(i, n)'
    <3> SUFFICES ASSUME NEW i \in Slot, NEW n \in Name, NamedBy(i, n) PROVE NamedBy(i, n)'
      OBVIOUS
    <3>1. mqs[i].file # NULL /\ mqs[i].file \in FileSlot /\ filesTable[mqs[i].file] = n /\ n # NoName
      BY <1>1, NameAssumption DEF NamedBy, Queue
    <3>2. mqs[i].file # local[p].file
      BY <1>2, <3>1
    <3>3. filesTable'[mqs[i].file] = n
      BY <1>1, <2>1, <3>1, <3>2
    <3> QED BY <2>1, <3>1, <3>3 DEF NamedBy
  <2>3. /\ Plain(pc[p], local[p]) /\ ~Unc(pc[p], local[p]) /\ ~Leav(pc[p], local[p]) /\ ~Doom(pc[p])
        /\ Plain(pc'[p], local'[p]) /\ ~Unc(pc'[p], local'[p]) /\ ~Leav(pc'[p], local'[p]) /\ ~Doom(pc'[p])
        /\ LinkView(pc'[p], local'[p])
    BY <2>1 DEF Plain, Pend, ClosingPoints, ClosePoints, Unc, Leav, Doom, LinkView
  <2>4. \A i, e, n : Claims(pc'[p], local'[p], fds[p], i, e, n) <=> Claims(pc[p], local[p], fds[p], i, e, n)
    BY <2>3, PlainClaims
  <2>5. KeepsLinks(p)
    BY <2>1, <2>2, <2>3, <2>4 DEF KeepsLinks
  <2> QED BY <2>5, LinksStill DEF LinksSet
<1>3. CASE destroyBasicFile(p)
  <2> DEFINE i == local[p].index
  <2>1. pc[p] = "destroy" /\ mqs' = mqs /\ fds' = fds /\ local' = local /\ pc'[p] \in {"filesLoad", "free"}
    BY <1>1, <1>3 DEF destroyBasicFile, At, Goto
  <2>2. i \in Slot /\ mqs[i].file # NULL /\ mqs[i].file \in FileSlot
    BY <1>1, <2>1 DEF StackIs, Indexing, ClosePoints, FileView, Holding, Queue
  <2>3. \A j : ~Erased(j)
    BY <2>1, OnlyOneAt DEF Erased, Erasing, InCloseAt, ClosePoints
  <2>4. filesTable[mqs[i].file] # NoName
    BY <2>2, <2>3 DEF Files, FilesApart
  <2>5. indexOfFile(mqs[i].file) \in {NULL, mqs[i].file}
    BY <2>2, <2>4, indexOfFileFinds
  <2>6. \A g \in FileSlot : g # mqs[i].file => filesTable'[g] = filesTable[g]
    BY <1>1, <1>3, <2>5 DEF destroyBasicFile
  <2>7. Doomed(i)
    BY <2>1 DEF Doomed, Doom
  <2>8. \A j \in Slot, n \in Name : NamedBy(j, n) /\ ~Doomed(j) => NamedBy(j, n)'
    <3> SUFFICES ASSUME NEW j \in Slot, NEW n \in Name, NamedBy(j, n), j # i PROVE NamedBy(j, n)'
      BY <2>7
    <3>1. mqs[j].file \in FileSlot /\ mqs[j].file # NULL /\ filesTable[mqs[j].file] = n
      BY <1>1 DEF NamedBy, Queue
    <3>2. mqs[j].file # mqs[i].file
      BY <2>2, <2>3, <3>1 DEF Files, FilesApart
    <3> QED BY <2>1, <2>6, <3>1, <3>2 DEF NamedBy
  <2>9. /\ pc[p] \in ClosingPoints /\ pc'[p] \in ClosingPoints /\ ~Pend(pc[p], local[p]) /\ ~Pend(pc'[p], local'[p])
        /\ ~Unc(pc[p], local[p]) /\ ~Unc(pc'[p], local'[p])
        /\ ~Leav(pc[p], local[p]) /\ ~Leav(pc'[p], local'[p]) /\ Doom(pc[p]) /\ Doom(pc'[p])
    BY <2>1 DEF ClosingPoints, ClosePoints, Pend, Unc, Leav, Doom
  <2>10. \A k, e, n : Claims(pc'[p], local'[p], fds[p], k, e, n) <=> Claims(pc[p], local[p], fds[p], k, e, n)
    BY <2>1, <2>9, ClosingClaims
  <2>11. LinkView(pc'[p], local'[p])
    BY <1>1, <2>1 DEF LinkView, ClosingPoints, ClosePoints
  <2>12. KeepsLinks(p)
    BY <2>1, <2>8, <2>9, <2>10, <2>11 DEF KeepsLinks
  <2> QED BY <2>12, LinksStill DEF LinksSet
<1> QED BY <1>2, <1>3

-----------------------------------------------------------------------------
(* An open that gets its end: a claim begins.                              *)
LEMMA ClaimBegins ==
  ASSUME NEW x, NEW y, NEW l, NEW m, NEW f, Plain(x, l), Pend(y, m), y \notin ClosingPoints
  PROVE  \A i, e, n : Claims(y, m, f, i, e, n) <=>
           Claims(x, l, f, i, e, n) \/ (m.index = i /\ End(m.flags) = e /\ m.name = n)
<1>1. \A d \in FD : OpensAt(y, m, f, d) <=> OpensAt(x, l, f, d)
  BY DEF OpensAt, Plain
<1> QED BY <1>1 DEF Claims, Plain

LEMMA newMQKeepsLinks ==
  ASSUME Base, Base', Files, Links, LinksKept, NEW p \in Proc, Alone(p), newMQ(p)
  PROVE  LinksSet'
<1> DEFINE i == local[p].index
           e == End(local[p].flags)
           n == local[p].name
           new == [[FreeMQ EXCEPT !.file = local[p].file] EXCEPT ![e] = p]
<1>1. /\ pc \in [Proc -> Point] /\ local \in [Proc -> Local] /\ local[p] \in Local
      /\ StackIs(pc[p], local[p], fds[p]) /\ FileView(pc[p], local[p])
      /\ mqs \in [Slot -> Queue] /\ ClaimsHold /\ OwnersClaim /\ LinksAdd /\ LinkViews
  BY Known DEF Base, TablesTyped, Files, FileViews, Links
<1>2. /\ pc[p] = "newMQ" /\ pc'[p] = "countMQ" /\ mqs' = [mqs EXCEPT ![i] = new] /\ fds' = fds
      /\ filesTable' = filesTable
      /\ local[p].rollback = FALSE /\ local'[p].rollback = FALSE
      /\ local'[p].index = i /\ local'[p].flags = local[p].flags /\ local'[p].name = n
  <2>1. /\ pc[p] = "newMQ" /\ pc'[p] = "countMQ" /\ mqs' = [mqs EXCEPT ![i] = new] /\ fds' = fds
        /\ filesTable' = filesTable
    BY Known DEF newMQ, At
  <2>2. local[p].rollback = FALSE
    BY <1>1, <2>1 DEF StackIs, Undoing, ClosePoints, Local
  <2>3. local'[p] = [local[p] EXCEPT !.count = numMQs, !.file = NULL]
    BY <1>1 DEF newMQ
  <2>4. /\ local'[p].rollback = local[p].rollback /\ local'[p].index = local[p].index
        /\ local'[p].flags = local[p].flags /\ local'[p].name = local[p].name
    BY <1>1, <2>3 DEF Local
  <2> QED BY <2>1, <2>2, <2>4
<1>3. /\ i \in Slot /\ e \in Ends /\ n \in Name /\ local[p].file # NULL
      /\ mqs[i].file = NULL /\ filesTable[local[p].file] = n
  <2>1. local[p].file \in FileSlot
    BY <1>1, <1>2 DEF StackIs
  <2> QED BY <1>1, <1>2, <2>1, Numbers DEF StackIs, Indexing, OpenPoints, End, Ends, FileView, Making, Filling
<1>4. /\ new.file = local[p].file /\ new.links = 0 /\ new[e] = p
      /\ \A k \in Ends : k # e => new[k] = NoPID
  BY DEF FreeMQ, End, Ends
<1>5. mqs'[i] = new /\ \A j \in Slot : j # i => mqs'[j] = mqs[j]
  BY <1>1, <1>2, <1>3
<1>6. /\ Plain(pc[p], local[p]) /\ ~Unc(pc[p], local[p]) /\ ~Leav(pc[p], local[p]) /\ ~Doom(pc[p])
      /\ Pend(pc'[p], local'[p]) /\ Unc(pc'[p], local'[p]) /\ ~Leav(pc'[p], local'[p]) /\ ~Doom(pc'[p])
      /\ pc'[p] \notin ClosingPoints /\ InOpenAt(pc[p], local[p].rollback)
  BY <1>2 DEF Plain, Pend, ClosingPoints, ClosePoints, Unc, Leav, Doom, InOpenAt, OpenPoints
<1> HIDE DEF new, i, e, n
<1>7. \A q \in Proc : \A j, k, o : Claim(q, j, k, o)' <=>
        Claim(q, j, k, o) \/ (q = p /\ j = i /\ k = e /\ o = n)
  <2>1. \A j, k, o : Claims(pc'[p], local'[p], fds[p], j, k, o) <=>
          Claims(pc[p], local[p], fds[p], j, k, o)
            \/ (local'[p].index = j /\ End(local'[p].flags) = k /\ local'[p].name = o)
    BY <1>6, ClaimBegins
  <2>2. \A j, k, o : (local'[p].index = j /\ End(local'[p].flags) = k /\ local'[p].name = o)
                       <=> (j = i /\ k = e /\ o = n)
    BY <1>2 DEF e
  <2> QED BY <1>2, <2>1, <2>2, LinkOthers
<1>8. \A j : (Leavd(j)' <=> Leavd(j)) /\ (Doomed(j)' <=> Doomed(j))
  BY <1>6, OutsideClose
<1>9. \A j : (Uncd(j)' <=> j = i) /\ ~Uncd(j)
  BY <1>2, <1>6, OpenerAlone
<1>10. ~Doomed(i) /\ ~Leavd(i)
  <2>1. \A q \in Proc : Doom(pc[q]) \/ Leav(pc[q], local[q]) => mqs[local[q].index].file # NULL
    BY DEF Files, FileViews, FileView, Holding, Doom, Leav
  <2> QED BY <1>3, <2>1 DEF Doomed, Leavd
<1>11. ClaimsHold'
  <2> SUFFICES ASSUME NEW q \in Proc, NEW j \in Slot, NEW k \in Ends, NEW o \in Name, Claim(q, j, k, o)'
      PROVE  ~Doomed(j) /\ mqs'[j].file # NULL /\ filesTable[mqs'[j].file] = o /\ mqs'[j][k] = q
    BY <1>2, <1>8 DEF ClaimsHold, NamedBy
  <2>1. CASE Claim(q, j, k, o)
    <3>1. ~Doomed(j) /\ mqs[j].file # NULL /\ filesTable[mqs[j].file] = o /\ mqs[j][k] = q
      BY <1>1, <2>1 DEF ClaimsHold, NamedBy
    <3> QED BY <1>3, <1>5, <3>1
  <2>2. CASE q = p /\ j = i /\ k = e /\ o = n
    BY <1>3, <1>4, <1>5, <1>10, <2>2
  <2> QED BY <1>7, <2>1, <2>2
<1>12. OwnersClaim'
  <2> SUFFICES ASSUME NEW q \in alive, NEW j \in Slot, NEW k \in Ends, mqs'[j].file # NULL, mqs'[j][k] = q
      PROVE  \E o \in Name : Claim(q, j, k, o)'
    BY LinkOthers DEF OwnersClaim
  <2>1. q \in Proc /\ q # NoPID
    BY Numbers DEF Base, StacksTyped
  <2>2. CASE j = i
    BY <1>3, <1>4, <1>5, <1>7, <2>1, <2>2
  <2>3. CASE j # i
    <3>1. PICK o \in Name : Claim(q, j, k, o)
      BY <1>1, <1>5, <2>3 DEF OwnersClaim
    <3> QED BY <1>7, <2>1, <3>1
  <2> QED BY <2>2, <2>3
<1>13. LinksAdd'
  <2> SUFFICES ASSUME NEW j \in Slot, mqs'[j].file # NULL
      PROVE  mqs'[j].links + One(Uncd(j)') = EndsIn(j)' + One(Leavd(j)')
    BY DEF LinksAdd, One
  <2>1. CASE j = i
    <3>1. EndsIn(j)' = 1
      <4>1. mqs'[j][e] = p /\ p # NoPID /\ \A k \in Ends : k # e => mqs'[j][k] = NoPID
        BY <1>4, <1>5, <2>1, Numbers
      <4>2. CASE e = "readPID"
        BY <4>1, <4>2 DEF EndsIn, One, Ends
      <4>3. CASE e = "writePID"
        BY <4>1, <4>3 DEF EndsIn, One, Ends
      <4> QED BY <1>3, <4>2, <4>3 DEF Ends
    <3> QED BY <1>4, <1>5, <1>8, <1>9, <1>10, <2>1, <3>1 DEF One
  <2>2. CASE j # i
    <3>1. mqs[j].links + One(Uncd(j)) = EndsIn(j) + One(Leavd(j))
      BY <1>1, <1>5, <2>2 DEF LinksAdd
    <3>2. EndsIn(j)' = EndsIn(j)
      BY <1>5, <2>2 DEF EndsIn
    <3> QED BY <1>5, <1>8, <1>9, <2>2, <3>1, <3>2 DEF One
  <2> QED BY <2>1, <2>2
<1>14. LinkViews'
  <2> SUFFICES ASSUME NEW q \in Proc PROVE LinkView(pc[q], local[q])'
    BY DEF LinkViews
  <2>1. CASE q = p
    BY <1>2, <2>1 DEF LinkView, ClosingPoints, ClosePoints
  <2>2. CASE q # p
    <3>1. pc'[q] = pc[q] /\ local'[q] = local[q] /\ LinkView(pc[q], local[q])
      BY <1>1, <2>2, LinkOthers DEF LinkViews
    <3>2. pc[q] \notin {"mark", "markStore", "link"}
      BY <1>6, <2>2, OpenerAlone DEF OpenPoints
    <3>3. pc[q] = "unlinkStore" => mqs'[local[q].index] = mqs[local[q].index]
      <4>1. pc[q] = "unlinkStore" => local[q].index \in Slot
        BY Known DEF StackIs, Indexing, ClosePoints
      <4>2. pc[q] = "unlinkStore" => mqs[local[q].index].file # NULL
        BY DEF Files, FileViews, FileView, Holding
      <4> QED BY <1>3, <1>5, <4>1, <4>2
    <3> QED BY <3>1, <3>2, <3>3 DEF LinkView
  <2> QED BY <2>1, <2>2
<1> QED BY <1>11, <1>12, <1>13, <1>14 DEF LinksSet

-----------------------------------------------------------------------------
(* One end, or the links, of one queue change.                             *)
LEMMA ReadSet ==
  ASSUME Base, NEW i \in Slot, NEW v \in Proc \cup {NoPID}, mqs' = [mqs EXCEPT ![i].readPID = v]
  PROVE  /\ \A j \in Slot : mqs'[j].file = mqs[j].file /\ mqs'[j].links = mqs[j].links
         /\ \A j \in Slot, k \in Ends : mqs'[j][k] = IF j = i /\ k = "readPID" THEN v ELSE mqs[j][k]
<1>1. mqs \in [Slot -> Queue]
  BY DEF Base, TablesTyped
<1> QED BY <1>1 DEF Queue, Ends

LEMMA WriteSet ==
  ASSUME Base, NEW i \in Slot, NEW v \in Proc \cup {NoPID}, mqs' = [mqs EXCEPT ![i].writePID = v]
  PROVE  /\ \A j \in Slot : mqs'[j].file = mqs[j].file /\ mqs'[j].links = mqs[j].links
         /\ \A j \in Slot, k \in Ends : mqs'[j][k] = IF j = i /\ k = "writePID" THEN v ELSE mqs[j][k]
<1>1. mqs \in [Slot -> Queue]
  BY DEF Base, TablesTyped
<1> QED BY <1>1 DEF Queue, Ends

LEMMA LinksSetTo ==
  ASSUME Base, NEW i \in Slot, NEW v, mqs' = [mqs EXCEPT ![i].links = v]
  PROVE  /\ \A j \in Slot : mqs'[j].file = mqs[j].file
         /\ \A j \in Slot : mqs'[j].links = IF j = i THEN v ELSE mqs[j].links
         /\ \A j \in Slot, k \in Ends : mqs'[j][k] = mqs[j][k]
<1>1. mqs \in [Slot -> Queue]
  BY DEF Base, TablesTyped
<1> QED BY <1>1 DEF Queue, Ends

LEMMA markAccessStoreKeepsLinks ==
  ASSUME Base, Base', Links, LinksKept, NEW p \in Proc, Alone(p), markAccessStore(p)
  PROVE  LinksSet'
<1> DEFINE i == local[p].index
           e == End(local[p].flags)
           n == local[p].name
<1>1. /\ StackIs(pc[p], local[p], fds[p]) /\ LinkView(pc[p], local[p]) /\ local[p] \in Local
      /\ ClaimsHold /\ OwnersClaim /\ LinksAdd /\ LinkViews
  BY Known DEF Links, LinkViews
<1>2. /\ pc[p] = "markStore" /\ pc'[p] = "addFile" /\ local' = local /\ fds' = fds
      /\ filesTable' = filesTable /\ mqs' = [mqs EXCEPT ![i][e] = p]
  BY Known DEF markAccessStore, At
<1>3. /\ i \in Slot /\ e \in Ends /\ n \in Name /\ ~Doomed(i) /\ NamedBy(i, n) /\ mqs[i][e] = NoPID
      /\ local[p].rollback = FALSE
  BY <1>1, <1>2 DEF StackIs, Indexing, OpenPoints, End, Ends, LinkView, Undoing, ClosePoints, Local
<1> HIDE DEF i, e, n
<1>4. /\ \A j \in Slot : mqs'[j].file = mqs[j].file /\ mqs'[j].links = mqs[j].links
      /\ \A j \in Slot, k \in Ends : mqs'[j][k] = IF j = i /\ k = e THEN p ELSE mqs[j][k]
  <2>1. CASE e = "readPID"
    <3>1. mqs' = [mqs EXCEPT ![i].readPID = p]
      BY <1>2, <2>1
    <3>2. /\ \A j \in Slot : mqs'[j].file = mqs[j].file /\ mqs'[j].links = mqs[j].links
          /\ \A j \in Slot, k \in Ends : mqs'[j][k] = IF j = i /\ k = "readPID" THEN p ELSE mqs[j][k]
      <4>1. i \in Slot /\ p \in Proc \cup {NoPID}
        BY <1>3
      <4> QED BY <3>1, <4>1, ReadSet
    <3> QED BY <2>1, <3>2
  <2>2. CASE e = "writePID"
    <3>1. mqs' = [mqs EXCEPT ![i].writePID = p]
      BY <1>2, <2>2
    <3>2. /\ \A j \in Slot : mqs'[j].file = mqs[j].file /\ mqs'[j].links = mqs[j].links
          /\ \A j \in Slot, k \in Ends : mqs'[j][k] = IF j = i /\ k = "writePID" THEN p ELSE mqs[j][k]
      <4>1. i \in Slot /\ p \in Proc \cup {NoPID}
        BY <1>3
      <4> QED BY <3>1, <4>1, WriteSet
    <3> QED BY <2>2, <3>2
  <2> QED BY <1>3, <2>1, <2>2 DEF Ends
<1>5. /\ Plain(pc[p], local[p]) /\ ~Unc(pc[p], local[p]) /\ ~Leav(pc[p], local[p]) /\ ~Doom(pc[p])
      /\ Pend(pc'[p], local'[p]) /\ Unc(pc'[p], local'[p]) /\ ~Leav(pc'[p], local'[p]) /\ ~Doom(pc'[p])
      /\ pc'[p] \notin ClosingPoints /\ InOpenAt(pc[p], local[p].rollback)
  BY <1>2, <1>3 DEF Plain, Pend, ClosingPoints, ClosePoints, Unc, Leav, Doom, InOpenAt, OpenPoints
<1>6. \A q \in Proc : \A j, k, o : Claim(q, j, k, o)' <=>
        Claim(q, j, k, o) \/ (q = p /\ j = i /\ k = e /\ o = n)
  <2>1. \A j, k, o : Claims(pc'[p], local'[p], fds[p], j, k, o) <=>
          Claims(pc[p], local[p], fds[p], j, k, o)
            \/ (local'[p].index = j /\ End(local'[p].flags) = k /\ local'[p].name = o)
    BY <1>5, ClaimBegins
  <2>2. \A j, k, o : (local'[p].index = j /\ End(local'[p].flags) = k /\ local'[p].name = o)
                       <=> (j = i /\ k = e /\ o = n)
    BY <1>2 DEF i, e, n
  <2> QED BY <1>2, <2>1, <2>2, LinkOthers
<1>7. \A j : (Leavd(j)' <=> Leavd(j)) /\ (Doomed(j)' <=> Doomed(j))
  BY <1>5, OutsideClose
<1>8. \A j : (Uncd(j)' <=> j = i) /\ ~Uncd(j)
  BY <1>2, <1>5, OpenerAlone DEF i
<1>9. ClaimsHold'
  <2> SUFFICES ASSUME NEW q \in Proc, NEW j \in Slot, NEW k \in Ends, NEW o \in Name, Claim(q, j, k, o)'
      PROVE  ~Doomed(j) /\ mqs'[j].file # NULL /\ filesTable[mqs'[j].file] = o /\ mqs'[j][k] = q
    BY <1>2, <1>7 DEF ClaimsHold, NamedBy
  <2>1. CASE Claim(q, j, k, o)
    <3>1. ~Doomed(j) /\ mqs[j].file # NULL /\ filesTable[mqs[j].file] = o /\ mqs[j][k] = q
      BY <1>1, <2>1 DEF ClaimsHold, NamedBy
    <3>2. ~(j = i /\ k = e)
      BY <1>3, <3>1, Numbers
    <3> QED BY <1>4, <3>1, <3>2
  <2>2. CASE q = p /\ j = i /\ k = e /\ o = n
    BY <1>3, <1>4, <2>2 DEF NamedBy
  <2> QED BY <1>6, <2>1, <2>2
<1>10. OwnersClaim'
  <2> SUFFICES ASSUME NEW q \in alive, NEW j \in Slot, NEW k \in Ends, mqs'[j].file # NULL, mqs'[j][k] = q
      PROVE  \E o \in Name : Claim(q, j, k, o)'
    BY LinkOthers DEF OwnersClaim
  <2>1. q \in Proc
    BY DEF Base, StacksTyped
  <2>2. CASE j = i /\ k = e
    BY <1>3, <1>4, <1>6, <2>1, <2>2
  <2>3. CASE ~(j = i /\ k = e)
    <3>1. PICK o \in Name : Claim(q, j, k, o)
      BY <1>1, <1>4, <2>3 DEF OwnersClaim
    <3> QED BY <1>6, <2>1, <3>1
  <2> QED BY <2>2, <2>3
<1>11. LinksAdd'
  <2> SUFFICES ASSUME NEW j \in Slot, mqs'[j].file # NULL
      PROVE  mqs'[j].links + One(Uncd(j)') = EndsIn(j)' + One(Leavd(j)')
    BY DEF LinksAdd, One
  <2>1. mqs[j].links + One(Uncd(j)) = EndsIn(j) + One(Leavd(j)) /\ mqs[j].links \in Nat
    BY <1>1, <1>4, LinkThere DEF LinksAdd
  <2>2. CASE j = i
    <3>1. EndsIn(j)' = EndsIn(j) + 1
      <4>1. mqs'[j][e] = p /\ p # NoPID /\ mqs[j][e] = NoPID /\ \A k \in Ends : k # e => mqs'[j][k] = mqs[j][k]
        BY <1>3, <1>4, <2>2, Numbers
      <4>2. CASE e = "readPID"
        BY <4>1, <4>2 DEF EndsIn, One, Ends
      <4>3. CASE e = "writePID"
        BY <4>1, <4>3 DEF EndsIn, One, Ends
      <4> QED BY <1>3, <4>2, <4>3 DEF Ends
    <3> QED BY <1>4, <1>7, <1>8, <2>1, <2>2, <3>1 DEF One, EndsIn
  <2>3. CASE j # i
    <3>1. EndsIn(j)' = EndsIn(j)
      BY <1>4, <2>3 DEF EndsIn, Ends
    <3> QED BY <1>4, <1>7, <1>8, <2>1, <2>3, <3>1 DEF One
  <2> QED BY <2>2, <2>3
<1>12. LinkViews'
  <2> SUFFICES ASSUME NEW q \in Proc PROVE LinkView(pc[q], local[q])'
    BY DEF LinkViews
  <2>1. CASE q = p
    BY <1>2, <2>1 DEF LinkView, ClosingPoints, ClosePoints
  <2>2. CASE q # p
    <3>1. pc'[q] = pc[q] /\ local'[q] = local[q] /\ LinkView(pc[q], local[q])
      BY <1>1, <2>2, LinkOthers DEF LinkViews
    <3>2. pc[q] \notin {"mark", "markStore", "link"}
      BY <1>5, <2>2, OpenerAlone DEF OpenPoints
    <3>3. pc[q] = "unlinkStore" => local[q].index \in Slot
      BY Known DEF StackIs, Indexing, ClosePoints
    <3> QED BY <1>4, <3>1, <3>2, <3>3 DEF LinkView
  <2> QED BY <2>1, <2>2
<1> QED BY <1>9, <1>10, <1>11, <1>12 DEF LinksSet

LEMMA LinkKeepsLinks ==
  ASSUME Base, Base', Links, LinksKept, NEW p \in Proc, Alone(p), Link(p)
  PROVE  LinksSet'
<1> DEFINE i == local[p].index
<1>1. /\ StackIs(pc[p], local[p], fds[p]) /\ LinkView(pc[p], local[p]) /\ local[p] \in Local
      /\ ClaimsHold /\ OwnersClaim /\ LinksAdd /\ LinkViews /\ mqs \in [Slot -> Queue]
  BY Known DEF Links, LinkViews, Base, TablesTyped
<1>2. /\ pc[p] = "link" /\ pc'[p] = "openUnlock" /\ local' = local /\ fds' = fds
      /\ filesTable' = filesTable /\ mqs' = [mqs EXCEPT ![i].links = Up(local[p].count)]
  BY Known DEF Link, At
<1>3. i \in Slot /\ local[p].rollback = FALSE /\ local[p].count = mqs[i].links
  BY <1>1, <1>2 DEF StackIs, Indexing, LinkView, Undoing, ClosePoints, Local
<1>4. /\ \A j \in Slot : mqs'[j].file = mqs[j].file
      /\ \A j \in Slot : mqs'[j].links = IF j = i THEN Up(local[p].count) ELSE mqs[j].links
      /\ \A j \in Slot, k \in Ends : mqs'[j][k] = mqs[j][k]
  BY <1>2, <1>3, LinksSetTo
<1>5. /\ Plain(pc[p], local[p]) /\ Unc(pc[p], local[p]) /\ ~Leav(pc[p], local[p]) /\ ~Doom(pc[p])
      /\ Plain(pc'[p], local'[p]) /\ ~Unc(pc'[p], local'[p]) /\ ~Leav(pc'[p], local'[p]) /\ ~Doom(pc'[p])
      /\ InOpenAt(pc[p], local[p].rollback)
  BY <1>2, <1>3 DEF Plain, Pend, ClosingPoints, ClosePoints, Unc, Leav, Doom, InOpenAt, OpenPoints
<1> HIDE DEF i
<1>6. \A q \in Proc : \A j, k, o : Claim(q, j, k, o)' <=> Claim(q, j, k, o)
  <2>1. \A j, k, o : Claims(pc'[p], local'[p], fds[p], j, k, o) <=> Claims(pc[p], local[p], fds[p], j, k, o)
    BY <1>5, PlainClaims
  <2> QED BY <1>2, <2>1, LinkOthers
<1>7. \A j : (Leavd(j)' <=> Leavd(j)) /\ (Doomed(j)' <=> Doomed(j))
  BY <1>5, OutsideClose
<1>8. \A j : (Uncd(j) <=> j = i) /\ ~Uncd(j)'
  BY <1>2, <1>5, OpenerAlone DEF i
<1>9. ClaimsHold'
  <2> SUFFICES ASSUME NEW q \in Proc, NEW j \in Slot, NEW k \in Ends, NEW o \in Name, Claim(q, j, k, o)'
      PROVE  ~Doomed(j) /\ mqs'[j].file # NULL /\ filesTable[mqs'[j].file] = o /\ mqs'[j][k] = q
    BY <1>2, <1>7 DEF ClaimsHold, NamedBy
  <2>1. ~Doomed(j) /\ mqs[j].file # NULL /\ filesTable[mqs[j].file] = o /\ mqs[j][k] = q
    BY <1>1, <1>6 DEF ClaimsHold, NamedBy
  <2> QED BY <1>4, <2>1
<1>10. OwnersClaim'
  <2> SUFFICES ASSUME NEW q \in alive, NEW j \in Slot, NEW k \in Ends, mqs'[j].file # NULL, mqs'[j][k] = q
      PROVE  \E o \in Name : Claim(q, j, k, o)'
    BY LinkOthers DEF OwnersClaim
  <2>1. q \in Proc
    BY DEF Base, StacksTyped
  <2>2. PICK o \in Name : Claim(q, j, k, o)
    BY <1>1, <1>4 DEF OwnersClaim
  <2> QED BY <1>6, <2>1, <2>2
<1>11. LinksAdd'
  <2> SUFFICES ASSUME NEW j \in Slot, mqs'[j].file # NULL
      PROVE  mqs'[j].links + One(Uncd(j)') = EndsIn(j)' + One(Leavd(j)')
    BY DEF LinksAdd, One
  <2>1. mqs[j].links + One(Uncd(j)) = EndsIn(j) + One(Leavd(j)) /\ mqs[j].links \in Counter
    BY <1>1, <1>4 DEF LinksAdd, Queue
  <2>2. EndsIn(j)' = EndsIn(j)
    BY <1>4 DEF EndsIn, Ends
  <2>3. CASE j = i
    <3>1. mqs[j].links + 1 < Wrap /\ mqs[j].links \in Nat
      BY <1>8, <2>1, <2>3, WrapAssumption DEF One, EndsIn, Counter
    <3>2. Up(local[p].count) = mqs[j].links + 1
      BY <1>3, <2>1, <2>3, <3>1, Counting
    <3> QED BY <1>4, <1>7, <1>8, <2>1, <2>2, <2>3, <3>1, <3>2 DEF One
  <2>4. CASE j # i
    BY <1>4, <1>7, <1>8, <2>1, <2>2, <2>4 DEF One
  <2> QED BY <2>3, <2>4
<1>12. LinkViews'
  <2> SUFFICES ASSUME NEW q \in Proc PROVE LinkView(pc[q], local[q])'
    BY DEF LinkViews
  <2>1. CASE q = p
    BY <1>2, <2>1 DEF LinkView, ClosingPoints, ClosePoints
  <2>2. CASE q # p
    <3>1. pc'[q] = pc[q] /\ local'[q] = local[q] /\ LinkView(pc[q], local[q])
      BY <1>1, <2>2, LinkOthers DEF LinkViews
    <3>2. pc[q] \notin {"mark", "markStore", "link"}
      BY <1>5, <2>2, OpenerAlone DEF OpenPoints
    <3>3. pc[q] = "unlinkStore" => local[q].index \in Slot /\ local[q].index # i
      <4>1. pc[q] = "unlinkStore" => local[q].index \in Slot
        BY Known DEF StackIs, Indexing, ClosePoints
      <4>2. NoFaults
        BY NoneFaulty DEF Base
      <4> QED BY <1>2, <4>1, <4>2 DEF NoFaults, i
    <3> QED BY <1>4, <3>1, <3>2, <3>3 DEF LinkView
  <2> QED BY <2>1, <2>2
<1> QED BY <1>9, <1>10, <1>11, <1>12 DEF LinksSet

-----------------------------------------------------------------------------
(* A process closes an end it has: that of the descriptor, or of the open  *)
(* that failed; it is the one it gives up.                                 *)
LEMMA ClosesItsEnd ==
  ASSUME Base, NEW p \in Proc, pc[p] = "unmark"
  PROVE  \E e \in Ends, n \in Name :
           /\ Claim(p, local[p].index, e, n)
           /\ \A j, k, o : Claims("unlink", local[p], fds[p], j, k, o) <=>
                Claims(pc[p], local[p], fds[p], j, k, o) /\ ~(j = local[p].index /\ k = e /\ o = n)
           /\ \A j, k : Claims("unlink", local[p], fds[p], j, k, n) => FALSE
<1>1. /\ StackIs(pc[p], local[p], fds[p]) /\ DescriptorsAre(fds[p]) /\ local[p] \in Local
      /\ fds[p] \in [FD -> Descriptor]
  BY Known
<1>2. p \in alive
  BY DEF Base, StacksTyped
<1>3. CASE local[p].rollback
  <2> DEFINE e == End(local[p].flags)
             n == local[p].name
  <2>1. local[p].fd \notin FD /\ \A d \in FD : fds[p][d].name # n
    BY <1>1, <1>3, Numbers DEF StackIs
  <2>2. Pend(pc[p], local[p]) /\ ~Pend("unlink", local[p])
    BY <1>3 DEF Pend
  <2>3. n \in Name /\ e \in Ends
    BY <1>1, <1>3 DEF StackIs, End, Ends
  <2>4. \A d \in FD : OpensAt("unlink", local[p], fds[p], d) <=> OpensAt(pc[p], local[p], fds[p], d)
    BY <2>1 DEF OpensAt, ClosingPoints
  <2>5. Claims(pc[p], local[p], fds[p], local[p].index, e, n)
    BY <2>2 DEF Claims
  <2>6. \A j, k, o : Claims("unlink", local[p], fds[p], j, k, o) =>
          Claims(pc[p], local[p], fds[p], j, k, o) /\ o # n
    BY <2>1, <2>2, <2>4 DEF Claims
  <2>7. \A j, k, o : Claims(pc[p], local[p], fds[p], j, k, o) /\ ~(j = local[p].index /\ k = e /\ o = n) =>
          Claims("unlink", local[p], fds[p], j, k, o)
    BY <2>4 DEF Claims
  <2> HIDE DEF e, n
  <2> QED BY <1>2, <2>3, <2>5, <2>6, <2>7 DEF Claim
<1>4. CASE ~local[p].rollback
  <2> DEFINE d == local[p].fd
             e == End(fds[p][d].flags)
             n == fds[p][d].name
  <2>1. d \in FD /\ fds[p][d] # Closed /\ fds[p][d].index = local[p].index
    BY <1>1, <1>4 DEF StackIs, ClosePoints
  <2>2. ~Pend(pc[p], local[p]) /\ ~Pend("unlink", local[p])
    BY <1>4 DEF Pend
  <2>3. n \in Name /\ n # NoName /\ e \in Ends
    BY <1>1, <2>1, NameAssumption DEF DescriptorsAre, End, Ends
  <2>4. \A f \in FD : OpensAt("unlink", local[p], fds[p], f) <=> OpensAt(pc[p], local[p], fds[p], f) /\ f # d
    BY DEF OpensAt, ClosingPoints, ClosePoints
  <2>5. OpensAt(pc[p], local[p], fds[p], d)
    BY <2>1 DEF OpensAt, ClosingPoints
  <2>6. Claims(pc[p], local[p], fds[p], local[p].index, e, n)
    BY <2>1, <2>5 DEF Claims
  <2>7. \A f \in FD : fds[p][f].name = n => f = d
    BY <1>1, <2>1, <2>3 DEF DescriptorsAre
  <2>8. \A j, k, o : Claims("unlink", local[p], fds[p], j, k, o) =>
          Claims(pc[p], local[p], fds[p], j, k, o) /\ o # n
    BY <2>2, <2>4, <2>7 DEF Claims
  <2>9. \A j, k, o : Claims(pc[p], local[p], fds[p], j, k, o) /\ ~(j = local[p].index /\ k = e /\ o = n) =>
          Claims("unlink", local[p], fds[p], j, k, o)
    BY <2>1, <2>2, <2>4 DEF Claims
  <2> HIDE DEF d, e, n
  <2> QED BY <1>2, <2>3, <2>6, <2>8, <2>9 DEF Claim
<1> QED BY <1>3, <1>4

LEMMA UnmarkKeepsLinks ==
  ASSUME Base, Base', Links, LinksKept, NEW p \in Proc, Alone(p), Unmark(p)
  PROVE  LinksSet'
<1> DEFINE i == local[p].index
<1>1. /\ StackIs(pc[p], local[p], fds[p]) /\ local[p] \in Local
      /\ ClaimsHold /\ OwnersClaim /\ LinksAdd /\ LinkViews /\ mqs \in [Slot -> Queue]
  BY Known DEF Links, Base, TablesTyped
<1>2. /\ pc[p] = "unmark" /\ local' = local /\ fds' = fds /\ filesTable' = filesTable
  BY DEF Unmark, At
<1>3. i \in Slot
  BY <1>1, <1>2 DEF StackIs, Indexing, ClosePoints
<1>4. PICK e \in Ends, n \in Name :
        /\ Claim(p, local[p].index, e, n)
        /\ \A j, k, o : Claims("unlink", local[p], fds[p], j, k, o) <=>
             Claims(pc[p], local[p], fds[p], j, k, o) /\ ~(j = local[p].index /\ k = e /\ o = n)
        /\ \A j, k : Claims("unlink", local[p], fds[p], j, k, n) => FALSE
  BY <1>2, ClosesItsEnd
<1>5. ~Doomed(i) /\ NamedBy(i, n) /\ mqs[i].file # NULL /\ mqs[i][e] = p
  BY <1>1, <1>3, <1>4 DEF ClaimsHold, NamedBy
<1>6. e = "writePID" => mqs[i].readPID # p
  <2> SUFFICES ASSUME e = "writePID", mqs[i].readPID = p PROVE FALSE
    OBVIOUS
  <2>1. p \in alive /\ mqs[i]["readPID"] = p
    BY <1>4 DEF Claim
  <2>2. PICK o \in Name : Claim(p, i, "readPID", o)
    BY <1>1, <1>3, <1>5, <2>1 DEF OwnersClaim, Ends
  <2>3. o = n
    BY <1>1, <1>3, <1>5, <2>2 DEF ClaimsHold, NamedBy, Ends
  <2>4. Claims(pc[p], local[p], fds[p], i, "readPID", n)
    BY <2>2, <2>3 DEF Claim
  <2> QED BY <1>4, <2>4
<1>7. pc'[p] = "unlink" /\ mqs' = [mqs EXCEPT ![i][e] = NoPID]
  <2>1. CASE e = "readPID"
    <3>1. mqs[i].readPID = p
      BY <1>5, <2>1
    <3> QED BY <1>5, <2>1, <3>1, Known DEF Unmark
  <2>2. CASE e = "writePID"
    <3>1. mqs[i].writePID = p /\ mqs[i].readPID # p
      BY <1>5, <1>6, <2>2
    <3> QED BY <1>5, <2>2, <3>1, Known DEF Unmark
  <2> QED BY <2>1, <2>2 DEF Ends
<1> HIDE DEF i
<1>8. /\ \A j \in Slot : mqs'[j].file = mqs[j].file /\ mqs'[j].links = mqs[j].links
      /\ \A j \in Slot, k \in Ends : mqs'[j][k] = IF j = i /\ k = e THEN NoPID ELSE mqs[j][k]
  <2>1. CASE e = "readPID"
    <3>1. mqs' = [mqs EXCEPT ![i].readPID = NoPID]
      BY <1>7, <2>1
    <3>2. /\ \A j \in Slot : mqs'[j].file = mqs[j].file /\ mqs'[j].links = mqs[j].links
          /\ \A j \in Slot, k \in Ends : mqs'[j][k] = IF j = i /\ k = "readPID" THEN NoPID ELSE mqs[j][k]
      <4>1. i \in Slot /\ NoPID \in Proc \cup {NoPID}
        BY <1>3
      <4> QED BY <3>1, <4>1, ReadSet
    <3> QED BY <2>1, <3>2
  <2>2. CASE e = "writePID"
    <3>1. mqs' = [mqs EXCEPT ![i].writePID = NoPID]
      BY <1>7, <2>2
    <3>2. /\ \A j \in Slot : mqs'[j].file = mqs[j].file /\ mqs'[j].links = mqs[j].links
          /\ \A j \in Slot, k \in Ends : mqs'[j][k] = IF j = i /\ k = "writePID" THEN NoPID ELSE mqs[j][k]
      <4>1. i \in Slot /\ NoPID \in Proc \cup {NoPID}
        BY <1>3
      <4> QED BY <3>1, <4>1, WriteSet
    <3> QED BY <2>2, <3>2
  <2> QED BY <2>1, <2>2 DEF Ends
<1>9. \A q \in Proc : \A j, k, o : Claim(q, j, k, o)' <=>
        Claim(q, j, k, o) /\ ~(q = p /\ j = i /\ k = e /\ o = n)
  <2>1. \A j, k, o : Claims(pc'[p], local'[p], fds'[p], j, k, o) <=>
          Claims(pc[p], local[p], fds[p], j, k, o) /\ ~(j = i /\ k = e /\ o = n)
    BY <1>2, <1>4, <1>7 DEF i
  <2> QED BY <2>1, LinkOthers
<1>10. InCloseAt(pc[p]) /\ ~Leav(pc[p], local[p]) /\ ~Doom(pc[p]) /\ ~Doom(pc'[p])
  BY <1>2, <1>7 DEF InCloseAt, ClosePoints, Leav, Doom
<1>11. \A j : ~Doomed(j)' /\ ~Doomed(j) /\ ~Leavd(j) /\ (Leavd(j)' <=> ~local[p].rollback /\ j = i)
  BY <1>2, <1>7, <1>10, CloserAlone DEF Leav, i
<1>12. ClaimsHold'
  <2> SUFFICES ASSUME NEW q \in Proc, NEW j \in Slot, NEW k \in Ends, NEW o \in Name, Claim(q, j, k, o)'
      PROVE  mqs'[j].file # NULL /\ filesTable[mqs'[j].file] = o /\ mqs'[j][k] = q
    BY <1>2, <1>11 DEF ClaimsHold, NamedBy
  <2>1. mqs[j].file # NULL /\ filesTable[mqs[j].file] = o /\ mqs[j][k] = q
    BY <1>1, <1>9 DEF ClaimsHold, NamedBy
  <2>2. ~(j = i /\ k = e)
    <3> SUFFICES ASSUME j = i, k = e PROVE FALSE
      OBVIOUS
    <3>1. q = p /\ o = n
      BY <1>5, <2>1 DEF NamedBy
    <3> QED BY <1>9, <3>1
  <2> QED BY <1>8, <2>1, <2>2
<1>13. OwnersClaim'
  <2> SUFFICES ASSUME NEW q \in alive, NEW j \in Slot, NEW k \in Ends, mqs'[j].file # NULL, mqs'[j][k] = q
      PROVE  \E o \in Name : Claim(q, j, k, o)'
    BY LinkOthers DEF OwnersClaim
  <2>1. q \in Proc /\ q # NoPID
    BY Numbers DEF Base, StacksTyped
  <2>2. ~(j = i /\ k = e)
    BY <1>8, <2>1
  <2>3. PICK o \in Name : Claim(q, j, k, o)
    BY <1>1, <1>8, <2>2 DEF OwnersClaim
  <2> QED BY <1>9, <2>1, <2>2, <2>3
<1>14. LinksAdd'
  <2> SUFFICES ASSUME NEW j \in Slot, mqs'[j].file # NULL
      PROVE  mqs'[j].links + One(Uncd(j)') = EndsIn(j)' + One(Leavd(j)')
    BY DEF LinksAdd, One
  <2>1. mqs[j].links + One(Uncd(j)) = EndsIn(j) + One(Leavd(j)) /\ mqs[j].links \in Nat
    BY <1>1, <1>8, LinkThere DEF LinksAdd
  <2>2. CASE j = i
    <3>1. EndsIn(j) = EndsIn(j)' + 1
      <4>1. mqs[j][e] = p /\ p # NoPID /\ mqs'[j][e] = NoPID /\ \A k \in Ends : k # e => mqs'[j][k] = mqs[j][k]
        BY <1>5, <1>8, <2>2, Numbers
      <4>2. CASE e = "readPID"
        BY <4>1, <4>2 DEF EndsIn, One, Ends
      <4>3. CASE e = "writePID"
        BY <4>1, <4>3 DEF EndsIn, One, Ends
      <4> QED BY <4>2, <4>3 DEF Ends
    <3>2. EndsIn(j)' \in Nat
      BY DEF EndsIn, One
    <3>3. CASE local[p].rollback
      <4>1. InOpenAt(pc[p], local[p].rollback) /\ Unc(pc[p], local[p]) /\ ~Unc(pc'[p], local'[p])
        BY <1>2, <1>7, <3>3 DEF InOpenAt, ClosePoints, Unc, Pend
      <4>2. Uncd(j) /\ ~Uncd(j)'
        BY <2>2, <4>1, OpenerAlone DEF i
      <4> QED BY <1>8, <1>11, <2>1, <3>1, <3>2, <3>3, <4>2 DEF One
    <3>4. CASE ~local[p].rollback
      <4>1. ~Unc(pc[p], local[p]) /\ ~Unc(pc'[p], local'[p])
        BY <1>2, <1>7, <3>4 DEF Unc, Pend
      <4>2. Uncd(j)' <=> Uncd(j)
        BY <4>1, OutsideOpen
      <4> QED BY <1>8, <1>11, <2>1, <2>2, <3>1, <3>2, <3>4, <4>2 DEF One
    <3> QED BY <3>3, <3>4
  <2>3. CASE j # i
    <3>1. EndsIn(j)' = EndsIn(j)
      BY <1>8, <2>3 DEF EndsIn, Ends
    <3>2. Uncd(j)' <=> Uncd(j)
      <4>1. \A q \in Proc \ {p} : pc'[q] = pc[q] /\ local'[q] = local[q]
        BY LinkOthers
      <4> QED BY <1>2, <2>3, <4>1 DEF Uncd, i
    <3> QED BY <1>8, <1>11, <2>1, <2>3, <3>1, <3>2 DEF One
  <2> QED BY <2>2, <2>3
<1>15. LinkViews'
  <2> SUFFICES ASSUME NEW q \in Proc PROVE LinkView(pc[q], local[q])'
    BY DEF LinkViews
  <2>1. CASE q = p
    BY <1>7, <2>1 DEF LinkView, ClosingPoints, ClosePoints
  <2>2. CASE q # p
    <3>1. pc'[q] = pc[q] /\ local'[q] = local[q] /\ LinkView(pc[q], local[q])
      BY <1>1, <2>2, LinkOthers DEF LinkViews
    <3>2. pc[q] \in {"mark", "markStore", "link", "unlinkStore"} => local[q].index \in Slot
      BY Known DEF StackIs, Indexing, ClosePoints
    <3>3. pc[q] \in {"mark", "markStore"} => ~Doomed(local[q].index)' /\ NamedBy(local[q].index, local[q].name)'
      BY <1>2, <1>8, <1>11, <3>1, <3>2 DEF LinkView, NamedBy
    <3>4. pc[q] = "markStore" => mqs'[local[q].index][End(local[q].flags)] = NoPID
      <4>1. End(local[q].flags) \in Ends
        BY DEF End, Ends
      <4> QED BY <1>8, <3>1, <3>2, <4>1 DEF LinkView
    <3> QED BY <1>8, <3>1, <3>2, <3>3, <3>4 DEF LinkView
  <2> QED BY <2>1, <2>2
<1> QED BY <1>12, <1>13, <1>14, <1>15 DEF LinksSet

-----------------------------------------------------------------------------
(* A link is taken off, and with it the close is counted.                  *)
LEMMA UnlinkStoreKeepsLinks ==
  ASSUME Base, Base', Links, LinksKept, NEW p \in Proc, Alone(p), UnlinkStore(p)
  PROVE  LinksSet'
<1> DEFINE i == local[p].index
<1>1. /\ StackIs(pc[p], local[p], fds[p]) /\ LinkView(pc[p], local[p]) /\ local[p] \in Local
      /\ ClaimsHold /\ OwnersClaim /\ LinksAdd /\ LinkViews /\ mqs \in [Slot -> Queue]
  BY Known DEF Links, LinkViews, Base, TablesTyped
<1>2. /\ pc[p] = "unlinkStore" /\ pc'[p] = "last" /\ fds' = fds
      /\ filesTable' = filesTable /\ mqs' = [mqs EXCEPT ![i].links = Down(local[p].count)]
      /\ local'[p] = [local[p] EXCEPT !.count = 0]
  BY Known DEF UnlinkStore, At
<1>3. /\ local'[p].index = i /\ local'[p].fd = local[p].fd /\ local'[p].rollback = local[p].rollback
      /\ local'[p].ok = local[p].ok
  BY <1>1, <1>2 DEF Local
<1>4. i \in Slot /\ local[p].rollback = FALSE /\ local[p].ok /\ local[p].count = mqs[i].links /\ mqs[i].links > 0
  BY <1>1, <1>2 DEF StackIs, Indexing, LinkView, ClosingPoints, ClosePoints, Local
<1>5. /\ \A j \in Slot : mqs'[j].file = mqs[j].file
      /\ \A j \in Slot : mqs'[j].links = IF j = i THEN Down(local[p].count) ELSE mqs[j].links
      /\ \A j \in Slot, k \in Ends : mqs'[j][k] = mqs[j][k]
  BY <1>2, <1>4, LinksSetTo
<1>6. /\ pc[p] \in ClosingPoints /\ pc'[p] \in ClosingPoints /\ ~Pend(pc[p], local[p]) /\ ~Pend(pc'[p], local'[p])
      /\ ~Unc(pc[p], local[p]) /\ ~Unc(pc'[p], local'[p]) /\ Leav(pc[p], local[p]) /\ ~Leav(pc'[p], local'[p])
      /\ ~Doom(pc[p]) /\ ~Doom(pc'[p]) /\ InCloseAt(pc[p])
  BY <1>2, <1>3, <1>4 DEF ClosingPoints, ClosePoints, Pend, Unc, Leav, Doom, InCloseAt
<1> HIDE DEF i
<1>7. \A q \in Proc : \A j, k, o : Claim(q, j, k, o)' <=> Claim(q, j, k, o)
  <2>1. \A j, k, o : Claims(pc'[p], local'[p], fds[p], j, k, o) <=> Claims(pc[p], local[p], fds[p], j, k, o)
    BY <1>3, <1>6, ClosingClaims
  <2> QED BY <1>2, <2>1, LinkOthers
<1>8. \A j : Uncd(j)' <=> Uncd(j)
  BY <1>6, OutsideOpen
<1>9. \A j : ~Doomed(j) /\ ~Doomed(j)' /\ ~Leavd(j)' /\ (Leavd(j) <=> j = i)
  BY <1>6, CloserAlone DEF i
<1>10. ClaimsHold'
  <2> SUFFICES ASSUME NEW q \in Proc, NEW j \in Slot, NEW k \in Ends, NEW o \in Name, Claim(q, j, k, o)'
      PROVE  mqs'[j].file # NULL /\ filesTable[mqs'[j].file] = o /\ mqs'[j][k] = q
    BY <1>2, <1>9 DEF ClaimsHold, NamedBy
  <2>1. mqs[j].file # NULL /\ filesTable[mqs[j].file] = o /\ mqs[j][k] = q
    BY <1>1, <1>7 DEF ClaimsHold, NamedBy
  <2> QED BY <1>5, <2>1
<1>11. OwnersClaim'
  <2> SUFFICES ASSUME NEW q \in alive, NEW j \in Slot, NEW k \in Ends, mqs'[j].file # NULL, mqs'[j][k] = q
      PROVE  \E o \in Name : Claim(q, j, k, o)'
    BY LinkOthers DEF OwnersClaim
  <2>1. q \in Proc
    BY DEF Base, StacksTyped
  <2>2. PICK o \in Name : Claim(q, j, k, o)
    BY <1>1, <1>5 DEF OwnersClaim
  <2> QED BY <1>7, <2>1, <2>2
<1>12. LinksAdd'
  <2> SUFFICES ASSUME NEW j \in Slot, mqs'[j].file # NULL
      PROVE  mqs'[j].links + One(Uncd(j)') = EndsIn(j)' + One(Leavd(j)')
    BY DEF LinksAdd, One
  <2>1. mqs[j].links + One(Uncd(j)) = EndsIn(j) + One(Leavd(j)) /\ mqs[j].links \in Counter
    BY <1>1, <1>5 DEF LinksAdd, Queue
  <2>2. EndsIn(j)' = EndsIn(j) /\ EndsIn(j) \in Nat
    BY <1>5 DEF EndsIn, Ends, One
  <2>3. CASE j = i
    <3>1. Down(local[p].count) = mqs[j].links - 1 /\ mqs[j].links \in Nat
      BY <1>4, <2>1, <2>3, Counting, WrapAssumption DEF Counter
    <3> QED BY <1>5, <1>8, <1>9, <2>1, <2>2, <2>3, <3>1 DEF One
  <2>4. CASE j # i
    BY <1>5, <1>8, <1>9, <2>1, <2>2, <2>4 DEF One
  <2> QED BY <2>3, <2>4
<1>13. LinkViews'
  <2> SUFFICES ASSUME NEW q \in Proc PROVE LinkView(pc[q], local[q])'
    BY DEF LinkViews
  <2>1. CASE q = p
    BY <1>2, <1>3, <1>4, <2>1 DEF LinkView, ClosingPoints, ClosePoints
  <2>2. CASE q # p
    <3>1. pc'[q] = pc[q] /\ local'[q] = local[q] /\ LinkView(pc[q], local[q])
      BY <1>1, <2>2, LinkOthers DEF LinkViews
    <3>2. pc[q] # "unlinkStore"
      BY <1>6, <2>2, CloserAlone DEF InCloseAt, ClosePoints
    <3>3. pc[q] \in {"mark", "markStore"} => local[q].index \in Slot
      BY Known DEF StackIs, Indexing
    <3>4. pc[q] = "link" => local[q].index \in Slot /\ local[q].index # i
      <4>1. pc[q] = "link" => local[q].index \in Slot
        BY Known DEF StackIs, Indexing
      <4>2. NoFaults
        BY NoneFaulty DEF Base
      <4> QED BY <1>2, <4>1, <4>2 DEF NoFaults, i
    <3>5. pc[q] \in {"mark", "markStore"} => ~Doomed(local[q].index)' /\ NamedBy(local[q].index, local[q].name)'
      BY <1>2, <1>5, <1>9, <3>1, <3>3 DEF LinkView, NamedBy
    <3>6. pc[q] = "markStore" => mqs'[local[q].index][End(local[q].flags)] = NoPID
      <4>1. End(local[q].flags) \in Ends
        BY DEF End, Ends
      <4> QED BY <1>5, <3>1, <3>3, <4>1 DEF LinkView
    <3> QED BY <1>5, <3>1, <3>2, <3>3, <3>4, <3>5, <3>6 DEF LinkView
  <2> QED BY <2>1, <2>2
<1> QED BY <1>10, <1>11, <1>12, <1>13 DEF LinksSet

(* When links is 0 no end is taken, unless somebody is joining.            *)
LEMMA LastDestroysNone ==
  ASSUME Base, Base', Files, Links, LinksKept, LinksKept', NEW p \in Proc, Alone(p), Last(p), pc'[p] = "destroy"
  PROVE  LinksSet'
<1> DEFINE i == local[p].index
<1>1. /\ StackIs(pc[p], local[p], fds[p]) /\ LinkView(pc[p], local[p]) /\ FileView(pc[p], local[p])
      /\ ClaimsHold /\ OwnersClaim /\ LinksAdd /\ LinkViews /\ mqs \in [Slot -> Queue]
  BY Known DEF Links, LinkViews, Base, TablesTyped, Files, FileViews
<1>2. pc[p] = "last" /\ mqs' = mqs /\ filesTable' = filesTable /\ fds' = fds /\ local' = local
  BY DEF Last, At, tables
<1>3. i \in Slot /\ mqs[i].links = 0 /\ mqs[i].file # NULL
  <2>1. Goto(p, IF mqs[i].links = 0 THEN "destroy" ELSE "closeUnlock")
    BY DEF Last
  <2>2. mqs[i].links = 0
    BY <2>1, Known
  <2> QED BY <1>1, <1>2, <2>2 DEF StackIs, Indexing, ClosePoints, FileView, Holding
<1>4. /\ pc[p] \in ClosingPoints /\ pc'[p] \in ClosingPoints /\ ~Pend(pc[p], local[p]) /\ ~Pend(pc'[p], local[p])
      /\ ~Unc(pc[p], local[p]) /\ ~Unc(pc'[p], local[p]) /\ ~Leav(pc[p], local[p]) /\ ~Leav(pc'[p], local[p])
      /\ InCloseAt(pc[p]) /\ Doom(pc'[p])
  BY <1>2 DEF ClosingPoints, ClosePoints, Pend, Unc, Leav, Doom, InCloseAt
<1> HIDE DEF i
<1>5. \A q \in Proc : \A j, k, o : Claim(q, j, k, o)' <=> Claim(q, j, k, o)
  <2>1. \A j, k, o : Claims(pc'[p], local[p], fds[p], j, k, o) <=> Claims(pc[p], local[p], fds[p], j, k, o)
    BY <1>4, ClosingClaims
  <2> QED BY <1>2, <2>1, LinkOthers
<1>6. \A j : Uncd(j)' <=> Uncd(j)
  BY <1>2, <1>4, OutsideOpen
<1>7. \A j : ~Doomed(j) /\ (Doomed(j)' <=> j = i) /\ ~Leavd(j) /\ ~Leavd(j)'
  <2>1. ~Doom(pc[p])
    BY <1>2 DEF Doom
  <2> QED BY <1>2, <1>4, <2>1, CloserAlone DEF i
<1>8. \A q \in Proc \ {p} : local[q].index = i => ~Joining(q)
  <2> SUFFICES ASSUME NEW q \in Proc \ {p}, local[q].index = i, Joining(q) PROVE FALSE
    OBVIOUS
  <2>1. pc'[q] = pc[q] /\ local'[q] = local[q]
    BY LinkOthers
  <2>2. Joining(q)' /\ Destroying(p)'
    BY <2>1 DEF Joining, Destroying
  <2> QED BY <1>2, <2>1, <2>2, NoneFaultyThen DEF NoFaults, i
<1>9. ~Uncd(i)
  BY <1>4, <1>8 DEF Uncd, Unc, Pend, Joining
<1>10. mqs[i].readPID = NoPID /\ mqs[i].writePID = NoPID
  <2>1. mqs[i].links + One(Uncd(i)) = EndsIn(i) + One(Leavd(i)) /\ ~Leavd(i)
    BY <1>1, <1>3, <1>7 DEF LinksAdd
  <2>2. One(mqs[i].readPID # NoPID) + One(mqs[i].writePID # NoPID) = 0
    BY <1>3, <1>9, <2>1 DEF EndsIn, One
  <2> QED BY <2>2 DEF One
<1>11. ClaimsHold'
  <2> SUFFICES ASSUME NEW q \in Proc, NEW j \in Slot, NEW k \in Ends, NEW o \in Name, Claim(q, j, k, o)'
      PROVE  j # i /\ mqs[j].file # NULL /\ filesTable[mqs[j].file] = o /\ mqs[j][k] = q
    BY <1>2, <1>7 DEF ClaimsHold, NamedBy
  <2>1. mqs[j].file # NULL /\ filesTable[mqs[j].file] = o /\ mqs[j][k] = q
    BY <1>1, <1>5 DEF ClaimsHold, NamedBy
  <2> QED BY <1>10, <2>1, Numbers DEF Ends
<1>12. OwnersClaim'
  <2> SUFFICES ASSUME NEW q \in alive, NEW j \in Slot, NEW k \in Ends, mqs[j].file # NULL, mqs[j][k] = q
      PROVE  \E o \in Name : Claim(q, j, k, o)'
    BY <1>2, LinkOthers DEF OwnersClaim
  <2>1. q \in Proc
    BY DEF Base, StacksTyped
  <2>2. PICK o \in Name : Claim(q, j, k, o)
    BY <1>1 DEF OwnersClaim
  <2> QED BY <1>5, <2>1, <2>2
<1>13. LinksAdd'
  BY <1>1, <1>2, <1>6, <1>7 DEF LinksAdd, EndsIn, One
<1>14. LinkViews'
  <2> SUFFICES ASSUME NEW q \in Proc PROVE LinkView(pc[q], local[q])'
    BY DEF LinkViews
  <2>1. CASE q = p
    BY <1>1, <1>2, <2>1 DEF LinkView, ClosingPoints, ClosePoints
  <2>2. CASE q # p
    <3>1. pc'[q] = pc[q] /\ local'[q] = local[q] /\ LinkView(pc[q], local[q])
      BY <1>1, <2>2, LinkOthers DEF LinkViews
    <3>2. pc[q] \in {"mark", "markStore"} => local[q].index # i
      BY <1>8, <2>2 DEF Joining
    <3>3. pc[q] \in {"mark", "markStore"} => ~Doomed(local[q].index)' /\ NamedBy(local[q].index, local[q].name)'
      BY <1>2, <1>7, <3>1, <3>2 DEF LinkView, NamedBy
    <3> QED BY <1>2, <3>1, <3>3 DEF LinkView
  <2> QED BY <2>1, <2>2
<1> QED BY <1>11, <1>12, <1>13, <1>14 DEF LinksSet

(* A queue that is destroyed is nobody's.                                  *)
LEMMA destroyMQKeepsLinks ==
  ASSUME Base, Base', Links, LinksKept, NEW p \in Proc, Alone(p), destroyMQ(p)
  PROVE  LinksSet'
<1> DEFINE i == local[p].index
<1>1. /\ StackIs(pc[p], local[p], fds[p]) /\ LinkView(pc[p], local[p])
      /\ ClaimsHold /\ OwnersClaim /\ LinksAdd /\ LinkViews /\ mqs \in [Slot -> Queue]
  BY Known DEF Links, LinkViews, Base, TablesTyped
<1>2. /\ pc[p] = "free" /\ pc'[p] = "mqsLoad" /\ filesTable' = filesTable /\ fds' = fds /\ local' = local
      /\ mqs' = [mqs EXCEPT ![i].file = NULL]
  BY Known DEF destroyMQ, At
<1>3. i \in Slot
  BY <1>1, <1>2 DEF StackIs, Indexing, ClosePoints
<1>4. /\ mqs'[i].file = NULL /\ \A j \in Slot : j # i => mqs'[j] = mqs[j]
      /\ \A j \in Slot : mqs'[j].links = mqs[j].links
      /\ \A j \in Slot, k \in Ends : mqs'[j][k] = mqs[j][k]
  BY <1>1, <1>2, <1>3 DEF Queue, Ends
<1>5. /\ pc[p] \in ClosingPoints /\ pc'[p] \in ClosingPoints /\ ~Pend(pc[p], local[p]) /\ ~Pend(pc'[p], local[p])
      /\ ~Unc(pc[p], local[p]) /\ ~Unc(pc'[p], local[p]) /\ ~Leav(pc[p], local[p]) /\ ~Leav(pc'[p], local[p])
      /\ InCloseAt(pc[p]) /\ Doom(pc[p]) /\ ~Doom(pc'[p])
  BY <1>2 DEF ClosingPoints, ClosePoints, Pend, Unc, Leav, Doom, InCloseAt
<1> HIDE DEF i
<1>6. \A q \in Proc : \A j, k, o : Claim(q, j, k, o)' <=> Claim(q, j, k, o)
  <2>1. \A j, k, o : Claims(pc'[p], local[p], fds[p], j, k, o) <=> Claims(pc[p], local[p], fds[p], j, k, o)
    BY <1>5, ClosingClaims
  <2> QED BY <1>2, <2>1, LinkOthers
<1>7. \A j : Uncd(j)' <=> Uncd(j)
  BY <1>2, <1>5, OutsideOpen
<1>8. \A j : (Doomed(j) <=> j = i) /\ ~Doomed(j)' /\ ~Leavd(j) /\ ~Leavd(j)'
  BY <1>2, <1>5, CloserAlone DEF i
<1>9. ClaimsHold'
  <2> SUFFICES ASSUME NEW q \in Proc, NEW j \in Slot, NEW k \in Ends, NEW o \in Name, Claim(q, j, k, o)'
      PROVE  mqs'[j].file # NULL /\ filesTable[mqs'[j].file] = o /\ mqs'[j][k] = q
    BY <1>2, <1>8 DEF ClaimsHold, NamedBy
  <2>1. j # i /\ mqs[j].file # NULL /\ filesTable[mqs[j].file] = o /\ mqs[j][k] = q
    BY <1>1, <1>6, <1>8 DEF ClaimsHold, NamedBy
  <2> QED BY <1>4, <2>1
<1>10. OwnersClaim'
  <2> SUFFICES ASSUME NEW q \in alive, NEW j \in Slot, NEW k \in Ends, mqs'[j].file # NULL, mqs'[j][k] = q
      PROVE  \E o \in Name : Claim(q, j, k, o)'
    BY LinkOthers DEF OwnersClaim
  <2>1. q \in Proc /\ j # i
    BY <1>4 DEF Base, StacksTyped
  <2>2. PICK o \in Name : Claim(q, j, k, o)
    BY <1>1, <1>4, <2>1 DEF OwnersClaim
  <2> QED BY <1>6, <2>1, <2>2
<1>11. LinksAdd'
  <2> SUFFICES ASSUME NEW j \in Slot, mqs'[j].file # NULL
      PROVE  mqs'[j].links + One(Uncd(j)') = EndsIn(j)' + One(Leavd(j)')
    BY DEF LinksAdd, One
  <2>1. j # i /\ mqs[j].links + One(Uncd(j)) = EndsIn(j) + One(Leavd(j))
    BY <1>1, <1>4 DEF LinksAdd
  <2> QED BY <1>4, <1>7, <1>8, <2>1 DEF EndsIn, One
<1>12. LinkViews'
  <2> SUFFICES ASSUME NEW q \in Proc PROVE LinkView(pc[q], local[q])'
    BY DEF LinkViews
  <2>1. CASE q = p
    BY <1>1, <1>2, <2>1 DEF LinkView, ClosingPoints, ClosePoints
  <2>2. CASE q # p
    <3>1. pc'[q] = pc[q] /\ local'[q] = local[q] /\ LinkView(pc[q], local[q])
      BY <1>1, <2>2, LinkOthers DEF LinkViews
    <3>2. pc[q] \in {"mark", "markStore", "link", "unlinkStore"} => local[q].index \in Slot
      BY Known DEF StackIs, Indexing, ClosePoints
    <3>3. pc[q] \in {"mark", "markStore"} => ~Doomed(local[q].index)' /\ NamedBy(local[q].index, local[q].name)'
      BY <1>2, <1>4, <1>8, <3>1, <3>2 DEF LinkView, NamedBy
    <3>4. pc[q] = "markStore" => mqs'[local[q].index][End(local[q].flags)] = NoPID
      <4>1. End(local[q].flags) \in Ends
        BY DEF End, Ends
      <4> QED BY <1>4, <3>1, <3>2, <4>1 DEF LinkView
    <3> QED BY <1>4, <3>1, <3>2, <3>3, <3>4 DEF LinkView
  <2> QED BY <2>1, <2>2
<1> QED BY <1>9, <1>10, <1>11, <1>12 DEF LinksSet

-----------------------------------------------------------------------------
LEMMA CallsKeepLinks ==
  ASSUME Base, Base', Files, Links, LinksKept, LinksKept', NEW p \in Proc,
         Call(p), ~OpenLockBusy(p), ~CloseLockBusy(p)
  PROVE  LinksSet'
<1>1. Alone(p)
  BY OpenAlone, CloseAlone DEF Call, Open, Close
<1>2. CASE LeavesLinks(p)
  BY <1>1, <1>2, LeavesKeeps, LinksStill DEF LinksSet
<1>3. CASE Open(p)
  <2>1. CASE \/ OpenLock(p) \/ indexOfMQ(p) \/ findFreeSlot(p) \/ createBasicFile(p)
             \/ countFile(p) \/ markAccess(p) \/ OpenUnlock(p)
    BY <1>1, <1>2, <2>1, SearchesLeaveLinks
  <2>2. CASE fillFile(p)
    <3>1. CASE filesTable' = filesTable
      BY <1>1, <1>2, <2>2, <3>1, SearchesLeaveLinks
    <3>2. CASE filesTable' # filesTable
      <4>1. filesTable[local[p].file] = NoName
        BY <2>2, <3>2 DEF fillFile
      <4> QED BY <1>1, <2>2, <4>1, FilesKeepLinks
    <3> QED BY <3>1, <3>2
  <2>3. CASE newMQ(p)
    BY <1>1, <2>3, newMQKeepsLinks
  <2>4. CASE countMQ(p) \/ addFile(p)
    BY <1>2, <2>4, OpenLeavesLinks
  <2>5. CASE markAccessStore(p)
    BY <1>1, <2>5, markAccessStoreKeepsLinks
  <2>6. CASE Link(p)
    BY <1>1, <2>6, LinkKeepsLinks
  <2> QED BY <1>3, <2>1, <2>2, <2>3, <2>4, <2>5, <2>6 DEF Open
<1>4. CASE Close(p)
  <2>1. CASE CloseLock(p) \/ CloseUnlock(p) \/ removeFile(p)
    BY <1>2, <2>1, CloseEdgesLeaveLinks
  <2>2. CASE Unmark(p)
    BY <1>1, <2>2, UnmarkKeepsLinks
  <2>3. CASE Unlink(p)
    BY <1>2, <2>3, UnlinkLeavesLinks
  <2>4. CASE UnlinkStore(p)
    BY <1>1, <2>4, UnlinkStoreKeepsLinks
  <2>5. CASE Last(p)
    <3>1. CASE pc'[p] = "destroy"
      BY <1>1, <2>5, <3>1, LastDestroysNone
    <3>2. CASE pc'[p] # "destroy"
      BY <1>2, <2>5, <3>2, CloseLeavesLinks
    <3> QED BY <3>1, <3>2
  <2>6. CASE destroyBasicFile(p)
    BY <1>1, <2>6, FilesKeepLinks
  <2>7. CASE LoadFiles(p) \/ uncountFile(p) \/ LoadMQs(p) \/ uncountMQ(p)
    BY <1>2, <2>7, CloseLeavesLinks
  <2>8. CASE destroyMQ(p)
    BY <1>1, <2>8, destroyMQKeepsLinks
  <2> QED BY <1>4, <2>1, <2>2, <2>3, <2>4, <2>5, <2>6, <2>7, <2>8 DEF Close
<1> QED BY <1>3, <1>4 DEF Call

(* Who has ended claims nothing, and nothing but the CPU changes hands.    *)
LEMMA RestKeepsLinks ==
  ASSUME Base, Links, LinksKept, UNCHANGED <<mqs, filesTable, pc, local>>, alive' \subseteq alive,
         \A q \in alive' : fds'[q] = fds[q]
  PROVE  LinksSet'
<1>1. UNCHANGED <<mqs, filesTable, pc, local>> /\ alive' \subseteq alive /\ \A q \in alive' : fds'[q] = fds[q]
  OBVIOUS
<1>2. \A q \in Proc : \A j, k, o : Claim(q, j, k, o)' <=> Claim(q, j, k, o) /\ q \in alive'
  BY <1>1 DEF Claim
<1>3. \A j : (Uncd(j)' <=> Uncd(j)) /\ (Leavd(j)' <=> Leavd(j)) /\ (Doomed(j)' <=> Doomed(j))
  BY <1>1 DEF Uncd, Leavd, Doomed
<1>4. ClaimsHold /\ OwnersClaim /\ LinksAdd /\ LinkViews
  BY DEF Links
<1>5. ClaimsHold'
  BY <1>1, <1>2, <1>3, <1>4 DEF ClaimsHold, NamedBy
<1>6. OwnersClaim'
  <2> SUFFICES ASSUME NEW q \in alive', NEW j \in Slot, NEW k \in Ends, mqs[j].file # NULL, mqs[j][k] = q
      PROVE  \E o \in Name : Claim(q, j, k, o)'
    BY <1>1 DEF OwnersClaim
  <2>1. q \in alive /\ q \in Proc
    BY <1>1 DEF Base, StacksTyped
  <2>2. PICK o \in Name : Claim(q, j, k, o)
    BY <1>4, <2>1 DEF OwnersClaim
  <2> QED BY <1>2, <2>1, <2>2
<1>7. LinksAdd'
  BY <1>1, <1>3, <1>4 DEF LinksAdd, EndsIn, One
<1>8. LinkViews'
  <2> SUFFICES ASSUME NEW q \in Proc PROVE LinkView(pc[q], local[q])'
    BY DEF LinkViews
  <2>1. LinkView(pc[q], local[q])
    BY <1>4 DEF LinkViews
  <2>2. pc[q] \in {"mark", "markStore"} => ~Doomed(local[q].index)' /\ NamedBy(local[q].index, local[q].name)'
    BY <1>1, <1>3, <2>1 DEF LinkView, NamedBy
  <2> QED BY <1>1, <2>1, <2>2 DEF LinkView
<1> QED BY <1>5, <1>6, <1>7, <1>8 DEF LinksSet

LEMMA OthersKeepLinks ==
  ASSUME Base, Links, LinksKept, NEW p \in Proc,
         Tick(p) \/ OpenLockBusy(p) \/ CloseLockBusy(p) \/ Exit(p)
  PROVE  LinksSet'
<1>1. CASE Exit(p)
  <2>1. alive' = alive \ {p} /\ fds' = [fds EXCEPT ![p] = [d \in FD |-> Closed]]
        /\ UNCHANGED <<mqs, filesTable, pc, local>>
    BY <1>1 DEF Exit
  <2>2. alive \subseteq Proc
    BY DEF Base, StacksTyped
  <2>3. \A q \in alive' : fds'[q] = fds[q]
    BY <2>1, <2>2, Known
  <2> QED BY <2>1, <2>3, RestKeepsLinks
<1>2. CASE Tick(p) \/ OpenLockBusy(p) \/ CloseLockBusy(p)
  <2>1. UNCHANGED <<mqs, filesTable, pc, local, alive, fds>>
    BY <1>2 DEF Tick, OpenLockBusy, CloseLockBusy, Yield, tables
  <2> QED BY <2>1, RestKeepsLinks
<1> QED BY <1>1, <1>2

LEMMA InitKeepsLinks == Init => Links
<1> SUFFICES ASSUME Init PROVE LinksSet
  BY DEF Links, LinksSet
<1>1. \A q \in Proc : pc[q] = "user" /\ local[q] = NoLocals /\ fds[q] = [d \in FD |-> Closed]
  BY DEF Init
<1>2. \A i \in Slot : mqs[i] = FreeMQ /\ mqs[i].file = NULL
  BY DEF Init, FreeMQ
<1>3. ClaimsHold
  <2>1. \A q \in Proc : \A i, e, n : ~Claim(q, i, e, n)
    BY <1>1 DEF Claim, Claims, Pend, OpensAt, NoLocals
  <2> QED BY <2>1 DEF ClaimsHold
<1>4. OwnersClaim /\ LinksAdd
  BY <1>2 DEF OwnersClaim, LinksAdd
<1>5. LinkViews
  BY <1>1 DEF LinkViews, LinkView, ClosingPoints, ClosePoints
<1> QED BY <1>3, <1>4, <1>5 DEF LinksSet

LEMMA NextKeepsLinks == Base /\ Files /\ Links /\ [Next]_vars => Links'
<1> SUFFICES ASSUME Base, Files, Links, [Next]_vars, LinksKept' PROVE LinksSet'
  BY DEF Links, LinksSet
<1>1. Base'
  BY NextKeeps
<1>2. CASE UNCHANGED vars
  <2>1. UNCHANGED <<mqs, filesTable, pc, local, alive, fds, faults>>
    BY <1>2 DEF vars, tables
  <2>2. LinksKept
    BY <2>1 DEF LinksKept
  <2> QED BY <2>1, <2>2, RestKeepsLinks
<1>3. ASSUME NEW p \in Proc, Step(p) PROVE LinksSet'
  <2>1. LinksKept
    BY <1>3 DEF Step, LinksKept
  <2>2. CASE Tick(p) \/ OpenLockBusy(p) \/ CloseLockBusy(p) \/ Exit(p)
    BY <2>1, <2>2, OthersKeepLinks
  <2>3. CASE Call(p) /\ ~OpenLockBusy(p) /\ ~CloseLockBusy(p)
    BY <1>1, <2>1, <2>3, CallsKeepLinks
  <2>4. ASSUME NEW name \in Name, NEW flags \in Modes, CallOpen(p, name, flags) PROVE LinksSet'
    <3>1. Alone(p)
      BY <2>4, Known DEF CallOpen, At, Alone, tables
    <3>2. LeavesLinks(p)
      BY <2>1, <2>4, CallsLeaveLinks
    <3> QED BY <1>1, <2>1, <3>1, <3>2, LeavesKeeps, LinksStill DEF LinksSet
  <2>5. ASSUME NEW d \in FD, CallClose(p, d) PROVE LinksSet'
    <3>1. Alone(p)
      BY <2>5, Known DEF CallClose, At, Alone, tables
    <3>2. LeavesLinks(p)
      BY <2>1, <2>5, CallsLeaveLinks
    <3> QED BY <1>1, <2>1, <3>1, <3>2, LeavesKeeps, LinksStill DEF LinksSet
  <2> QED BY <1>3, <2>2, <2>3, <2>4, <2>5 DEF Step, User
<1> QED BY <1>2, <1>3 DEF Next, Ended

(* An open descriptor is a claim; so are the ends of a queue, which links  *)
(* counts.                                                                 *)
LEMMA OpensClaim ==
  ASSUME Base, NEW p \in Proc, NEW d \in FD, OpenFD(p, d)
  PROVE  /\ fds[p][d].index \in Slot /\ End(fds[p][d].flags) \in Ends /\ fds[p][d].name \in Name
         /\ Claim(p, fds[p][d].index, End(fds[p][d].flags), fds[p][d].name)
<1>1. fds[p][d] # Closed /\ DescriptorsAre(fds[p]) /\ p \in alive
  BY Known DEF OpenFD
<1>2. OpensAt(pc[p], local[p], fds[p], d)
  BY DEF OpenFD, Closing, OpensAt, ClosingPoints
<1> QED BY <1>1, <1>2 DEF DescriptorsAre, End, Ends, Claim, Claims

LEMMA LinksOpen == Base /\ Links => QueueIsOpen /\ EndIsMine
<1> SUFFICES ASSUME Base, Links, LinksKept, NEW p \in Proc, NEW d \in FD, OpenFD(p, d)
    PROVE  LeadsToQueue(p, d) /\ mqs[fds[p][d].index][End(fds[p][d].flags)] = p
  BY DEF QueueIsOpen, EndIsMine
<1> QED BY OpensClaim DEF Links, ClaimsHold, LeadsToQueue, NamedBy

LEMMA LinksAreCounted == Base /\ Links => LinksCount
<1> SUFFICES ASSUME Base, Links, LinksKept, NEW i \in Slot, mqs[i].file # NULL
    PROVE  mqs[i].links + Cardinality(Uncounted(i)) = Cardinality(EndsTaken(i)) + Cardinality(Leaving(i))
  BY DEF LinksCount
<1>1. mqs[i].links + One(Uncd(i)) = EndsIn(i) + One(Leavd(i))
  BY DEF Links, LinksAdd
<1>2. Uncounted(i) = {q \in Proc : Unc(pc[q], local[q]) /\ local[q].index = i}
  BY DEF Uncounted, Joining, Unc, Pend
<1>3. \A p, q \in Uncounted(i) : p = q
  BY <1>2, OnlyOne DEF Unc, Pend, InOpenAt, OpenPoints, ClosePoints
<1>4. Cardinality(Uncounted(i)) = One(Uncd(i))
  <2>1. CASE Uncounted(i) = {}
    <3>1. ~Uncd(i)
      BY <1>2, <2>1 DEF Uncd
    <3> QED BY <2>1, <3>1, FS_EmptySet DEF One
  <2>2. CASE Uncounted(i) # {}
    <3>1. PICK q \in Uncounted(i) : Uncounted(i) = {q}
      BY <1>3, <2>2
    <3>2. Uncd(i)
      BY <1>2, <3>1 DEF Uncd
    <3> QED BY <3>1, <3>2, FS_Singleton DEF One
  <2> QED BY <2>1, <2>2
<1>5. Leaving(i) = {q \in Proc : Leav(pc[q], local[q]) /\ local[q].index = i}
  BY DEF Leaving, Leav
<1>6. \A p, q \in Leaving(i) : p = q
  BY <1>5, OnlyOne DEF Leav, InCloseAt, ClosePoints
<1>7. Cardinality(Leaving(i)) = One(Leavd(i))
  <2>1. CASE Leaving(i) = {}
    <3>1. ~Leavd(i)
      BY <1>5, <2>1 DEF Leavd
    <3> QED BY <2>1, <3>1, FS_EmptySet DEF One
  <2>2. CASE Leaving(i) # {}
    <3>1. PICK q \in Leaving(i) : Leaving(i) = {q}
      BY <1>6, <2>2
    <3>2. Leavd(i)
      BY <1>5, <3>1 DEF Leavd
    <3> QED BY <3>1, <3>2, FS_Singleton DEF One
  <2> QED BY <2>1, <2>2
<1>8. Cardinality(EndsTaken(i)) = EndsIn(i)
  <2>1. CASE mqs[i].readPID = NoPID /\ mqs[i].writePID = NoPID
    <3>1. EndsTaken(i) = {}
      BY <2>1 DEF EndsTaken
    <3> QED BY <2>1, <3>1, FS_EmptySet DEF EndsIn, One
  <2>2. CASE mqs[i].readPID # NoPID /\ mqs[i].writePID = NoPID
    <3>1. EndsTaken(i) = {"readPID"}
      BY <2>2 DEF EndsTaken
    <3>2. Cardinality(EndsTaken(i)) = 1
      BY <3>1, FS_Singleton
    <3> QED BY <2>2, <3>2 DEF EndsIn, One
  <2>3. CASE mqs[i].readPID = NoPID /\ mqs[i].writePID # NoPID
    <3>1. EndsTaken(i) = {"writePID"}
      BY <2>3 DEF EndsTaken
    <3>2. Cardinality(EndsTaken(i)) = 1
      BY <3>1, FS_Singleton
    <3> QED BY <2>3, <3>2 DEF EndsIn, One
  <2>4. CASE mqs[i].readPID # NoPID /\ mqs[i].writePID # NoPID
    <3>1. EndsTaken(i) = {"readPID"} \cup {"writePID"} /\ "writePID" \notin {"readPID"}
      BY <2>4 DEF EndsTaken
    <3>2. IsFiniteSet({"readPID"}) /\ Cardinality({"readPID"}) = 1
      BY FS_Singleton
    <3>3. Cardinality({"readPID"} \cup {"writePID"}) = Cardinality({"readPID"}) + 1
      BY <3>1, <3>2, FS_AddElement
    <3>4. Cardinality(EndsTaken(i)) = 2
      BY <3>1, <3>2, <3>3
    <3> QED BY <2>4, <3>4 DEF EndsIn, One
  <2> QED BY <2>1, <2>2, <2>3, <2>4
<1> QED BY <1>1, <1>4, <1>7, <1>8

LEMMA TypesAreKept == Base => TypeOK
<1> SUFFICES ASSUME Base PROVE TypeOK
  OBVIOUS
<1>1. TablesTyped /\ StacksTyped /\ Recorded /\ openMutex \in {0, 1} /\ closeMutex \in {0, 1}
  BY DEF Base, Guards
<1> QED BY <1>1 DEF TypeOK, TablesTyped, StacksTyped, Recorded, Queue, Descriptor, Local

-----------------------------------------------------------------------------
(* What a search for a queue, then for a free slot and for a file has      *)
(* found: no queue it has passed has the name, and beyond there are no     *)
(* more queues than it still looks for; no slot it has passed is free.     *)
UsedFrom(i) == {j \in Slot : j >= i /\ mqs[j].file # NULL}
SearchView(x, l) ==
  /\ x = "find" => \A j \in Slot : j < l.index => ~NamedBy(j, l.name)
  /\ x = "find" /\ l.index > 0 => l.seen + Cardinality(UsedFrom(l.index)) <= numMQs
  /\ x \in {"slot", "room"} => \A j \in Slot : ~NamedBy(j, l.name)
  /\ x = "slot" => \A j \in Slot : j < l.index => mqs[j].file # NULL
Searches == faults = {} => \A q \in Proc : SearchView(pc[q], local[q])

LEMMA SlotsAreNumbers == Slot = 0..(MaxMQs - 1) /\ MaxMQs \in Nat /\ \A j \in Slot : j \in Nat
BY SizesAssumption DEF Slot

LEMMA UsedFromIs ==
  ASSUME NEW i \in Slot
  PROVE  /\ Cardinality(UsedFrom(i)) \in Nat /\ Cardinality(UsedFrom(i + 1)) \in Nat
         /\ Cardinality(UsedFrom(i)) = Cardinality(UsedFrom(i + 1)) + One(mqs[i].file # NULL)
<1>1. \A j : IsFiniteSet(UsedFrom(j)) /\ Cardinality(UsedFrom(j)) \in Nat
  <2> TAKE j
  <2>1. UsedFrom(j) \subseteq Slot
    BY DEF UsedFrom
  <2>2. IsFiniteSet(UsedFrom(j))
    BY <2>1, Numbers, FS_Subset
  <2> QED BY <2>2, FS_CardinalityType
<1>2. i \in Nat /\ Slot \subseteq Nat
  BY Numbers
<1>3. CASE mqs[i].file = NULL
  <2>1. \A j \in Slot : mqs[j].file # NULL => (j >= i <=> j >= i + 1)
    BY <1>2, <1>3, SlotsAreNumbers
  <2>2. UsedFrom(i) = UsedFrom(i + 1)
    BY <2>1 DEF UsedFrom
  <2> QED BY <1>1, <1>3, <2>2 DEF One
<1>4. CASE mqs[i].file # NULL
  <2>1. /\ \A j \in Slot : mqs[j].file # NULL /\ j >= i <=> (mqs[j].file # NULL /\ j >= i + 1) \/ j = i
        /\ ~(i >= i + 1)
    BY <1>2, <1>4, SlotsAreNumbers
  <2>3. UsedFrom(i) = UsedFrom(i + 1) \cup {i} /\ i \notin UsedFrom(i + 1)
    BY <2>1 DEF UsedFrom
  <2>2. Cardinality(UsedFrom(i + 1) \cup {i}) = Cardinality(UsedFrom(i + 1)) + 1
    BY <1>1, <2>3, FS_AddElement
  <2> QED BY <1>1, <1>4, <2>3, <2>2 DEF One
<1> QED BY <1>3, <1>4

(* From where a search is, it sees all queues that are left.               *)
LEMMA SearchSees ==
  ASSUME Base, Counts, Searches, faults = {}, NEW p \in Proc, pc[p] = "find"
  PROVE  local[p].seen + Cardinality(UsedFrom(local[p].index)) <= numMQs
<1>1. StackIs(pc[p], local[p], fds[p]) /\ local[p] \in Local /\ SearchView(pc[p], local[p])
  BY Known DEF Searches
<1>2. CASE local[p].index > 0
  BY <1>1, <1>2 DEF SearchView
<1>3. CASE ~(local[p].index > 0)
  <2>1. local[p].index = 0 /\ local[p].seen = 0
    BY <1>1, <1>3, SizesAssumption DEF StackIs, Local
  <2>2. UsedFrom(0) = QueuesUsed
    <3>1. \A j \in Slot : j >= 0
      BY SlotsAreNumbers
    <3> QED BY <3>1 DEF UsedFrom, QueuesUsed
  <2>3. ~(\E q \in Proc : pc[q] = "countMQ")
    BY OnlyOneAt DEF OpenPoints
  <2>4. numMQs + One(\E q \in Proc : pc[q] = "countMQ") =
          Cardinality(QueuesUsed) + One(\E q \in Proc : pc[q] \in {"mqsLoad", "mqsStore"})
    BY DEF Counts, CountIs
  <2>5. Cardinality(QueuesUsed) \in Nat /\ numMQs \in Nat
    <3>1. QueuesUsed \subseteq Slot
      BY DEF QueuesUsed
    <3>2. Cardinality(QueuesUsed) \in Nat
      BY <3>1, Numbers, FS_Subset, FS_CardinalityType
    <3> QED BY <3>2, WrapAssumption DEF Base, TablesTyped, Counter
  <2>6. Cardinality(QueuesUsed) <= numMQs
    <3>1. CASE \E q \in Proc : pc[q] \in {"mqsLoad", "mqsStore"}
      BY <2>3, <2>4, <2>5, <3>1 DEF One
    <3>2. CASE ~(\E q \in Proc : pc[q] \in {"mqsLoad", "mqsStore"})
      BY <2>3, <2>4, <2>5, <3>2 DEF One
    <3> QED BY <3>1, <3>2
  <2> QED BY <2>1, <2>2, <2>5, <2>6
<1> QED BY <1>2, <1>3

LEMMA indexOfMQKeepsSearch ==
  ASSUME Base, Counts, Searches, faults = {}, NEW p \in Proc, indexOfMQ(p)
  PROVE  SearchView(pc[p], local[p])'
<1> DEFINE i == local[p].index
<1>0. PICK n : n = local[p].name
  OBVIOUS
<1>1. /\ StackIs(pc[p], local[p], fds[p]) /\ local[p] \in Local /\ SearchView(pc[p], local[p])
      /\ local \in [Proc -> Local] /\ pc \in [Proc -> Point]
  BY Known DEF Searches
<1>2. pc[p] = "find" /\ mqs' = mqs /\ filesTable' = filesTable /\ numMQs' = numMQs
  BY DEF indexOfMQ, At, tables
<1>3. /\ i \in 0..MaxMQs /\ local[p].seen \in 0..MaxMQs /\ numMQs \in Nat /\ MaxMQs \in Nat
      /\ Slot = 0..(MaxMQs - 1)
      /\ \A j \in Slot : j < i => ~NamedBy(j, n)
  BY <1>0, <1>1, <1>2, SizesAssumption, WrapAssumption
     DEF StackIs, Local, Base, TablesTyped, Counter, SearchView, Slot
<1>4. local[p].seen + Cardinality(UsedFrom(i)) <= numMQs
  BY <1>2, SearchSees
<1>5. CASE local[p].seen >= numMQs \/ i = MaxMQs
  <2>1. pc'[p] = "slot" /\ local'[p].index = 0 /\ local'[p].name = n
    BY <1>0, <1>1, <1>2, <1>5 DEF indexOfMQ, Goto, Local
  <2>2. \A j \in Slot : ~NamedBy(j, n)
    <3> SUFFICES ASSUME NEW j \in Slot, j >= i, NamedBy(j, n) PROVE FALSE
      BY <1>3, Numbers
    <3>1. local[p].seen >= numMQs
      BY <1>3, <1>5
    <3>2. IsFiniteSet(UsedFrom(i))
      <4>1. UsedFrom(i) \subseteq Slot
        BY DEF UsedFrom
      <4> QED BY <4>1, Numbers, FS_Subset
    <3>3. Cardinality(UsedFrom(i)) \in Nat
      BY <3>2, FS_CardinalityType
    <3>4. Cardinality(UsedFrom(i)) = 0
      BY <1>3, <1>4, <3>1, <3>3
    <3>5. UsedFrom(i) = {}
      BY <3>2, <3>4, FS_EmptySet
    <3>6. j \in UsedFrom(i)
      BY DEF UsedFrom, NamedBy
    <3> QED BY <3>5, <3>6
  <2>3. \A j \in Slot : ~NamedBy(j, n)'
    BY <1>2, <2>2 DEF NamedBy
  <2>4. \A j \in Slot : ~(j < 0)
    BY Numbers
  <2> QED BY <2>1, <2>3, <2>4 DEF SearchView
<1>6. CASE ~(local[p].seen >= numMQs \/ i = MaxMQs)
  <2>1. i \in Slot
    BY <1>3, <1>6
  <2>2. CASE mqs[i].file # NULL /\ filesTable[mqs[i].file] = n
    <3>1. pc'[p] = "mark"
      BY <1>0, <1>1, <1>6, <2>2 DEF indexOfMQ, Goto
    <3> QED BY <3>1 DEF SearchView
  <2>3. CASE ~(mqs[i].file # NULL /\ filesTable[mqs[i].file] = n)
    <3>1. /\ pc' = pc /\ local'[p].index = i + 1 /\ local'[p].name = n
          /\ local'[p].seen = IF mqs[i].file = NULL THEN local[p].seen ELSE local[p].seen + 1
      BY <1>0, <1>1, <1>6, <2>3 DEF indexOfMQ, Local
    <3>2. \A j \in Slot : j < i + 1 => ~NamedBy(j, n)
      <4>1. ~NamedBy(i, n)
        BY <2>3 DEF NamedBy
      <4> QED BY <1>3, <4>1
    <3>3. \A j \in Slot : j < i + 1 => ~NamedBy(j, n)'
      BY <1>2, <3>2 DEF NamedBy
    <3>4. Cardinality(UsedFrom(i)) = Cardinality(UsedFrom(i + 1)) + One(mqs[i].file # NULL)
          /\ Cardinality(UsedFrom(i + 1)) \in Nat
      BY <2>1, UsedFromIs
    <3>5. local'[p].seen + Cardinality(UsedFrom(i + 1)) <= numMQs
      BY <1>3, <1>4, <3>1, <3>4 DEF One
    <3>6. \A k : UsedFrom(k)' = UsedFrom(k)
      BY <1>2 DEF UsedFrom
    <3> HIDE DEF i
    <3>7. Cardinality(UsedFrom(local[p].index)') = Cardinality(UsedFrom(i + 1))
      <4> DEFINE k == i + 1
      <4>1. local'[p].index = k
        BY <3>1
      <4>2. UsedFrom(local[p].index)' = {j \in Slot : j >= local'[p].index /\ mqs'[j].file # NULL}
        BY DEF UsedFrom
      <4>3. UsedFrom(local[p].index)' = UsedFrom(k)
        BY <1>2, <4>1, <4>2 DEF UsedFrom
      <4> QED BY <4>3
    <3> QED BY <1>2, <3>1, <3>3, <3>5, <3>7 DEF SearchView
  <2> QED BY <2>2, <2>3
<1> QED BY <1>5, <1>6

LEMMA findFreeSlotKeepsSearch ==
  ASSUME Base, Searches, faults = {}, NEW p \in Proc, findFreeSlot(p)
  PROVE  SearchView(pc[p], local[p])'
<1> DEFINE i == local[p].index
<1>0. PICK n : n = local[p].name
  OBVIOUS
<1>1. /\ StackIs(pc[p], local[p], fds[p]) /\ local[p] \in Local /\ SearchView(pc[p], local[p])
      /\ local \in [Proc -> Local] /\ pc \in [Proc -> Point]
  BY Known DEF Searches
<1>2. pc[p] = "slot" /\ mqs' = mqs /\ filesTable' = filesTable /\ numMQs' = numMQs
  BY DEF findFreeSlot, At, tables
<1>3. /\ i \in 0..MaxMQs /\ MaxMQs \in Nat /\ Slot = 0..(MaxMQs - 1)
      /\ \A j \in Slot : ~NamedBy(j, n) /\ (j < i => mqs[j].file # NULL)
  BY <1>0, <1>1, <1>2, SizesAssumption DEF StackIs, SearchView, Slot
<1>4. \A j \in Slot : ~NamedBy(j, n)'
  BY <1>2, <1>3 DEF NamedBy
<1>5. CASE i = MaxMQs
  <2>1. pc'[p] = "openUnlock"
    BY <1>1, <1>5 DEF findFreeSlot, Goto
  <2> QED BY <2>1 DEF SearchView
<1>6. CASE i # MaxMQs /\ mqs[i].file = NULL
  <2>1. pc'[p] = "room" /\ local' = local
    BY <1>1, <1>6 DEF findFreeSlot, Goto
  <2> QED BY <1>0, <1>4, <2>1 DEF SearchView
<1>7. CASE i # MaxMQs /\ mqs[i].file # NULL
  <2>1. pc' = pc /\ local'[p].index = i + 1 /\ local'[p].name = n
    BY <1>0, <1>1, <1>7 DEF findFreeSlot, Local
  <2>2. \A j \in Slot : j < i + 1 => mqs[j].file # NULL
    BY <1>3, <1>7
  <2> QED BY <1>2, <1>4, <2>1, <2>2 DEF SearchView
<1> QED BY <1>5, <1>6, <1>7

-----------------------------------------------------------------------------
(* What a search has found stays so: names are erased, not given; and a    *)
(* queue or a count goes only where no search sees it.                     *)
Spares(p) ==
  /\ \A j \in Slot, n \in Name : NamedBy(j, n)' => NamedBy(j, n)
  /\ pc[p] # "free" => \A j \in Slot : (mqs'[j].file # NULL) <=> (mqs[j].file # NULL)
  /\ pc[p] # "mqsStore" => numMQs' = numMQs

LEMMA CloseSpares ==
  ASSUME Base, NEW p \in Proc, Close(p)
  PROVE  Spares(p)
<1>1. mqs \in [Slot -> Queue] /\ filesTable \in [FileSlot -> Name \cup {NoName}] /\ NoName \notin Name
  BY NameAssumption DEF Base, TablesTyped
<1>2. CASE \/ CloseLock(p) \/ CloseLockBusy(p) \/ Unlink(p) \/ Last(p) \/ LoadFiles(p) \/ uncountFile(p)
           \/ LoadMQs(p) \/ CloseUnlock(p) \/ removeFile(p)
  <2>1. mqs' = mqs /\ filesTable' = filesTable /\ numMQs' = numMQs
    BY <1>2 DEF CloseLock, CloseLockBusy, Unlink, Last, LoadFiles, uncountFile, LoadMQs, CloseUnlock,
                removeFile, Yield, tables
  <2> QED BY <2>1 DEF Spares, NamedBy
<1>3. CASE uncountMQ(p)
  <2>1. mqs' = mqs /\ filesTable' = filesTable /\ pc[p] = "mqsStore"
    BY <1>3 DEF uncountMQ, At
  <2> QED BY <2>1 DEF Spares, NamedBy
<1>4. CASE Unmark(p) \/ UnlinkStore(p)
  <2>1. /\ filesTable' = filesTable /\ numMQs' = numMQs
        /\ \A j \in Slot : mqs'[j].file = mqs[j].file
    BY <1>1, <1>4 DEF Unmark, UnlinkStore, Queue
  <2> QED BY <2>1 DEF Spares, NamedBy
<1>5. CASE destroyMQ(p)
  <2>1. /\ filesTable' = filesTable /\ numMQs' = numMQs /\ pc[p] = "free"
        /\ \A j \in Slot : mqs'[j].file = mqs[j].file \/ mqs'[j].file = NULL
    BY <1>1, <1>5 DEF destroyMQ, At, Queue
  <2> QED BY <2>1 DEF Spares, NamedBy
<1>6. CASE destroyBasicFile(p)
  <2>1. mqs' = mqs /\ numMQs' = numMQs /\ \A f \in FileSlot : filesTable'[f] \in {filesTable[f], NoName}
    BY <1>1, <1>6 DEF destroyBasicFile
  <2>2. \A j \in Slot, n \in Name : NamedBy(j, n)' => NamedBy(j, n)
    <3> SUFFICES ASSUME NEW j \in Slot, NEW n \in Name, NamedBy(j, n)' PROVE NamedBy(j, n)
      OBVIOUS
    <3>1. mqs[j].file # NULL /\ filesTable'[mqs[j].file] = n
      BY <2>1 DEF NamedBy
    <3>2. mqs[j].file \in FileSlot
      BY <1>1, <3>1 DEF Queue
    <3> QED BY <1>1, <2>1, <3>1, <3>2 DEF NamedBy
  <2> QED BY <2>1, <2>2 DEF Spares
<1> QED BY <1>2, <1>3, <1>4, <1>5, <1>6 DEF Close

LEMMA SearchStill ==
  ASSUME Base, faults = {}, NEW p \in Proc, NEW q \in Proc, Spares(p),
         SearchView(pc[q], local[q]), pc'[q] = pc[q], local'[q] = local[q]
  PROVE  SearchView(pc[q], local[q])'
<1>1. StackIs(pc[q], local[q], fds[q]) /\ local[q] \in Local
  BY Known
<1>2. pc[q] \in {"find", "slot"} /\ local[q].index > 0 => pc[p] \notin {"free", "mqsStore"}
  <2>1. Fault(q, p) = {}
    BY DEF Base, Recorded, Faulty
  <2> QED BY <2>1 DEF Fault
<1>3. \A j \in Slot : pc[q] \in {"find", "slot", "room"} => (NamedBy(j, local[q].name)' => NamedBy(j, local[q].name))
  <2> SUFFICES ASSUME NEW j \in Slot, pc[q] \in {"find", "slot", "room"}, NamedBy(j, local[q].name)'
      PROVE  NamedBy(j, local[q].name)
    OBVIOUS
  <2>1. PICK n \in Name : n = local[q].name
    BY <1>1 DEF StackIs, OpenPoints
  <2>2. NamedBy(j, n)'
    BY <2>1 DEF NamedBy
  <2>3. NamedBy(j, n)
    BY <2>2 DEF Spares
  <2> QED BY <2>1, <2>3
<1>4. pc[q] = "find" /\ local[q].index > 0 =>
        local[q].seen + Cardinality(UsedFrom(local[q].index)') <= numMQs'
  <2> SUFFICES ASSUME pc[q] = "find", local[q].index > 0
      PROVE  local[q].seen + Cardinality(UsedFrom(local[q].index)') <= numMQs'
    OBVIOUS
  <2>1. /\ \A j \in Slot : (mqs'[j].file # NULL) <=> (mqs[j].file # NULL)
        /\ numMQs' = numMQs
    BY <1>2 DEF Spares
  <2>2. UsedFrom(local[q].index)' = UsedFrom(local[q].index)
    BY <2>1 DEF UsedFrom
  <2> QED BY <2>1, <2>2 DEF SearchView
<1>5. pc[q] = "slot" => \A j \in Slot : j < local[q].index => mqs'[j].file # NULL
  <2> SUFFICES ASSUME pc[q] = "slot", NEW j \in Slot, j < local[q].index PROVE mqs'[j].file # NULL
    OBVIOUS
  <2>1. local[q].index > 0
    BY <1>1, SlotsAreNumbers DEF StackIs
  <2> QED BY <1>2, <2>1 DEF Spares, SearchView
<1> QED BY <1>3, <1>4, <1>5 DEF SearchView

LEMMA InitKeepsSearches == Init => Searches
BY DEF Init, Searches, SearchView

LEMMA CallsKeepSearches ==
  ASSUME Base, Counts, faults = {}, Searches, NEW p \in Proc, Call(p), ~OpenLockBusy(p), ~CloseLockBusy(p),
         NEW q \in Proc
  PROVE  SearchView(pc[q], local[q])'
<1>1. Alone(p)
  BY OpenAlone, CloseAlone DEF Call, Open, Close
<1>2. q # p => pc'[q] = pc[q] /\ local'[q] = local[q]
  BY <1>1 DEF Alone
<1>3. CASE pc'[q] \notin {"find", "slot", "room"}
  BY <1>3 DEF SearchView
<1>4. CASE Open(p) /\ q # p
  <2>1. CASE OpenLock(p)
    <3>1. mqs' = mqs /\ filesTable' = filesTable /\ numMQs' = numMQs
      BY <2>1 DEF OpenLock, tables
    <3>2. Spares(p)
      BY <3>1 DEF Spares, NamedBy
    <3> QED BY <1>2, <1>4, <3>2, SearchStill DEF Searches
  <2>2. CASE ~OpenLock(p)
    <3>1. pc[p] \in OpenPoints \ {"openLock"}
      BY <1>4, <2>2 DEF Open, indexOfMQ, findFreeSlot, createBasicFile, fillFile, countFile, newMQ, countMQ,
                        markAccess, markAccessStore, addFile, Link, OpenUnlock, At, OpenPoints
    <3>2. pc[q] \notin OpenPoints \ {"openLock"}
      BY <1>4, <3>1, OnlyOneAt
    <3> QED BY <1>2, <1>3, <1>4, <3>2 DEF OpenPoints
  <2> QED BY <2>1, <2>2
<1>5. CASE Open(p) /\ q = p
  <2>1. CASE OpenLock(p)
    <3>1. pc'[p] = "find" /\ local'[p].index = 0
      BY <2>1, Known DEF OpenLock, Local
    <3>2. \A j \in Slot : ~(j < 0)
      BY SlotsAreNumbers
    <3> QED BY <1>5, <3>1, <3>2 DEF SearchView
  <2>2. CASE indexOfMQ(p)
    BY <1>5, <2>2, indexOfMQKeepsSearch
  <2>3. CASE findFreeSlot(p)
    BY <1>5, <2>3, findFreeSlotKeepsSearch
  <2>4. CASE \/ createBasicFile(p) \/ fillFile(p) \/ countFile(p) \/ newMQ(p) \/ countMQ(p)
             \/ markAccess(p) \/ markAccessStore(p) \/ addFile(p) \/ Link(p) \/ OpenUnlock(p)
    <3>1. pc'[p] \notin {"find", "slot", "room"}
      BY <2>4, Known DEF createBasicFile, fillFile, countFile, newMQ, countMQ, markAccess, markAccessStore,
                         addFile, Link, OpenUnlock, At
    <3> QED BY <1>3, <1>5, <3>1
  <2> QED BY <1>5, <2>1, <2>2, <2>3, <2>4 DEF Open
<1>6. CASE Close(p) /\ q = p
  <2>1. pc'[p] \notin {"find", "slot", "room"}
    BY <1>6, Known DEF Close, CloseLock, Unmark, Unlink, UnlinkStore, Last, destroyBasicFile, LoadFiles,
                       uncountFile, destroyMQ, LoadMQs, uncountMQ, CloseUnlock, removeFile, At
  <2> QED BY <1>3, <1>6, <2>1
<1>7. CASE Close(p) /\ q # p
  BY <1>2, <1>7, CloseSpares, SearchStill DEF Searches
<1> QED BY <1>4, <1>5, <1>6, <1>7 DEF Call

LEMMA NextKeepsSearches == Base /\ Counts /\ Searches /\ [Next]_vars => Searches'
<1> SUFFICES ASSUME Base, Counts, Searches, [Next]_vars, faults' = {}, NEW q \in Proc
    PROVE  SearchView(pc[q], local[q])'
  BY DEF Searches
<1>1. CASE UNCHANGED vars
  <2>1. UNCHANGED <<mqs, filesTable, numMQs, pc, local, faults>>
    BY <1>1 DEF vars, tables
  <2> QED BY <2>1 DEF Searches, SearchView, NamedBy, UsedFrom
<1>2. ASSUME NEW p \in Proc, Step(p) PROVE SearchView(pc[q], local[q])'
  <2>1. faults = {} /\ SearchView(pc[q], local[q])
    BY <1>2 DEF Step, Searches
  <2>2. CASE Call(p) /\ ~OpenLockBusy(p) /\ ~CloseLockBusy(p)
    BY <2>1, <2>2, CallsKeepSearches
  <2>3. CASE Tick(p) \/ OpenLockBusy(p) \/ CloseLockBusy(p) \/ User(p)
    <3>1. mqs' = mqs /\ filesTable' = filesTable /\ numMQs' = numMQs
      BY <2>3 DEF Tick, OpenLockBusy, CloseLockBusy, User, CallOpen, CallClose, Exit, Yield, tables
    <3>2. Spares(p)
      BY <3>1 DEF Spares, NamedBy
    <3>3. CASE pc'[q] = pc[q] /\ local'[q] = local[q]
      BY <2>1, <3>2, <3>3, SearchStill
    <3>4. CASE ~(pc'[q] = pc[q] /\ local'[q] = local[q])
      <4>1. CASE Tick(p) \/ OpenLockBusy(p) \/ CloseLockBusy(p) \/ Exit(p)
        BY <3>4, <4>1 DEF Tick, OpenLockBusy, CloseLockBusy, Exit, Yield
      <4>2. CASE (\E name \in Name, flags \in Modes : CallOpen(p, name, flags)) \/ (\E d \in FD : CallClose(p, d))
        <5>1. q = p
          <6>1. /\ pc' \in {[pc EXCEPT ![p] = "openLock"], [pc EXCEPT ![p] = "closeLock"]}
                /\ \E l : local' = [local EXCEPT ![p] = l]
            BY <4>2 DEF CallOpen, CallClose, Goto
          <6>2. pc \in [Proc -> Point] /\ local \in [Proc -> Local]
            BY Known
          <6> QED BY <3>4, <6>1, <6>2
        <5>2. pc'[q] \in {"openLock", "closeLock"}
          BY <4>2, <5>1, Known DEF CallOpen, CallClose
        <5> QED BY <5>2 DEF SearchView
      <4> QED BY <2>3, <4>1, <4>2 DEF User
    <3> QED BY <3>3, <3>4
  <2> QED BY <1>2, <2>2, <2>3 DEF Step
<1> QED BY <1>1, <1>2 DEF Next, Ended

-----------------------------------------------------------------------------
(* An end that is not free has an owner: one that has died, or another     *)
(* process that has it open.                                               *)
LEMMA TakenIsTaken ==
  ASSUME Base, Links, LinksKept, NEW p \in Proc, pc[p] = "mark", pc'[p] = "openUnlock", markAccess(p)
  PROVE  Taken(p)
<1> DEFINE i == local[p].index
           e == End(local[p].flags)
<1>1. /\ StackIs(pc[p], local[p], fds[p]) /\ LinkView(pc[p], local[p]) /\ local[p] \in Local
      /\ ClaimsHold /\ OwnersClaim
  BY Known DEF Links, LinkViews
<1>2. i \in Slot /\ e \in Ends /\ local[p].flags \in Modes /\ local[p].rollback = FALSE
  BY <1>1 DEF StackIs, Indexing, OpenPoints, ClosePoints, Undoing, End, Ends, Local
<1>3. NamedBy(i, local[p].name)
  BY <1>1 DEF LinkView
<1>4. mqs[i].file # NULL /\ mqs[i][e] # NoPID
  <2>1. mqs[i].file # NULL
    BY <1>3 DEF NamedBy
  <2>2. Goto(p, IF mqs[i].file = NULL \/ mqs[i][e] # NoPID THEN "openUnlock" ELSE "markStore")
    BY DEF markAccess
  <2> QED BY <2>1, <2>2, Known
<1>5. CASE mqs[i][e] \notin alive
  BY <1>4, <1>5 DEF Taken
<1>6. CASE mqs[i][e] \in alive
  <2>1. PICK r \in alive : r = mqs[i][e]
    BY <1>6
  <2>2. r \in Proc
    BY DEF Base, StacksTyped
  <2>3. PICK n \in Name : Claim(r, i, e, n)
    BY <1>1, <1>2, <1>4, <2>1 DEF OwnersClaim
  <2>4. n = local[p].name
    BY <1>1, <1>2, <1>3, <2>2, <2>3 DEF ClaimsHold, NamedBy
  <2>5. ~Pend(pc[r], local[r])
    <3>1. CASE r = p
      BY <1>2, <3>1 DEF Pend
    <3>2. CASE r # p
      <4>1. ~InOpenAt(pc[r], local[r].rollback)
        BY <2>2, <3>2, OnlyOne DEF InOpenAt, OpenPoints
      <4> QED BY <4>1 DEF Pend, InOpenAt, OpenPoints, ClosePoints
    <3> QED BY <3>1, <3>2
  <2>6. PICK d \in FD : OpensAt(pc[r], local[r], fds[r], d) /\ End(fds[r][d].flags) = e /\ fds[r][d].name = n
    BY <2>3, <2>5 DEF Claim, Claims
  <2>7. fds[r][d].flags \in Modes
    BY <2>2, <2>6, Known DEF OpensAt, DescriptorsAre
  <2>8. fds[r][d].flags = local[p].flags
    BY <1>2, <2>6, <2>7 DEF Modes, End
  <2>9. r # p
    BY <1>1, <2>4, <2>6 DEF StackIs, Wanting, OpenPoints
  <2> QED BY <2>2, <2>4, <2>6, <2>8, <2>9 DEF Taken
<1> QED BY <1>5, <1>6

LEMMA OpenFails ==
  ASSUME Base, Files, Links, Searches, faults = {}, NEW p \in Proc, Open(p),
         pc[p] \in {"slot", "room", "mark"}, pc'[p] = "openUnlock"
  PROVE  Taken(p) \/ NothingLeft \/ \E f \in orphans : filesTable[f] = local[p].name
<1>1. SearchView(pc[p], local[p]) /\ StackIs(pc[p], local[p], fds[p]) /\ local[p] \in Local
  BY Known DEF Searches
<1>2. CASE pc[p] = "slot"
  <2>1. findFreeSlot(p)
    BY <1>2 DEF Open, OpenLock, OpenLockBusy, indexOfMQ, createBasicFile, fillFile, countFile, newMQ, countMQ,
                markAccess, markAccessStore, addFile, Link, OpenUnlock, At
  <2>2. local[p].index = MaxMQs
    BY <2>1, Known DEF findFreeSlot
  <2>3. \A i \in Slot : i < local[p].index
    BY <2>2, SlotsAreNumbers
  <2> QED BY <1>1, <1>2, <2>3 DEF SearchView, NothingLeft
<1>3. CASE pc[p] = "room"
  <2>1. createBasicFile(p)
    BY <1>3 DEF Open, OpenLock, OpenLockBusy, indexOfMQ, findFreeSlot, fillFile, countFile, newMQ, countMQ,
                markAccess, markAccessStore, addFile, Link, OpenUnlock, At
  <2>2. CASE numFiles >= MaxFiles
    BY <2>2 DEF NothingLeft
  <2>3. CASE ~(numFiles >= MaxFiles)
    <3>1. PICK f \in FileSlot : filesTable[f] = local[p].name
      BY <2>1, <2>3, Known DEF createBasicFile
    <3>2. local[p].name \in Name /\ local[p].name # NoName
      BY <1>1, <1>3, NameAssumption DEF StackIs, OpenPoints
    <3>3. ~(\E i \in Slot : mqs[i].file = f /\ ~Erased(i))
      <4>1. f # NULL
        BY Numbers
      <4> QED BY <1>1, <1>3, <3>1, <4>1 DEF SearchView, NamedBy
    <3>4. ~Filled(f)
      <4>1. \A q \in Proc : pc[q] \notin Filling
        BY <1>3, OnlyOneAt DEF Filling, OpenPoints
      <4> QED BY <4>1 DEF Filled
    <3>5. f \in orphans
      BY <3>1, <3>2, <3>3, <3>4 DEF Files, FilesKept
    <3> QED BY <3>1, <3>5
  <2> QED BY <2>2, <2>3
<1>4. CASE pc[p] = "mark"
  <2>1. markAccess(p)
    BY <1>4 DEF Open, OpenLock, OpenLockBusy, indexOfMQ, createBasicFile, findFreeSlot, fillFile, countFile,
                newMQ, countMQ, markAccessStore, addFile, Link, OpenUnlock, At
  <2>2. LinksKept
    BY DEF LinksKept
  <2> QED BY <1>4, <2>1, <2>2, TakenIsTaken
<1> QED BY <1>2, <1>3, <1>4

(* The descriptor a name leads to, the end that is one's own, the counts   *)
(* and the reasons to fail, whatever the interleaving, as long as what     *)
(* they depend on has not gone wrong.                                      *)
LEMMA Keeps == Spec => [](Base /\ Files /\ Counts /\ Links /\ Searches)
<1>1. Init => Base /\ Files /\ Counts /\ Links /\ Searches
  BY InitKeeps, InitKeepsFiles, InitKeepsCounts, InitKeepsLinks, InitKeepsSearches
<1>2. Base /\ Files /\ Counts /\ Links /\ Searches /\ [Next]_vars => (Base /\ Files /\ Counts /\ Links /\ Searches)'
  BY NextKeeps, NextKeepsFiles, NextKeepsCounts, NextKeepsLinks, NextKeepsSearches
<1> QED BY <1>1, <1>2, PTL DEF Spec

THEOREM QueuesStayOpen == Spec => []QueueIsOpen
<1>1. Base /\ Links => QueueIsOpen
  BY LinksOpen
<1> QED BY <1>1, Keeps, PTL

THEOREM EndsStayMine == Spec => []EndIsMine
<1>1. Base /\ Links => EndIsMine
  BY LinksOpen
<1> QED BY <1>1, Keeps, PTL

THEOREM TablesStayAgreed == Spec => []TablesAgree
<1>1. Base /\ Files /\ Counts /\ Links => TablesAgree
  BY TypesAreKept, LinksAreCounted, CountsCount, FilesAreBacked DEF TablesAgree
<1> QED BY <1>1, Keeps, PTL

THEOREM OpensFailForAReason == Spec => OpenFailsForAReason
<1> DEFINE A == faults' = {} => \A p \in Proc :
                  pc[p] \in {"slot", "room", "mark"} /\ pc'[p] = "openUnlock" =>
                    Taken(p) \/ NothingLeft \/ \E f \in orphans : filesTable[f] = local[p].name
<1>1. Base /\ Files /\ Counts /\ Links /\ Searches /\ [Next]_vars => [A]_vars
  <2> SUFFICES ASSUME Base, Files, Links, Searches, Next, faults' = {},
                      NEW p \in Proc, pc[p] \in {"slot", "room", "mark"}, pc'[p] = "openUnlock"
      PROVE  Taken(p) \/ NothingLeft \/ \E f \in orphans : filesTable[f] = local[p].name
    OBVIOUS
  <2>1. PICK q \in Proc : Step(q)
    BY DEF Next, Ended, vars
  <2>2. faults = {}
    BY <2>1 DEF Step
  <2>3. Open(p)
    <3>1. CASE Tick(q) \/ OpenLockBusy(q) \/ CloseLockBusy(q) \/ Exit(q)
      BY <3>1 DEF Tick, OpenLockBusy, CloseLockBusy, Exit, Yield
    <3>2. ASSUME Call(q), ~OpenLockBusy(q), ~CloseLockBusy(q) PROVE Open(p)
      <4>1. Alone(q)
        BY <3>2, OpenAlone, CloseAlone DEF Call, Open, Close
      <4>2. q = p
        BY <4>1 DEF Alone
      <4>3. ~Close(p)
        BY DEF Close, CloseLock, CloseLockBusy, Unmark, Unlink, UnlinkStore, Last, destroyBasicFile, LoadFiles,
               uncountFile, destroyMQ, LoadMQs, uncountMQ, CloseUnlock, removeFile, At
      <4> QED BY <3>2, <4>2, <4>3 DEF Call
    <3>3. CASE (\E name \in Name, flags \in Modes : CallOpen(q, name, flags)) \/ (\E d \in FD : CallClose(q, d))
      <4>1. pc'[q] \in {"openLock", "closeLock"} /\ \A r \in Proc \ {q} : pc'[r] = pc[r]
        BY <3>3, Known DEF CallOpen, CallClose
      <4> QED BY <4>1
    <3> QED BY <2>1, <3>1, <3>2, <3>3 DEF Step, User
  <2> QED BY <2>2, <2>3, OpenFails
<1> QED BY <1>1, Keeps, PTL DEF Spec, OpenFailsForAReason

-----------------------------------------------------------------------------
(* The bytes of a queue: what holds of a BasicFile of every size, for every*)
(* alphabet and every length of calls.                                     *)

(* The rest of the inductive invariant: what the first half of             *)
(* basicFileIsFull answered stays true during the second, and what a       *)
(* process carries in a local is what its slot holds.                      *)
InFlight ==
  /\ wpc = "test2" => ~IsFull1
  /\ rpc = "advance" => c = stream[readIndex]
  /\ wpc = "advance" => stream[writeIndex] = char

IndInv == AnswersStayTrue /\ InFlight

-----------------------------------------------------------------------------
(* basicFileReadChar and basicFileWriteChar never leave the file: both     *)
(* indices stay below file->size, and every local keeps its type.          *)
THEOREM FileTypeCorrect == FileSpec => []FileTypeOK
<1> USE SizeAssumption, MaxBytesAssumption DEF Index, RPC, WPC
<1>1. FileInit => FileTypeOK
  BY DEF FileInit, FileTypeOK
<1>2. FileTypeOK /\ [FileNext]_fileVars => FileTypeOK'
  <2> SUFFICES ASSUME FileTypeOK, [FileNext]_fileVars PROVE FileTypeOK'
    OBVIOUS
  <2> USE DEF FileTypeOK, file, reader, writer
  <2>1. CASE ReadCall
    BY <2>1 DEF ReadCall
  <2>2. CASE ReadTest
    BY <2>2 DEF ReadTest
  <2>3. CASE ReadCheck
    BY <2>3 DEF ReadCheck
  <2>4. CASE ReadLoad
    BY <2>4 DEF ReadLoad
  <2>5. CASE ReadAdvance
    BY <2>5 DEF ReadAdvance, Advance
  <2>6. CASE ReadDeliver
    BY <2>6 DEF ReadDeliver
  <2>7. CASE WriteCall
    BY <2>7 DEF WriteCall
  <2>8. CASE WriteTest1
    BY <2>8 DEF WriteTest1, WhenFull
  <2>9. CASE WriteTest2
    BY <2>9 DEF WriteTest2, WhenFull
  <2>10. CASE WriteCheck1
    BY <2>10 DEF WriteCheck1
  <2>11. CASE WriteCheck2
    BY <2>11 DEF WriteCheck2
  <2>12. CASE WriteStore
    BY <2>12 DEF WriteStore
  <2>13. CASE WriteAdvance
    BY <2>13 DEF WriteAdvance, Advance
  <2>14. CASE WriteCount
    BY <2>14 DEF WriteCount
  <2>15. CASE UNCHANGED fileVars
    BY <2>15 DEF fileVars
  <2>. QED
    BY <2>1, <2>2, <2>3, <2>4, <2>5, <2>6, <2>7, <2>8, <2>9, <2>10, <2>11,
       <2>12, <2>13, <2>14, <2>15 DEF FileNext, Reader, Writer
<1>. QED
  BY <1>1, <1>2, PTL DEF FileSpec

-----------------------------------------------------------------------------
(* The reader can only empty the file and the writer only fill it, so that *)
(* neither takes back an answer the other was given.                       *)
LEMMA IndInvStep == FileTypeOK /\ IndInv /\ [FileNext]_fileVars => IndInv'
<1> SUFFICES ASSUME FileTypeOK, IndInv, [FileNext]_fileVars PROVE IndInv'
  OBVIOUS
<1> USE SizeAssumption DEF Index, FileTypeOK, IndInv, AnswersStayTrue, InFlight,
        IsEmpty, IsFull1, IsFull2, file, reader, writer
<1>1. CASE ReadCall
  BY <1>1 DEF ReadCall
<1>2. CASE ReadTest
  BY <1>2 DEF ReadTest
<1>3. CASE ReadCheck
  BY <1>3 DEF ReadCheck
<1>4. CASE ReadLoad
  BY <1>4 DEF ReadLoad
<1>5. CASE ReadAdvance
  BY <1>5 DEF ReadAdvance, Advance
<1>6. CASE ReadDeliver
  BY <1>6 DEF ReadDeliver
<1>7. CASE WriteCall
  BY <1>7 DEF WriteCall
<1>8. CASE WriteTest1
  BY <1>8 DEF WriteTest1, WhenFull
<1>9. CASE WriteTest2
  BY <1>9 DEF WriteTest2, WhenFull
<1>10. CASE WriteCheck1
  BY <1>10 DEF WriteCheck1
<1>11. CASE WriteCheck2
  BY <1>11 DEF WriteCheck2
<1>12. CASE WriteStore
  BY <1>12 DEF WriteStore
<1>13. CASE WriteAdvance
  BY <1>13 DEF WriteAdvance, Advance
<1>14. CASE WriteCount
  BY <1>14 DEF WriteCount
<1>15. CASE UNCHANGED fileVars
  BY <1>15 DEF fileVars
<1>. QED
  BY <1>1, <1>2, <1>3, <1>4, <1>5, <1>6, <1>7, <1>8, <1>9, <1>10, <1>11,
     <1>12, <1>13, <1>14, <1>15 DEF FileNext, Reader, Writer

(* The strengthened invariant holds of every execution.                    *)
LEMMA IndInvHolds == FileSpec => []IndInv
<1>1. FileInit => IndInv
  BY DEF FileInit, IndInv, AnswersStayTrue, InFlight
<1>. QED
  BY <1>1, FileTypeCorrect, IndInvStep, PTL DEF FileSpec

(* IS_EMPTY and IS_FULL can be acted upon: the second test of              *)
(* basicFileReadChar and of basicFileWriteChar never fails.                *)
THEOREM AnswersCanBeTrusted == FileSpec => []AnswersStayTrue
<1>1. IndInv => AnswersStayTrue
  BY DEF IndInv
<1>. QED
  BY <1>1, IndInvHolds, PTL

(* The reader never loads from the slot the writer is storing to.          *)
THEOREM NoRace == FileSpec => []NoSlotRace
<1>1. AnswersStayTrue => NoSlotRace
  BY DEF AnswersStayTrue, NoSlotRace, IsEmpty
<1>. QED
  BY <1>1, AnswersCanBeTrusted, PTL

-----------------------------------------------------------------------------
(* The file's contents are a sequence of at most Size - 1 bytes.           *)
LEMMA ContentsType ==
  ASSUME FileTypeOK
  PROVE  /\ Count \in 0..(Size - 1)
         /\ \A i \in 1..Count : SlotOf(i) \in Index
         /\ Contents \in Seq(Byte)
         /\ Len(Contents) = Count
         /\ \A i \in 1..Count : Contents[i] = stream[SlotOf(i)]
<1> USE SizeAssumption
<1>1. Count \in 0..(Size - 1) /\ \A i \in 1..Count : SlotOf(i) \in Index
  BY DEF FileTypeOK, Index, Count, SlotOf
<1>2. \A i \in 1..Count : stream[SlotOf(i)] \in Byte
  BY <1>1 DEF FileTypeOK
<1>3. Contents \in Seq(Byte)
  BY <1>1, <1>2 DEF Contents
<1>4. DOMAIN Contents = 1..Count
  BY DEF Contents
<1>5. Len(Contents) = Count
  BY <1>1, <1>3, <1>4, LenProperties
<1>. QED
  BY <1>1, <1>3, <1>5 DEF Contents

(* Taking the byte at readIndex is taking the oldest one.                  *)
LEMMA ReadAdvanceGets ==
  ASSUME FileTypeOK, FileTypeOK', IndInv, ReadAdvance
  PROVE  FIFO!Get
<1> USE SizeAssumption
<1>1. Count > 0 /\ SlotOf(1) = readIndex
  BY DEF FileTypeOK, Index, IndInv, AnswersStayTrue, ReadAdvance, IsEmpty, Count, SlotOf
<1>2. Contents # <<>> /\ Head(Contents) = c
  BY <1>1, ContentsType DEF IndInv, InFlight, ReadAdvance
<1>3. LastTaken' = Head(Contents)
  BY <1>2 DEF ReadAdvance, LastTaken
<1>4. Contents' = Tail(Contents)
  <2>1. Count' = Count - 1 /\ \A i \in 1..Count' : SlotOf(i)' = SlotOf(i + 1)
    BY <1>1 DEF FileTypeOK, Index, ReadAdvance, Advance, Count, SlotOf
  <2>2. \A i \in 1..Count' : Contents'[i] = stream[SlotOf(i + 1)]
    BY <2>1 DEF Contents, ReadAdvance
  <2>3. Contents' \in Seq(Byte) /\ Len(Contents') = Count - 1
    <3>1. Contents' = [i \in 1..(Count - 1) |-> stream[SlotOf(i + 1)]]
      BY <2>1 DEF Contents, ReadAdvance
    <3>2. Count - 1 \in Nat /\ \A i \in 1..(Count - 1) : stream[SlotOf(i + 1)] \in Byte
      BY <1>1, ContentsType DEF FileTypeOK
    <3>. QED
      BY <3>1, <3>2
  <2>4. /\ Tail(Contents) \in Seq(Byte)
        /\ Len(Tail(Contents)) = Count - 1
        /\ \A i \in 1..(Count - 1) : Tail(Contents)[i] = stream[SlotOf(i + 1)]
    BY <1>1, <1>2, ContentsType, HeadTailProperties
  <2>. QED
    BY <2>1, <2>2, <2>3, <2>4, SeqEqual
<1>. QED
  BY <1>2, <1>3, <1>4 DEF FIFO!Get

(* Moving writeIndex past a stored byte is putting it at the end.          *)
LEMMA WriteAdvancePuts ==
  ASSUME FileTypeOK, FileTypeOK', IndInv, WriteAdvance
  PROVE  FIFO!Put(char)
<1> USE SizeAssumption
<1>1. Count < Size - 1
  BY DEF FileTypeOK, Index, IndInv, AnswersStayTrue, WriteAdvance, IsFull1, IsFull2, Count
<1>2. Len(Contents) < Size - 1
  BY <1>1, ContentsType
<1>3. LastTaken' = LastTaken
  BY DEF WriteAdvance, LastTaken, reader
<1>4. Contents' = Append(Contents, char)
  <2>1. /\ Count' = Count + 1
        /\ \A i \in 1..Count : SlotOf(i)' = SlotOf(i)
        /\ SlotOf(Count)' = writeIndex
    BY <1>1 DEF FileTypeOK, Index, WriteAdvance, Advance, Count, SlotOf
  <2>2. /\ \A i \in 1..Count : Contents'[i] = stream[SlotOf(i)]
        /\ Contents'[Count + 1] = char
    BY <2>1, ContentsType DEF Contents, WriteAdvance, IndInv, InFlight
  <2>3. Contents' \in Seq(Byte) /\ Len(Contents') = Count + 1
    <3>1. DOMAIN Contents' = 1..(Count + 1)
      BY <2>1 DEF Contents
    <3>2. Contents' = [i \in 1..(Count + 1) |-> Contents'[i]]
      BY <3>1 DEF Contents
    <3>3. \A i \in 1..(Count + 1) : Contents'[i] \in Byte
      <4>1. \A i \in 1..Count : stream[SlotOf(i)] \in Byte
        BY ContentsType DEF FileTypeOK
      <4>2. \A i \in 1..(Count + 1) : i \in 1..Count \/ i = Count + 1
        BY ContentsType
      <4>3. char \in Byte
        BY DEF FileTypeOK
      <4>. QED
        BY <2>2, <4>1, <4>2, <4>3
    <3>4. Count + 1 \in Nat
      BY ContentsType
    <3>. QED
      BY <3>2, <3>3, <3>4
  <2>4. /\ Append(Contents, char) \in Seq(Byte)
        /\ Len(Append(Contents, char)) = Count + 1
        /\ \A i \in 1..Count : Append(Contents, char)[i] = stream[SlotOf(i)]
        /\ Append(Contents, char)[Count + 1] = char
    BY ContentsType, AppendProperties DEF FileTypeOK
  <2>5. \A i \in 1..(Count + 1) : Contents'[i] = Append(Contents, char)[i]
    BY <2>2, <2>4, ContentsType
  <2>. QED
    BY <2>3, <2>4, <2>5, SeqEqual
<1>. QED
  BY <1>2, <1>3, <1>4 DEF FIFO!Put

(* A store goes to the one slot that holds no byte of the contents.        *)
LEMMA WriteStoreStutters ==
  ASSUME FileTypeOK, IndInv, WriteStore
  PROVE  UNCHANGED FIFO!vars
<1>1. Count' = Count /\ \A i \in 1..Count : SlotOf(i)' = SlotOf(i)
  BY DEF WriteStore, Count, SlotOf
<1>2. \A i \in 1..Count : SlotOf(i) # writeIndex
  BY SizeAssumption DEF FileTypeOK, Index, IndInv, AnswersStayTrue, WriteStore,
     IsFull1, IsFull2, Count, SlotOf
<1>3. \A i \in 1..Count : stream'[SlotOf(i)] = stream[SlotOf(i)]
  BY <1>2, ContentsType DEF WriteStore, FileTypeOK
<1>4. Contents' = Contents
  BY <1>1, <1>3 DEF Contents
<1>. QED
  BY <1>4 DEF WriteStore, reader, LastTaken, FIFO!vars

(* Every step other than these three leaves the FIFO as it is.             *)
LEMMA OthersStutter ==
  ASSUME FileTypeOK, IndInv, UNCHANGED <<stream, writeIndex, readIndex>>,
         \/ UNCHANGED <<rpc, c, got>>
         \/ rpc # "deliver" /\ rpc' # "deliver" /\ UNCHANGED got
         \/ rpc = "deliver" /\ rpc' # "deliver" /\ got' = c
  PROVE  UNCHANGED FIFO!vars
<1>1. Contents' = Contents
  BY DEF Contents, Count, SlotOf
<1>2. LastTaken' = LastTaken
  BY DEF LastTaken
<1>. QED
  BY <1>1, <1>2 DEF FIFO!vars

(* Two processes that read and write a file without a lock see a bounded   *)
(* FIFO of its size less one, whatever the timer does.                     *)
THEOREM FileIsFIFO == FileSpec => ImplementsFIFO
<1>1. FileInit => FIFO!Init
  BY SizeAssumption DEF FileInit, FIFO!Init, Contents, Count
<1>2. FileTypeOK /\ FileTypeOK' /\ IndInv /\ [FileNext]_fileVars => [FIFO!Next]_(FIFO!vars)
  <2> SUFFICES ASSUME FileTypeOK, FileTypeOK', IndInv, [FileNext]_fileVars
               PROVE  FIFO!Next \/ UNCHANGED FIFO!vars
    OBVIOUS
  <2> USE DEF file, reader, writer
  <2>1. CASE ReadCall
    BY <2>1, OthersStutter DEF ReadCall
  <2>2. CASE ReadTest
    BY <2>2, OthersStutter DEF ReadTest
  <2>3. CASE ReadCheck
    BY <2>3, OthersStutter DEF ReadCheck, IndInv, AnswersStayTrue
  <2>4. CASE ReadLoad
    BY <2>4, OthersStutter DEF ReadLoad
  <2>5. CASE ReadAdvance
    BY <2>5, ReadAdvanceGets DEF FIFO!Next
  <2>6. CASE ReadDeliver
    BY <2>6, OthersStutter DEF ReadDeliver
  <2>7. CASE WriteCall
    BY <2>7, OthersStutter DEF WriteCall
  <2>8. CASE WriteTest1
    BY <2>8, OthersStutter DEF WriteTest1
  <2>9. CASE WriteTest2
    BY <2>9, OthersStutter DEF WriteTest2
  <2>10. CASE WriteCheck1
    BY <2>10, OthersStutter DEF WriteCheck1
  <2>11. CASE WriteCheck2
    BY <2>11, OthersStutter DEF WriteCheck2
  <2>12. CASE WriteStore
    BY <2>12, WriteStoreStutters
  <2>13. CASE WriteAdvance
    <3>1. char \in Byte
      BY DEF FileTypeOK
    <3>. QED
      BY <2>13, <3>1, WriteAdvancePuts DEF FIFO!Next
  <2>14. CASE WriteCount
    BY <2>14, OthersStutter DEF WriteCount
  <2>15. CASE UNCHANGED fileVars
    BY <2>15, OthersStutter DEF fileVars
  <2>. QED
    BY <2>1, <2>2, <2>3, <2>4, <2>5, <2>6, <2>7, <2>8, <2>9, <2>10, <2>11,
       <2>12, <2>13, <2>14, <2>15 DEF FileNext, Reader, Writer
<1>. QED
  BY <1>1, <1>2, FileTypeCorrect, IndInvHolds, PTL DEF FileSpec, ImplementsFIFO, FIFO!Spec
=============================================================================

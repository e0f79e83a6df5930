--------------------------- MODULE MemoryProofs ---------------------------
(***************************************************************************)
(* What holds of the pages, for every number of pages and of processes, as *)
(* long as ticks spare the windows of popPage and pushPage and a page is   *)
(* left: every page has one place, and blocks of malloc do not overlap.    *)
(***************************************************************************)
EXTENDS Memory, WellFoundedInduction, FiniteSetTheorems, SequenceTheorems, TLAPS

(* Between two accesses to stackTop, or to stackTop and the slot it leads  *)
(* to: a tick there would have two processes take one page, or lose one    *)
(* (the windows the README lists). That ticks spare them is the one        *)
(* assumption about ticks.                                                 *)
Window == {"popLoad", "popStore", "popRead", "pushLoad", "pushStore", "pushWrite"}
TicksSpareStack == TickPoints \cap Window = {}

(* A page is left. When none is, malloc makes a page at address 0          *)
(* (process.c:102-117) and pushPage drops what it is given (memory.c:55).  *)
Room == stackTop < NumPages

(* Nobody else runs while a process is in the windows above.               *)
Undisturbed == \A p \in Proc : pc[p] \in Window => cpu = p

(* What a process in the middle of popPage or pushPage has in its locals:  *)
(* which call it is in, the page it carries, and the stackTop it has read. *)
InCallOf(p) ==
  /\ pc[p] = "user" => local[p] = NoLocals
  /\ pc[p] # "user" => status[p] = "running"
  /\ pc[p] \in PopPoints  => local[p].op \in {"malloc", "create", "open"}
  /\ pc[p] \in PushPoints => local[p].op \in {"open", "close"}
  /\ pc[p] # "user" => (local[p].page = NULL <=> pc[p] \in PopPoints \ {"popped"})
  /\ pc[p] = "popStore"  => local[p].top = stackTop
  /\ pc[p] = "popRead"   => local[p].top + 1 = stackTop
  /\ pc[p] = "pushLoad"  => stackTop > 0
  /\ pc[p] = "pushStore" => local[p].top + 1 = stackTop

(* Every process is as its program point says.                             *)
InCall == \A p \in Proc : InCallOf(p)

(* An entry with no process has no pages; a process has a stack; and the   *)
(* entry createProcess is filling is its own, as only one process is       *)
(* inside it.                                                              *)
Entries ==
  /\ \A p \in Proc : /\ status[p] \in {"free", "building"} =>
                          stackPage[p] = NULL /\ heap[p] = <<>> /\ blocks[p] = <<>>
                     /\ status[p] \in {"running", "finished"} => stackPage[p] # NULL
  /\ \A p \in Proc : local[p].op = "create" =>
        /\ status[local[p].child] = "building"
        /\ \A q \in Proc : local[q].op = "create" => q = p

(* The slots of the stack that hold free pages: those from stackTop on,    *)
(* but for the one about to be written.                                    *)
FreeSlots ==
  {i \in Index : i >= stackTop /\ (i = stackTop => \A q \in Proc : pc[q] # "pushWrite")}

(* The page a process is moving from one place to another; at popRead it   *)
(* is still only in the slot that stackTop has left behind.                *)
Carries(q) == IF pc[q] = "popRead" THEN pageStack[local[q].top]
              ELSE IF pc[q] = "pushed" THEN NULL ELSE local[q].page

(* Who holds a page: a slot of the stack, the kernel, the stack of a       *)
(* process, the b-th page of its heap, a stream, or a process moving it.   *)
(* Finer than Places, which does not tell the pages of a heap apart and is *)
(* only true when Quiet.                                                   *)
Holds(kind, a, b, page) ==
  \/ kind = "free"   /\ a \in FreeSlots /\ b = 0 /\ pageStack[a] = page
  \/ kind = "kernel" /\ a \in 1..KernelPages /\ b = 0 /\ a = page
  \/ kind = "stack"  /\ a \in Proc /\ b = 0 /\ stackPage[a] = page
  \/ kind = "heap"   /\ a \in Proc /\ b \in 1..Len(heap[a]) /\ heap[a][b].page = page
  \/ kind = "stream" /\ a \in streams /\ b = 0 /\ a = page
  \/ kind = "local"  /\ a \in Proc /\ b = 0 /\ Carries(a) = page

(* Every page has exactly one holder, at every step.                       *)
OneHolder ==
  \A page \in Page :
    /\ \E kind, a, b : Holds(kind, a, b, page)
    /\ \A kind, a, b, type, c, d : Holds(kind, a, b, page) /\ Holds(type, c, d, page)
                                     => kind = type /\ a = c /\ b = d

(* What malloc returned to a process lies below the mark up to which its   *)
(* page is used, and apart from its other blocks.                          *)
BlocksInside ==
  \A p \in Proc : \A i \in 1..Len(blocks[p]) :
    /\ \E k \in 1..Len(heap[p]) : /\ heap[p][k].page = blocks[p][i].page
                                  /\ blocks[p][i].from + blocks[p][i].size <= heap[p][k].used
    /\ \A j \in 1..Len(blocks[p]) : Overlap(blocks[p][i], blocks[p][j]) => i = j

(* The inductive invariant. PagesConserved is not inductive: it says       *)
(* nothing of the steps inside popPage and pushPage (OneHolder does), of   *)
(* who may be inside them (Undisturbed, InCall), nor of what entries that  *)
(* are free hold (Entries). BlocksDisjoint is not, for it does not tell    *)
(* that blocks end below the mark where the next begins (BlocksInside),    *)
(* and that two processes have no heap page in common (OneHolder).         *)
IInv == TypeOK /\ Undisturbed /\ InCall /\ Entries /\ OneHolder /\ BlocksInside

-----------------------------------------------------------------------------

(* A set of naturals that is not empty has a least element.                *)
LEMMA LeastNat == \A S \in SUBSET Nat : S # {} => \E m \in S : \A n \in S : m <= n
<1> SUFFICES ASSUME NEW S \in SUBSET Nat, S # {} PROVE \E m \in S : \A n \in S : m <= n
  OBVIOUS
<1>1. PICK m \in S : \A n \in S : ~ (<<n, m>> \in OpToRel(<, Nat))
  BY NatLessThanWellFounded, WFMin
<1>2. \A n \in S : ~(n < m)
  BY <1>1 DEF OpToRel
<1> QED BY <1>2

(* A set that holds 0 and the successor of each natural in it holds every  *)
(* natural: induction, over sets.                                          *)
LEMMA NatIsInductive ==
  ASSUME NEW S, 0 \in S, \A n \in S \cap Nat : n + 1 \in S
  PROVE  Nat \subseteq S
<1> SUFFICES ASSUME Nat \ S # {} PROVE FALSE
  OBVIOUS
<1>1. PICK m \in Nat \ S : \A n \in Nat \ S : m <= n
  BY LeastNat
<1>2. m # 0 /\ m - 1 \in Nat /\ m - 1 \in S
  BY <1>1
<1>3. (m - 1) + 1 = m /\ m \notin S
  BY <1>1
<1> QED BY <1>2, <1>3

(* The types of the records.                                               *)
LocalsSet == [op : {"none", "malloc", "create", "open", "close"},
              size : 0..(PageSize - Header), child : Proc,
              top : 0..NumPages, page : Page \cup {NULL}]
HeapPage == [page : Page, used : Header..PageSize]
Block == [page : Page \cup {NULL}, from : Header..PageSize, size : 0..(PageSize - Header)]

(* What the assumptions say of the constants.                              *)
LEMMA Numbers ==
  /\ NumPages \in Nat \ {0} /\ KernelPages \in Nat \ {0} /\ KernelPages < NumPages
  /\ MaxProcesses \in Nat \ {0} /\ 0 \in Proc /\ Proc \subseteq Nat
  /\ NULL = 0 /\ NULL \notin Page /\ Page \subseteq Nat /\ Index \subseteq Nat
  /\ PageSize \in Nat /\ Header \in Nat \ {0} /\ Header <= PageSize
  /\ Sizes \subseteq Int /\ MaxCalls \in Nat
BY PagesAssumption, SizesAssumption DEF Page, Index, Proc, NULL

(* Offsets and sizes in a page are naturals.                               *)
LEMMA Words == Header..PageSize \subseteq Nat /\ 0..(PageSize - Header) \subseteq Nat
BY Numbers

(* The type invariant, in terms of the sets above.                         *)
LEMMA TypeParts ==
  TypeOK => /\ pageStack \in [Index -> Page] /\ stackTop \in 0..NumPages
            /\ status \in [Proc -> {"free", "building", "running", "finished"}]
            /\ stackPage \in [Proc -> Page \cup {NULL}]
            /\ heap \in [Proc -> Seq(HeapPage)] /\ streams \subseteq Page
            /\ blocks \in [Proc -> Seq(Block)]
            /\ cpu \in Proc /\ pc \in [Proc -> Point] /\ calls \in 0..MaxCalls
            /\ local \in [Proc -> LocalsSet]
BY DEF TypeOK, LocalsSet, HeapPage, Block

(* A process outside system calls carries no page.                         *)
LEMMA NoLocalsAre == NoLocals \in LocalsSet /\ NoLocals.op = "none" /\ NoLocals.page = NULL
BY Numbers DEF NoLocals, LocalsSet

(* While one process runs, the others are outside the windows.             *)
LEMMA OthersOutside ==
  ASSUME Undisturbed, NEW p \in Proc, cpu = p
  PROVE  \A q \in Proc : q # p => pc[q] \notin Window
BY DEF Undisturbed

(* A step that moves no page keeps one holder for each.                    *)
LEMMA SameHolders ==
  ASSUME OneHolder,
         \A kind, a, b : \A page \in Page : Holds(kind, a, b, page)' <=> Holds(kind, a, b, page)
  PROVE  OneHolder'
BY DEF OneHolder

(* The step moves one page to a new holder, and no other.                  *)
Moves(moved, type, c, d) ==
  \A kind, a, b : \A page \in Page :
    Holds(kind, a, b, page)' <=> \/ page = moved /\ kind = type /\ a = c /\ b = d
                                 \/ page # moved /\ Holds(kind, a, b, page)

(* Such a step keeps one holder for each page.                             *)
LEMMA MovedHolder ==
  ASSUME OneHolder, NEW moved \in Page, NEW type, NEW c, NEW d, Moves(moved, type, c, d)
  PROVE  OneHolder'
BY DEF OneHolder, Moves

(* A step that changes neither the slots in use, nor the tables, nor who   *)
(* carries what, moves no page.                                            *)
LEMMA Untouched ==
  ASSUME OneHolder, UNCHANGED <<stackPage, streams>>, FreeSlots' = FreeSlots,
         \A i \in FreeSlots : pageStack'[i] = pageStack[i],
         \A q \in Proc : /\ Carries(q)' = Carries(q)
                         /\ Len(heap'[q]) = Len(heap[q])
                         /\ \A k \in 1..Len(heap[q]) : heap'[q][k].page = heap[q][k].page
  PROVE  OneHolder'
<1>1. \A kind, a, b : \A page \in Page : Holds(kind, a, b, page)' <=> Holds(kind, a, b, page)
  BY DEF Holds
<1> QED BY <1>1, SameHolders

(* The steps of popPage and pushPage, which leave the tables alone, keep   *)
(* the invariant where they keep one holder for each page and leave the    *)
(* caller as its program point says.                                       *)
LEMMA PoolStep ==
  ASSUME IInv, TypeOK', NEW p \in Proc, cpu = p, NEW to \in Point,
         UNCHANGED <<table, streams, cpu>>, pc' = [pc EXCEPT ![p] = to],
         \A q \in Proc : q # p => local'[q] = local[q],
         \/ local'[p].op = local[p].op /\ local'[p].child = local[p].child
         \/ local'[p].op = "none",
         InCallOf(p)', OneHolder'
  PROVE  IInv'
<1>t. pc \in [Proc -> Point] /\ local \in [Proc -> LocalsSet]
  BY TypeParts DEF IInv
<1>u. UNCHANGED <<status, stackPage, heap, blocks, streams>>
  BY DEF table
<1>o. \A q \in Proc : q # p => pc[q] \notin Window /\ pc'[q] = pc[q]
  BY <1>t, OthersOutside DEF IInv
<1>1. Undisturbed'
  BY <1>o, <1>t DEF Undisturbed
<1>2. InCall'
  <2> SUFFICES ASSUME NEW q \in Proc, q # p PROVE InCallOf(q)'
    BY DEF InCall
  <2>1. InCallOf(q)
    BY DEF IInv, InCall
  <2> QED BY <1>o, <1>u, <2>1 DEF InCallOf, Window
<1>3. Entries'
  <2>1. \A q \in Proc : local'[q].op = "create"
           => local[q].op = "create" /\ local'[q].child = local[q].child
    OBVIOUS
  <2> QED BY <1>u, <2>1 DEF IInv, Entries
<1>4. BlocksInside'
  BY <1>u DEF IInv, BlocksInside
<1> QED BY <1>1, <1>2, <1>3, <1>4 DEF IInv

(* A page is the kernel's and in no slot, so that different pages in the   *)
(* slots from n on leave n above 0. Why pushPage never finds stackTop at 0 *)
(* (memory.c:55), nor drops a page.                                        *)
LEMMA KernelKept ==
  ASSUME NEW n \in 0..NumPages, NEW slot \in [n..(NumPages - 1) -> Page],
         \A i, j \in n..(NumPages - 1) : slot[i] = slot[j] => i = j,
         \A i \in n..(NumPages - 1) : slot[i] # 1
  PROVE  n > 0
<1>1. slot \in Injection(n..(NumPages - 1), Page \ {1})
  BY DEF Injection, IsInjective
<1>2. IsFiniteSet(Page) /\ Cardinality(Page) = NumPages /\ 1 \in Page
  BY Numbers, FS_Interval DEF Page
<1>3. IsFiniteSet(Page \ {1}) /\ Cardinality(Page \ {1}) = NumPages - 1
  BY <1>2, FS_RemoveElement
<1>4. Cardinality(n..(NumPages - 1)) = NumPages - n
  <2>1. CASE n <= NumPages - 1
    BY <2>1, Numbers, FS_Interval
  <2>2. CASE n = NumPages
    <3>1. n..(NumPages - 1) = {}
      BY <2>2, Numbers
    <3> QED BY <2>2, <3>1, FS_EmptySet, Numbers
  <2> QED BY <2>1, <2>2, Numbers
<1>5. NumPages - n <= NumPages - 1
  BY <1>1, <1>3, <1>4, FS_Injection
<1> QED BY <1>5, Numbers
-----------------------------------------------------------------------------

(* Outside pushWrite the free slots are those from stackTop on, and        *)
(* stackTop is not 0.                                                      *)
LEMMA TopStaysUp ==
  ASSUME IInv, \A q \in Proc : pc[q] # "pushWrite"
  PROVE  stackTop \in Nat \ {0} /\ FreeSlots = stackTop..(NumPages - 1)
<1>t. pageStack \in [Index -> Page] /\ stackTop \in 0..NumPages
  BY TypeParts DEF IInv
<1>1. FreeSlots = stackTop..(NumPages - 1)
  BY <1>t, Numbers DEF FreeSlots, Index
<1> DEFINE slot == [i \in stackTop..(NumPages - 1) |-> pageStack[i]]
<1>2. \A i \in stackTop..(NumPages - 1) : Holds("free", i, 0, slot[i]) /\ slot[i] \in Page
  BY <1>t, <1>1, Numbers DEF Holds, Index
<1>3. Holds("kernel", 1, 0, 1) /\ 1 \in Page
  BY Numbers DEF Holds, Page
<1>4. \A i, j \in stackTop..(NumPages - 1) : slot[i] = slot[j] => i = j
  BY <1>2 DEF IInv, OneHolder
<1>5. \A i \in stackTop..(NumPages - 1) : slot[i] # 1
  BY <1>2, <1>3 DEF IInv, OneHolder
<1>6. slot \in [stackTop..(NumPages - 1) -> Page]
  BY <1>2
<1> HIDE DEF slot
<1>7. stackTop > 0
  BY <1>t, <1>4, <1>5, <1>6, KernelKept
<1> QED BY <1>1, <1>7, <1>t, Numbers

(* stackTop < STACK_SIZE (memory.c:66): with a page left, popPage goes on. *)
LEMMA PopTestStep ==
  ASSUME IInv, Room, NEW p \in Proc, PopTest(p)
  PROVE  IInv'
<1>t. pc \in [Proc -> Point] /\ local \in [Proc -> LocalsSet] /\ TypeOK
  BY TypeParts DEF IInv
<1>u. /\ cpu = p /\ pc[p] = "popTest" /\ pc' = [pc EXCEPT ![p] = "popLoad"] /\ "popLoad" \in Point
      /\ UNCHANGED <<pageStack, stackTop, status, stackPage, heap, blocks, streams, cpu, local,
            calls>>
  BY DEF PopTest, At, Goto, Room, pool, table, Point, PopPoints
<1>1. TypeOK'
  BY <1>t, <1>u DEF TypeOK
<1>2. InCallOf(p)'
  BY <1>t, <1>u DEF IInv, InCall, InCallOf, PopPoints, PushPoints
<1>3. OneHolder'
  <2>1. FreeSlots' = FreeSlots
    BY <1>t, <1>u DEF FreeSlots
  <2>2. \A q \in Proc : Carries(q)' = Carries(q)
    BY <1>t, <1>u DEF Carries
  <2> QED BY <1>u, <2>1, <2>2, Untouched DEF IInv
<1> QED BY <1>u, <1>1, <1>2, <1>3, PoolStep DEF table

(* popPage reads stackTop (memory.c:68).                                   *)
LEMMA PopLoadStep ==
  ASSUME IInv, NEW p \in Proc, PopLoad(p)
  PROVE  IInv'
<1>t. pc \in [Proc -> Point] /\ local \in [Proc -> LocalsSet] /\ TypeOK /\ stackTop \in 0..NumPages
  BY TypeParts DEF IInv
<1>u. /\ cpu = p /\ pc[p] = "popLoad" /\ pc' = [pc EXCEPT ![p] = "popStore"] /\ "popStore" \in Point
      /\ local' = [local EXCEPT ![p].top = stackTop]
      /\ UNCHANGED <<pageStack, stackTop, status, stackPage, heap, blocks, streams, cpu, calls>>
  BY DEF PopLoad, At, Goto, pool, table, Point, PopPoints
<1>l. /\ local'[p].top = stackTop /\ local'[p].page = local[p].page
      /\ local'[p].op = local[p].op /\ local'[p].child = local[p].child
      /\ \A q \in Proc : q # p => local'[q] = local[q]
      /\ local' \in [Proc -> LocalsSet]
  BY <1>t, <1>u DEF LocalsSet
<1>1. TypeOK'
  BY <1>t, <1>u, <1>l DEF TypeOK, LocalsSet
<1>2. InCallOf(p)'
  BY <1>t, <1>u, <1>l DEF IInv, InCall, InCallOf, PopPoints, PushPoints
<1>3. OneHolder'
  <2>1. FreeSlots' = FreeSlots
    BY <1>t, <1>u DEF FreeSlots
  <2>2. \A q \in Proc : Carries(q)' = Carries(q)
    BY <1>t, <1>u, <1>l DEF Carries
  <2> QED BY <1>u, <2>1, <2>2, Untouched DEF IInv
<1> QED BY <1>u, <1>l, <1>1, <1>2, <1>3, PoolStep DEF table

(* It stores stackTop + 1: the page passes from the slot to the process.   *)
LEMMA PopStoreStep ==
  ASSUME IInv, Room, NEW p \in Proc, PopStore(p)
  PROVE  IInv'
<1>t. /\ pc \in [Proc -> Point] /\ local \in [Proc -> LocalsSet] /\ TypeOK
      /\ stackTop \in 0..NumPages /\ pageStack \in [Index -> Page]
  BY TypeParts DEF IInv
<1>u. /\ cpu = p /\ pc[p] = "popStore" /\ pc' = [pc EXCEPT ![p] = "popRead"] /\ "popRead" \in Point
      /\ stackTop' = local[p].top + 1
      /\ UNCHANGED <<pageStack, status, stackPage, heap, blocks, streams, cpu, local, calls>>
  BY DEF PopStore, At, Goto, table, Point, PopPoints
<1>l. local[p].top = stackTop /\ stackTop \in Index /\ stackTop' = stackTop + 1
         /\ stackTop' \in 0..NumPages
  BY <1>t, <1>u, Numbers DEF IInv, InCall, InCallOf, Room, Index
<1>1. TypeOK'
  BY <1>t, <1>u, <1>l DEF TypeOK
<1>2. InCallOf(p)'
  BY <1>t, <1>u, <1>l DEF IInv, InCall, InCallOf, PopPoints, PushPoints
<1>o. \A q \in Proc : pc[q] # "pushWrite" /\ pc'[q] # "pushWrite"
  <2>1. \A q \in Proc : q # p => pc[q] \notin Window
    BY <1>u, OthersOutside DEF IInv
  <2> QED BY <1>t, <1>u, <2>1 DEF Window
<1>3. OneHolder'
  <2> DEFINE moved == pageStack[stackTop]
  <2>1. moved \in Page /\ stackTop \in FreeSlots /\ Holds("free", stackTop, 0, moved)
    BY <1>t, <1>l, <1>o, Numbers DEF FreeSlots, Holds
  <2>2. FreeSlots' = FreeSlots \ {stackTop}
    BY <1>t, <1>l, <1>o, Numbers DEF FreeSlots, Index
  <2>3. Carries(p)' = moved /\ Carries(p) = NULL /\ NULL \notin Page
    BY <1>t, <1>u, <1>l, Numbers DEF Carries, IInv, InCall, InCallOf, PopPoints
  <2>4. \A q \in Proc : q # p => Carries(q)' = Carries(q)
    BY <1>t, <1>u DEF Carries
  <2> HIDE DEF moved
  <2>5. ASSUME NEW kind, NEW a, NEW b, NEW page \in Page
        PROVE  Holds(kind, a, b, page)' <=> \/ page = moved /\ kind = "local" /\ a = p /\ b = 0
                                            \/ page # moved /\ Holds(kind, a, b, page)
    <3>1. \A k, c, d : Holds(k, c, d, moved) => k = "free" /\ c = stackTop /\ d = 0
      BY <2>1 DEF IInv, OneHolder
    <3>2. kind # "free" /\ kind # "local" => (Holds(kind, a, b, page)' <=> Holds(kind, a, b, page))
      BY <1>u DEF Holds
    <3>3. kind = "free" =>
            (Holds(kind, a, b, page)' <=> Holds(kind, a, b, page) /\ a # stackTop)
      BY <1>u, <2>2 DEF Holds
    <3>4. kind = "local" =>
            (Holds(kind, a, b, page)' <=> \/ a = p /\ b = 0 /\ page = moved
                                          \/ a # p /\ Holds(kind, a, b, page))
      BY <2>3, <2>4 DEF Holds
    <3>5. Holds("free", stackTop, b, page) => page = moved
      BY DEF Holds, moved
    <3>6. ~Holds("local", p, b, page)
      BY <2>3 DEF Holds
    <3> QED BY <3>1, <3>2, <3>3, <3>4, <3>5, <3>6
  <2>6. Moves(moved, "local", p, 0)
    BY <2>5 DEF Moves
  <2> QED BY <2>1, <2>6, MovedHolder DEF IInv
<1> QED BY <1>u, <1>1, <1>2, <1>3, PoolStep DEF table

(* It reads the slot it has left behind.                                   *)
LEMMA PopReadStep ==
  ASSUME IInv, NEW p \in Proc, PopRead(p)
  PROVE  IInv'
<1>t. /\ pc \in [Proc -> Point] /\ local \in [Proc -> LocalsSet] /\ TypeOK
      /\ stackTop \in 0..NumPages /\ pageStack \in [Index -> Page]
  BY TypeParts DEF IInv
<1>v. local[p].top \in Index /\ pageStack[local[p].top] \in Page
  <2>1. local[p].top + 1 = stackTop /\ local[p].top \in 0..NumPages
    BY <1>t DEF PopRead, At, IInv, InCall, InCallOf, LocalsSet
  <2> QED BY <1>t, <2>1, Numbers DEF Index
<1>u. /\ cpu = p /\ pc[p] = "popRead" /\ pc' = [pc EXCEPT ![p] = "popped"] /\ "popped" \in Point
      /\ local' = [local EXCEPT ![p].page = pageStack[local[p].top]]
      /\ UNCHANGED <<pageStack, stackTop, status, stackPage, heap, blocks, streams, cpu, calls>>
  BY <1>v DEF PopRead, At, Goto, pool, table, Point, PopPoints
<1>l. /\ local'[p].page = pageStack[local[p].top] /\ local'[p].top = local[p].top
      /\ local'[p].op = local[p].op /\ local'[p].child = local[p].child
      /\ \A q \in Proc : q # p => local'[q] = local[q]
      /\ local' \in [Proc -> LocalsSet]
  BY <1>t, <1>u, <1>v DEF LocalsSet
<1>1. TypeOK'
  BY <1>t, <1>u, <1>l DEF TypeOK, LocalsSet
<1>2. InCallOf(p)'
  BY <1>t, <1>u, <1>v, <1>l, Numbers DEF IInv, InCall, InCallOf, PopPoints, PushPoints
<1>3. OneHolder'
  <2>1. FreeSlots' = FreeSlots
    BY <1>t, <1>u DEF FreeSlots
  <2>2. \A q \in Proc : Carries(q)' = Carries(q)
    BY <1>t, <1>u, <1>l DEF Carries
  <2> QED BY <1>u, <2>1, <2>2, Untouched DEF IInv
<1> QED BY <1>u, <1>l, <1>1, <1>2, <1>3, PoolStep DEF table

(* pushPage's test (memory.c:55) does not fail: no page is dropped.        *)
LEMMA PushTestStep ==
  ASSUME IInv, Room, NEW p \in Proc, PushTest(p)
  PROVE  IInv'
<1>t. pc \in [Proc -> Point] /\ local \in [Proc -> LocalsSet] /\ TypeOK
  BY TypeParts DEF IInv
<1>c. cpu = p /\ pc[p] = "pushTest"
  BY DEF PushTest, At
<1>o. \A q \in Proc : pc[q] # "pushWrite"
  <2>1. \A q \in Proc : q # p => pc[q] \notin Window
    BY <1>c, OthersOutside DEF IInv
  <2> QED BY <1>c, <2>1 DEF Window
<1>m. MayPush(stackTop) /\ stackTop > 0
  BY <1>o, TopStaysUp DEF MayPush, Room
<1>u. /\ pc' = [pc EXCEPT ![p] = "pushLoad"] /\ "pushLoad" \in Point
      /\ UNCHANGED <<pageStack, stackTop, status, stackPage, heap, blocks, streams, cpu, local,
            calls>>
  BY <1>m DEF PushTest, Goto, pool, table, Point, PushPoints
<1>1. TypeOK'
  BY <1>t, <1>u DEF TypeOK
<1>2. InCallOf(p)'
  BY <1>t, <1>c, <1>m, <1>u DEF IInv, InCall, InCallOf, PopPoints, PushPoints
<1>3. OneHolder'
  <2>1. FreeSlots' = FreeSlots
    BY <1>t, <1>c, <1>u DEF FreeSlots
  <2>2. \A q \in Proc : Carries(q)' = Carries(q)
    BY <1>t, <1>c, <1>u DEF Carries
  <2> QED BY <1>u, <2>1, <2>2, Untouched DEF IInv
<1> QED BY <1>c, <1>u, <1>1, <1>2, <1>3, PoolStep DEF table

(* pushPage reads stackTop (memory.c:57).                                  *)
LEMMA PushLoadStep ==
  ASSUME IInv, NEW p \in Proc, PushLoad(p)
  PROVE  IInv'
<1>t. pc \in [Proc -> Point] /\ local \in [Proc -> LocalsSet] /\ TypeOK /\ stackTop \in 0..NumPages
  BY TypeParts DEF IInv
<1>u. /\ cpu = p /\ pc[p] = "pushLoad" /\ pc' = [pc EXCEPT ![p] = "pushStore"]
            /\ "pushStore" \in Point
      /\ local' = [local EXCEPT ![p].top = stackTop - 1]
      /\ UNCHANGED <<pageStack, stackTop, status, stackPage, heap, blocks, streams, cpu, calls>>
  BY DEF PushLoad, At, Goto, pool, table, Point, PushPoints
<1>v. stackTop > 0 /\ stackTop - 1 \in 0..NumPages
  BY <1>t, <1>u, Numbers DEF IInv, InCall, InCallOf
<1>l. /\ local'[p].top = stackTop - 1 /\ local'[p].page = local[p].page
      /\ local'[p].op = local[p].op /\ local'[p].child = local[p].child
      /\ \A q \in Proc : q # p => local'[q] = local[q]
      /\ local' \in [Proc -> LocalsSet]
  BY <1>t, <1>u, <1>v DEF LocalsSet
<1>1. TypeOK'
  BY <1>t, <1>u, <1>l DEF TypeOK, LocalsSet
<1>2. InCallOf(p)'
  BY <1>t, <1>u, <1>v, <1>l DEF IInv, InCall, InCallOf, PopPoints, PushPoints
<1>3. OneHolder'
  <2>1. FreeSlots' = FreeSlots
    BY <1>t, <1>u DEF FreeSlots
  <2>2. \A q \in Proc : Carries(q)' = Carries(q)
    BY <1>t, <1>u, <1>l DEF Carries
  <2> QED BY <1>u, <2>1, <2>2, Untouched DEF IInv
<1> QED BY <1>u, <1>l, <1>1, <1>2, <1>3, PoolStep DEF table

(* It stores stackTop - 1; the slot still holds a page that is elsewhere.  *)
LEMMA PushStoreStep ==
  ASSUME IInv, NEW p \in Proc, PushStore(p)
  PROVE  IInv'
<1>t. /\ pc \in [Proc -> Point] /\ local \in [Proc -> LocalsSet] /\ TypeOK
      /\ stackTop \in 0..NumPages
  BY TypeParts DEF IInv
<1>u. /\ cpu = p /\ pc[p] = "pushStore" /\ pc' = [pc EXCEPT ![p] = "pushWrite"]
            /\ "pushWrite" \in Point
      /\ stackTop' = local[p].top
      /\ UNCHANGED <<pageStack, status, stackPage, heap, blocks, streams, cpu, local, calls>>
  BY DEF PushStore, At, Goto, table, Point, PushPoints
<1>l. local[p].top + 1 = stackTop /\ local[p].top \in 0..NumPages
  BY <1>t, <1>u DEF IInv, InCall, InCallOf, LocalsSet
<1>1. TypeOK'
  BY <1>t, <1>u, <1>l DEF TypeOK
<1>2. InCallOf(p)'
  BY <1>t, <1>u, <1>l DEF IInv, InCall, InCallOf, PopPoints, PushPoints
<1>3. OneHolder'
  <2>o. \A q \in Proc : pc[q] # "pushWrite"
    <3>1. \A q \in Proc : q # p => pc[q] \notin Window
      BY <1>u, OthersOutside DEF IInv
    <3> QED BY <1>u, <3>1 DEF Window
  <2>w. pc'[p] = "pushWrite"
    BY <1>t, <1>u
  <2>1. FreeSlots' = FreeSlots
    BY <1>t, <1>u, <1>l, <2>o, <2>w, Numbers DEF FreeSlots, Index
  <2>2. \A q \in Proc : Carries(q)' = Carries(q)
    BY <1>t, <1>u DEF Carries
  <2> QED BY <1>u, <2>1, <2>2, Untouched DEF IInv
<1> QED BY <1>u, <1>1, <1>2, <1>3, PoolStep DEF table

(* It writes the slot: the page passes from the process to the slot.       *)
LEMMA PushWriteStep ==
  ASSUME IInv, Room, NEW p \in Proc, PushWrite(p)
  PROVE  IInv'
<1>t. /\ pc \in [Proc -> Point] /\ local \in [Proc -> LocalsSet] /\ TypeOK
      /\ stackTop \in 0..NumPages /\ pageStack \in [Index -> Page]
  BY TypeParts DEF IInv
<1>i. stackTop \in Index
  BY <1>t, Numbers DEF Room, Index
<1>u. /\ cpu = p /\ pc[p] = "pushWrite" /\ pc' = [pc EXCEPT ![p] = "pushed"] /\ "pushed" \in Point
      /\ pageStack' = [pageStack EXCEPT ![stackTop] = local[p].page]
      /\ UNCHANGED <<stackTop, status, stackPage, heap, blocks, streams, cpu, local, calls>>
  BY <1>i DEF PushWrite, At, Goto, table, Point, PushPoints
<1>l. local[p].page \in Page
  <2>1. local[p].page # NULL
    BY <1>u DEF IInv, InCall, InCallOf, PopPoints
  <2> QED BY <1>t, <2>1 DEF LocalsSet
<1>1. TypeOK'
  BY <1>t, <1>u, <1>l DEF TypeOK
<1>2. InCallOf(p)'
  BY <1>t, <1>u DEF IInv, InCall, InCallOf, PopPoints, PushPoints
<1>3. OneHolder'
  <2>o. \A q \in Proc : q # p => pc[q] \notin Window /\ pc'[q] = pc[q]
    BY <1>t, <1>u, OthersOutside DEF IInv
  <2> DEFINE moved == local[p].page
  <2>1. moved \in Page /\ Holds("local", p, 0, moved) /\ Carries(p) = moved
    BY <1>l, <1>u DEF Holds, Carries
  <2>2. FreeSlots' = FreeSlots \cup {stackTop} /\ stackTop \notin FreeSlots
    BY <1>t, <1>i, <1>u, <2>o, Numbers DEF FreeSlots, Index, Window
  <2>3. Carries(p)' = NULL /\ NULL \notin Page
    BY <1>t, <1>u, Numbers DEF Carries
  <2>4. \A q \in Proc : q # p => Carries(q)' = Carries(q)
    <3> SUFFICES ASSUME NEW q \in Proc, q # p PROVE Carries(q)' = Carries(q)
      OBVIOUS
    <3>1. pc'[q] = pc[q] /\ pc[q] # "popRead" /\ local' = local
      BY <1>u, <2>o DEF Window
    <3> QED BY <3>1 DEF Carries
  <2> HIDE DEF moved
  <2>5. ASSUME NEW kind, NEW a, NEW b, NEW page \in Page
        PROVE  Holds(kind, a, b, page)' <=> \/ page = moved /\ kind = "free" /\ a = stackTop /\ b = 0
                                            \/ page # moved /\ Holds(kind, a, b, page)
    <3>1. \A k, c, d : Holds(k, c, d, moved) => k = "local" /\ c = p /\ d = 0
      BY <2>1 DEF IInv, OneHolder
    <3>2. kind # "free" /\ kind # "local" => (Holds(kind, a, b, page)' <=> Holds(kind, a, b, page))
      BY <1>u DEF Holds
    <3>a. \A i \in FreeSlots : pageStack'[i] = pageStack[i] /\ i \in Index
      BY <1>t, <1>u, <2>2 DEF FreeSlots
    <3>b. pageStack'[stackTop] = moved
      BY <1>t, <1>i, <1>u DEF moved
    <3>3. kind = "free" => (Holds(kind, a, b, page)' <=> \/ a = stackTop /\ b = 0 /\ page = moved
                                                         \/ Holds(kind, a, b, page))
      BY <2>2, <3>a, <3>b DEF Holds
    <3>4. kind = "local" => (Holds(kind, a, b, page)' <=> a # p /\ Holds(kind, a, b, page))
      BY <2>3, <2>4 DEF Holds
    <3>5. Holds("local", p, b, page) => page = moved
      BY <2>1 DEF Holds
    <3> QED BY <3>1, <3>2, <3>3, <3>4, <3>5
  <2>6. Moves(moved, "free", stackTop, 0)
    BY <2>5 DEF Moves
  <2> QED BY <2>1, <2>6, MovedHolder DEF IInv
<1> QED BY <1>u, <1>1, <1>2, <1>3, PoolStep DEF table

(* The call that gave the page back returns.                               *)
LEMMA PushedStep ==
  ASSUME IInv, NEW p \in Proc, Pushed(p)
  PROVE  IInv'
<1>t. pc \in [Proc -> Point] /\ local \in [Proc -> LocalsSet] /\ TypeOK
  BY TypeParts DEF IInv
<1>u. /\ cpu = p /\ pc[p] = "pushed" /\ pc' = [pc EXCEPT ![p] = "user"] /\ "user" \in Point
      /\ local' = [local EXCEPT ![p] = NoLocals]
      /\ UNCHANGED <<pageStack, stackTop, status, stackPage, heap, blocks, streams, cpu, calls>>
  BY DEF Pushed, At, Goto, Return, pool, table, Point
<1>l. /\ local'[p] = NoLocals /\ local'[p].op = "none" /\ local'[p].page = NULL
      /\ \A q \in Proc : q # p => local'[q] = local[q]
      /\ local' \in [Proc -> LocalsSet]
  BY <1>t, <1>u, NoLocalsAre
<1>1. TypeOK'
  BY <1>t, <1>u, <1>l DEF TypeOK, LocalsSet
<1>2. InCallOf(p)'
  BY <1>t, <1>u, <1>l DEF InCallOf, PopPoints, PushPoints
<1>3. OneHolder'
  <2>1. FreeSlots' = FreeSlots
    BY <1>t, <1>u DEF FreeSlots
  <2>2. \A q \in Proc : Carries(q)' = Carries(q)
    BY <1>t, <1>u, <1>l DEF Carries
  <2> QED BY <1>u, <2>1, <2>2, Untouched DEF IInv
<1> QED BY <1>u, <1>l, <1>1, <1>2, <1>3, PoolStep DEF table

(* A tick moves no page.                                                   *)
LEMMA TickStep ==
  ASSUME IInv, TicksSpareStack, NEW p \in Proc, Tick(p)
  PROVE  IInv'
<1>t. TypeOK
  BY DEF IInv
<1>u. /\ cpu = p /\ pc[p] \notin Window /\ cpu' \in Proc
      /\ UNCHANGED <<pageStack, stackTop, status, stackPage, heap, blocks, streams, pc, local,
            calls>>
  BY DEF Tick, TicksSpareStack, pool, table, Running
<1>1. TypeOK'
  BY <1>t, <1>u DEF TypeOK
<1>2. Undisturbed'
  BY <1>u DEF IInv, Undisturbed
<1>3. InCall' /\ Entries' /\ BlocksInside'
  BY <1>u DEF IInv, InCall, InCallOf, Entries, BlocksInside
<1>4. OneHolder'
  <2>1. FreeSlots' = FreeSlots /\ \A q \in Proc : Carries(q)' = Carries(q)
    BY <1>u DEF FreeSlots, Carries
  <2> QED BY <1>u, <2>1, Untouched DEF IInv
<1> QED BY <1>1, <1>2, <1>3, <1>4 DEF IInv
-----------------------------------------------------------------------------

(* A step of one process leaves the others as their program points say.    *)
LEMMA OthersInCall ==
  ASSUME IInv, NEW p \in Proc, cpu = p, cpu' = p, InCallOf(p)',
         \A q \in Proc : q # p => /\ pc'[q] = pc[q] /\ local'[q] = local[q]
                                  /\ status[q] = "running" => status'[q] = "running"
  PROVE  Undisturbed' /\ InCall'
<1>1. \A q \in Proc : q # p => pc[q] \notin Window
  BY OthersOutside DEF IInv
<1>2. Undisturbed'
  BY <1>1 DEF Undisturbed
<1>3. InCall'
  <2> SUFFICES ASSUME NEW q \in Proc, q # p PROVE InCallOf(q)'
    BY DEF InCall
  <2>1. InCallOf(q)
    BY DEF IInv, InCall
  <2> QED BY <1>1, <2>1 DEF InCallOf, Window
<1> QED BY <1>2, <1>3

(* The page malloc finds has room.                                         *)
LEMMA FirstFitIs ==
  ASSUME TypeOK, NEW p \in Proc, NEW bytes \in Int, Fits(p, bytes) # {}
  PROVE  /\ FirstFit(p, bytes) \in 1..Len(heap[p])
         /\ bytes <= PageSize - heap[p][FirstFit(p, bytes)].used
<1>1. heap[p] \in Seq(HeapPage)
  BY TypeParts
<1>2. Fits(p, bytes) \in SUBSET Nat
  BY <1>1 DEF Fits
<1>3. PICK k \in Fits(p, bytes) : \A j \in Fits(p, bytes) : k <= j
  BY <1>2, LeastNat
<1>4. FirstFit(p, bytes) \in Fits(p, bytes)
  BY <1>3 DEF FirstFit
<1> QED BY <1>4 DEF Fits

(* malloc in a page that has room: the new block begins where the last     *)
(* ended (process.c:113-118).                                              *)
LEMMA MallocFitsStep ==
  ASSUME IInv, NEW p \in Proc, NEW bytes \in Sizes, CallMalloc(p, bytes), Fits(p, bytes) # {}
  PROVE  IInv'
<1> DEFINE k == FirstFit(p, bytes)
           page == heap[p][k].page
           end == heap[p][k].used
           block == [page |-> page, from |-> end, size |-> bytes]
<1>t. /\ TypeOK /\ heap \in [Proc -> Seq(HeapPage)] /\ blocks \in [Proc -> Seq(Block)]
      /\ calls \in 0..MaxCalls /\ bytes \in Int
  BY TypeParts, Numbers DEF IInv
<1>k. k \in 1..Len(heap[p]) /\ bytes <= PageSize - end
  BY <1>t, FirstFitIs
<1>u. /\ cpu = p /\ pc[p] = "user" /\ bytes \in 0..(PageSize - Header)
      /\ blocks' = [blocks EXCEPT ![p] = Append(blocks[p], block)]
      /\ heap' = [heap EXCEPT ![p] = [heap[p] EXCEPT ![k] =
                    [heap[p][k] EXCEPT !.used = heap[p][k].used + bytes]]]
      /\ calls' \in 0..MaxCalls
      /\ UNCHANGED <<pageStack, stackTop, status, stackPage, streams, cpu, pc, local>>
  <2>1. /\ cpu = p /\ pc[p] = "user" /\ bytes >= 0 /\ bytes <= PageSize - Header
        /\ calls < MaxCalls /\ calls' = calls + 1
        /\ UNCHANGED <<pageStack, stackTop, status, stackPage, streams, cpu, pc, local>>
        /\ blocks' = [blocks EXCEPT ![p] = Append(blocks[p], block)]
        /\ heap' = [heap EXCEPT ![p][k].used = @ + bytes]
    BY DEF CallMalloc, At, Called, pool
  <2>2. bytes \in 0..(PageSize - Header) /\ calls' \in 0..MaxCalls
    BY <1>t, <2>1, Numbers
  <2> QED BY <2>1, <2>2
<1>h. heap[p][k] \in HeapPage /\ page \in Page /\ end \in Header..PageSize
         /\ heap[p] \in Seq(HeapPage)
  <2>1. heap[p][k] \in HeapPage
    BY <1>t, <1>k
  <2> QED BY <1>t, <2>1 DEF HeapPage
<1>b. block \in Block /\ blocks[p] \in Seq(Block)
  BY <1>t, <1>u, <1>h DEF Block
<1>e. /\ end \in Nat /\ end >= Header /\ end <= PageSize /\ bytes <= PageSize - end
      /\ bytes \in Nat /\ end + bytes \in Header..PageSize
  <2> HIDE DEF end
  <2>1. end \in Header..PageSize /\ bytes <= PageSize - end /\ bytes \in 0..(PageSize - Header)
    BY <1>h, <1>k, <1>u
  <2> QED BY <2>1, Numbers
<1> HIDE DEF k
<1>n. /\ heap'[p] \in Seq(HeapPage) /\ Len(heap'[p]) = Len(heap[p])
      /\ heap'[p][k].page = page /\ heap'[p][k].used = end + bytes
      /\ \A j \in 1..Len(heap[p]) : j # k => heap'[p][j] = heap[p][j]
      /\ \A q \in Proc : q # p => heap'[q] = heap[q]
  <2>1. [heap[p][k] EXCEPT !.used = heap[p][k].used + bytes] \in HeapPage
    <3>1. end + bytes \in Header..PageSize
      BY <1>e
    <3> QED BY <1>h, <3>1 DEF HeapPage
  <2>2. heap'[p] = [heap[p] EXCEPT ![k] = [heap[p][k] EXCEPT !.used = heap[p][k].used + bytes]]
    BY <1>t, <1>u
  <2>3. heap'[p] \in Seq(HeapPage) /\ Len(heap'[p]) = Len(heap[p])
    BY <1>h, <1>k, <2>1, <2>2
  <2>4. heap'[p][k] = [heap[p][k] EXCEPT !.used = heap[p][k].used + bytes]
    BY <1>h, <1>k, <2>2
  <2>5. heap'[p][k].page = page /\ heap'[p][k].used = end + bytes
    BY <1>h, <2>4 DEF HeapPage
  <2> QED BY <1>h, <1>k, <1>t, <1>u, <2>2, <2>3, <2>5
<1>m. /\ Len(blocks[p]) \in Nat /\ Len(blocks'[p]) = Len(blocks[p]) + 1
      /\ blocks'[p] \in Seq(Block) /\ blocks'[p][Len(blocks[p]) + 1] = block
      /\ \A i \in 1..Len(blocks[p]) : blocks'[p][i] = blocks[p][i]
      /\ \A q \in Proc : q # p => blocks'[q] = blocks[q]
  BY <1>t, <1>u, <1>b, AppendProperties
<1>1. TypeOK'
  <2>1. heap' \in [Proc -> Seq(HeapPage)] /\ blocks' \in [Proc -> Seq(Block)]
    BY <1>t, <1>u, <1>n, <1>m
  <2> QED BY <1>t, <1>u, <2>1 DEF TypeOK, HeapPage, Block
<1>2. Undisturbed' /\ InCall'
  BY <1>u DEF IInv, Undisturbed, InCall, InCallOf
<1>3. Entries'
  <2>1. heap[p] # <<>>
    BY <1>k, <1>h
  <2>2. status[p] \notin {"free", "building"}
    BY <2>1 DEF IInv, Entries
  <2> QED BY <1>u, <1>n, <1>m, <2>2 DEF IInv, Entries
<1>4. OneHolder'
  <2>1. FreeSlots' = FreeSlots
    BY <1>u DEF FreeSlots
  <2>2. \A q \in Proc : Carries(q)' = Carries(q)
    BY <1>u DEF Carries
  <2>3. \A q \in Proc : /\ Len(heap'[q]) = Len(heap[q])
                        /\ \A j \in 1..Len(heap[q]) : heap'[q][j].page = heap[q][j].page
    BY <1>n
  <2> QED BY <1>u, <2>1, <2>2, <2>3, Untouched DEF IInv
<1>5. BlocksInside'
  <2> DEFINE last == Len(blocks[p]) + 1
  <2>1. ASSUME NEW i \in 1..Len(blocks[p])
        PROVE  /\ \E j \in 1..Len(heap[p]) :
                    /\ heap'[p][j].page = blocks[p][i].page
                    /\ blocks[p][i].from + blocks[p][i].size <= heap'[p][j].used
               /\ ~Overlap(blocks[p][i], block) /\ ~Overlap(block, blocks[p][i])
    <3>1. PICK j \in 1..Len(heap[p]) : /\ heap[p][j].page = blocks[p][i].page
                                       /\ blocks[p][i].from + blocks[p][i].size <= heap[p][j].used
      BY DEF IInv, BlocksInside
    <3>2. blocks[p][i] \in Block /\ heap[p][j] \in HeapPage
      BY <1>t
    <3>3. blocks[p][i].from \in Nat /\ blocks[p][i].size \in Nat /\ heap[p][j].used \in Nat
             /\ end \in Nat
      <4> HIDE DEF end
      <4>1. blocks[p][i].from \in Header..PageSize /\ blocks[p][i].size \in 0..(PageSize - Header)
            /\ heap[p][j].used \in Header..PageSize
        BY <3>2 DEF Block, HeapPage
      <4> QED BY <1>e, <4>1, Words
    <3>4. blocks[p][i].from + blocks[p][i].size <= heap'[p][j].used
             /\ heap'[p][j].page = blocks[p][i].page
      <4>1. CASE j = k
        <5>1. heap'[p][j].page = heap[p][j].page /\ heap'[p][j].used = heap[p][j].used + bytes
          BY <1>n, <4>1
        <5> DEFINE x == blocks[p][i].from + blocks[p][i].size
                   y == heap[p][j].used
        <5>2. x \in Nat /\ y \in Nat
          BY <3>3
        <5>3. x <= y
          BY <3>1
        <5>4. bytes \in Nat
          BY <1>e
        <5> HIDE DEF x, y
        <5>5. x <= y + bytes
          BY <5>2, <5>3, <5>4
        <5> QED BY <3>1, <5>1, <5>5 DEF x, y
      <4>2. CASE j # k
        BY <1>n, <3>1, <4>2
      <4> QED BY <4>1, <4>2
    <3>5. page = blocks[p][i].page => j = k
      <4>1. Holds("heap", p, j, heap[p][j].page) /\ Holds("heap", p, k, page)
        BY <1>k DEF Holds
      <4> QED BY <1>h, <3>1, <4>1 DEF IInv, OneHolder
    <3>6. page = blocks[p][i].page => blocks[p][i].from + blocks[p][i].size <= end
      BY <3>1, <3>5
    <3>7. ~Overlap(blocks[p][i], block) /\ ~Overlap(block, blocks[p][i])
      BY <3>3, <3>6 DEF Overlap
    <3> QED BY <3>4, <3>7
  <2>2. ASSUME NEW q \in Proc, q # p
        PROVE  \A i \in 1..Len(blocks'[q]) :
                 /\ \E j \in 1..Len(heap'[q]) :
                      /\ heap'[q][j].page = blocks'[q][i].page
                      /\ blocks'[q][i].from + blocks'[q][i].size <= heap'[q][j].used
                 /\ \A j \in 1..Len(blocks'[q]) : Overlap(blocks'[q][i], blocks'[q][j]) => i = j
    <3>1. heap'[q] = heap[q] /\ blocks'[q] = blocks[q]
      BY <1>n, <1>m, <2>2
    <3> QED BY <3>1 DEF IInv, BlocksInside
  <2>3. ASSUME NEW i \in 1..Len(blocks'[p])
        PROVE  /\ \E j \in 1..Len(heap'[p]) :
                      /\ heap'[p][j].page = blocks'[p][i].page
                      /\ blocks'[p][i].from + blocks'[p][i].size <= heap'[p][j].used
               /\ \A j \in 1..Len(blocks'[p]) : Overlap(blocks'[p][i], blocks'[p][j]) => i = j
    <3> HIDE DEF block
    <3>1. \A j \in 1..Len(blocks'[p]) : j \in 1..Len(blocks[p]) \/ j = last
      BY <1>m
    <3>2. CASE i = last
      <4>1. \E j \in 1..Len(heap'[p]) :
                      /\ heap'[p][j].page = blocks'[p][i].page
                      /\ blocks'[p][i].from + blocks'[p][i].size <= heap'[p][j].used
        <5>1. block.page = page /\ block.from = end /\ block.size = bytes
          BY DEF block
        <5>2. end + bytes <= end + bytes
          BY <1>e
        <5>3. k \in 1..Len(heap'[p])
          BY <1>k, <1>n
        <5>4. blocks'[p][i] = block
          BY <1>m, <3>2
        <5> HIDE DEF page, end
        <5>5. heap'[p][k].page = blocks'[p][i].page
          BY <1>n, <5>1, <5>4
        <5>6. blocks'[p][i].from + blocks'[p][i].size <= heap'[p][k].used
          BY <1>n, <5>1, <5>2, <5>4
        <5> QED BY <5>3, <5>5, <5>6
      <4>2. \A j \in 1..Len(blocks'[p]) : Overlap(blocks'[p][i], blocks'[p][j]) => i = j
        BY <1>m, <2>1, <3>1, <3>2 DEF Overlap
      <4> QED BY <4>1, <4>2
    <3>3. CASE i \in 1..Len(blocks[p])
      <4>1. \E j \in 1..Len(heap'[p]) :
                      /\ heap'[p][j].page = blocks'[p][i].page
                      /\ blocks'[p][i].from + blocks'[p][i].size <= heap'[p][j].used
        <5>1. PICK j \in 1..Len(heap[p]) :
                 /\ heap'[p][j].page = blocks[p][i].page
                 /\ blocks[p][i].from + blocks[p][i].size <= heap'[p][j].used
          BY <2>1, <3>3
        <5>2. j \in 1..Len(heap'[p]) /\ blocks'[p][i] = blocks[p][i]
          BY <1>n, <1>m, <3>3
        <5> QED BY <5>1, <5>2
      <4>2. ASSUME NEW j \in 1..Len(blocks'[p]), Overlap(blocks'[p][i], blocks'[p][j]) PROVE i = j
        <5>1. CASE j = last
          <6>1. ~Overlap(blocks[p][i], block)
            BY <2>1, <3>3
          <6> QED BY <1>m, <3>3, <4>2, <5>1, <6>1
        <5>2. CASE j \in 1..Len(blocks[p])
          <6>1. blocks'[p][i] = blocks[p][i] /\ blocks'[p][j] = blocks[p][j]
            BY <1>m, <3>3, <5>2
          <6>2. Overlap(blocks[p][i], blocks[p][j])
            BY <4>2, <6>1
          <6> QED BY <3>3, <5>2, <6>2 DEF IInv, BlocksInside
        <5> QED BY <3>1, <5>1, <5>2
      <4> QED BY <4>1, <4>2
    <3> QED BY <3>1, <3>2, <3>3
  <2> QED BY <2>2, <2>3 DEF BlocksInside, Overlap
<1> QED BY <1>1, <1>2, <1>3, <1>4, <1>5 DEF IInv

(* Calls that begin by taking a page.                                      *)
LEMMA CallStep ==
  ASSUME IInv, NEW p \in Proc, At(p, "user"), pc' = [pc EXCEPT ![p] = "popTest"],
         local' \in [Proc -> LocalsSet], local'[p].op \in {"malloc", "open"},
         local'[p].page = NULL, \A q \in Proc : q # p => local'[q] = local[q],
         calls' \in 0..MaxCalls, UNCHANGED <<pool, table, streams, cpu>>
  PROVE  IInv'
<1>t. TypeOK /\ pc \in [Proc -> Point]
  BY TypeParts DEF IInv
<1>u. /\ cpu = p /\ pc[p] = "user" /\ status[p] = "running" /\ "popTest" \in Point
      /\ UNCHANGED <<pageStack, stackTop, status, stackPage, heap, blocks, streams, cpu>>
  BY DEF At, pool, table, Point, PopPoints
<1>1. TypeOK'
  BY <1>t, <1>u DEF TypeOK, LocalsSet
<1>2. InCallOf(p)'
  BY <1>t, <1>u DEF InCallOf, PopPoints, PushPoints
<1>3. Undisturbed' /\ InCall'
  <2>1. \A q \in Proc : q # p => pc'[q] = pc[q]
    BY <1>t
  <2> QED BY <1>u, <1>2, <2>1, OthersInCall
<1>4. Entries'
  <2>1. \A q \in Proc : local'[q].op = "create" => local[q].op = "create" /\ local'[q] = local[q]
    OBVIOUS
  <2> QED BY <1>u, <2>1 DEF IInv, Entries
<1>5. OneHolder'
  <2>1. FreeSlots' = FreeSlots
    BY <1>t, <1>u DEF FreeSlots
  <2>2. local[p].page = NULL
    BY <1>u, NoLocalsAre DEF IInv, InCall, InCallOf
  <2>3. \A q \in Proc : Carries(q)' = Carries(q)
    BY <1>t, <1>u, <2>2 DEF Carries
  <2> QED BY <1>u, <2>1, <2>3, Untouched DEF IInv
<1>6. BlocksInside'
  BY <1>u DEF IInv, BlocksInside
<1> QED BY <1>1, <1>3, <1>4, <1>5, <1>6 DEF IInv

(* malloc, whether a page has room or one is to be taken.                  *)
LEMMA CallMallocStep ==
  ASSUME IInv, NEW p \in Proc, NEW bytes \in Sizes, CallMalloc(p, bytes)
  PROVE  IInv'
<1> SUFFICES ASSUME Fits(p, bytes) = {} PROVE IInv'
  BY MallocFitsStep
<1>t. local \in [Proc -> LocalsSet] /\ calls \in 0..MaxCalls
  BY TypeParts DEF IInv
<1>u. /\ At(p, "user") /\ bytes \in 0..(PageSize - Header) /\ calls' \in 0..MaxCalls
      /\ local' = [local EXCEPT ![p].op = "malloc", ![p].size = bytes]
      /\ pc' = [pc EXCEPT ![p] = "popTest"]
      /\ UNCHANGED <<pool, table, streams, cpu>>
  <2>1. /\ At(p, "user") /\ bytes >= 0 /\ bytes <= PageSize - Header
        /\ calls < MaxCalls /\ calls' = calls + 1
        /\ local' = [local EXCEPT ![p].op = "malloc", ![p].size = bytes]
        /\ pc' = [pc EXCEPT ![p] = "popTest"]
        /\ UNCHANGED <<pool, table, streams, cpu>>
    BY DEF CallMalloc, Called, Goto, table
  <2>2. bytes \in 0..(PageSize - Header) /\ calls' \in 0..MaxCalls
    BY <1>t, <2>1, Numbers
  <2> QED BY <2>1, <2>2
<1>l. local[p].page = NULL
  BY <1>u, NoLocalsAre DEF At, IInv, InCall, InCallOf
<1>1. local' \in [Proc -> LocalsSet] /\ local'[p].op = "malloc" /\ local'[p].page = NULL
  <2>1. local[p] \in LocalsSet
    BY <1>t
  <2>2. local'[p] = [local[p] EXCEPT !.op = "malloc", !.size = bytes]
    BY <1>t, <1>u
  <2>s. bytes \in 0..(PageSize - Header)
    BY <1>u
  <2>3. local'[p] \in LocalsSet /\ local'[p].op = "malloc" /\ local'[p].page = NULL
    BY <1>l, <2>1, <2>2, <2>s DEF LocalsSet
  <2> QED BY <1>t, <1>u, <2>3
<1>2. \A q \in Proc : q # p => local'[q] = local[q]
  BY <1>t, <1>u
<1> QED BY <1>u, <1>1, <1>2, CallStep

(* createBasicFileWithName takes a page (basicFile.c:69-75).               *)
LEMMA CallOpenStep ==
  ASSUME IInv, NEW p \in Proc, CallOpen(p)
  PROVE  IInv'
<1>t. local \in [Proc -> LocalsSet] /\ calls \in 0..MaxCalls
  BY TypeParts DEF IInv
<1>u. /\ At(p, "user") /\ calls' = calls + 1 /\ calls < MaxCalls
      /\ local' = [local EXCEPT ![p].op = "open"]
      /\ pc' = [pc EXCEPT ![p] = "popTest"]
      /\ UNCHANGED <<pool, table, streams, cpu>>
  BY DEF CallOpen, Called, Goto
<1>c. calls' \in 0..MaxCalls
  BY <1>t, <1>u, Numbers
<1>l. local[p].page = NULL
  BY <1>u, NoLocalsAre DEF At, IInv, InCall, InCallOf
<1>1. local' \in [Proc -> LocalsSet] /\ local'[p].op = "open" /\ local'[p].page = NULL
  BY <1>t, <1>u, <1>l DEF LocalsSet
<1>2. \A q \in Proc : q # p => local'[q] = local[q]
  BY <1>t, <1>u
<1> QED BY <1>u, <1>c, <1>1, <1>2, CallStep

(* createProcess takes a free entry, then a page (process.c:163-182).      *)
LEMMA CallCreateStep ==
  ASSUME IInv, NEW p \in Proc, CallCreate(p)
  PROVE  IInv'
<1>t. /\ TypeOK /\ pc \in [Proc -> Point] /\ local \in [Proc -> LocalsSet] /\ calls \in 0..MaxCalls
      /\ status \in [Proc -> {"free", "building", "running", "finished"}]
  BY TypeParts DEF IInv
<1>e. PICK e \in Proc :
        /\ status[e] = "free" /\ status' = [status EXCEPT ![e] = "building"]
        /\ local' = [local EXCEPT ![p].op = "create", ![p].child = e]
  BY DEF CallCreate
<1>u. /\ cpu = p /\ pc[p] = "user" /\ status[p] = "running" /\ "popTest" \in Point
      /\ pc' = [pc EXCEPT ![p] = "popTest"] /\ calls' = calls + 1 /\ calls < MaxCalls
      /\ \A q \in Proc : local[q].op # "create"
      /\ UNCHANGED <<pageStack, stackTop, stackPage, heap, blocks, streams, cpu>>
  BY DEF CallCreate, At, Called, Goto, pool, Point, PopPoints
<1>n. local[p] \in LocalsSet /\ local[p].page = NULL
  BY <1>t, <1>u, NoLocalsAre DEF IInv, InCall, InCallOf
<1>l. /\ local' \in [Proc -> LocalsSet] /\ local'[p].op = "create" /\ local'[p].page = NULL
      /\ local'[p].child = e /\ \A q \in Proc : q # p => local'[q] = local[q]
  <2>1. local'[p] = [local[p] EXCEPT !.op = "create", !.child = e]
    BY <1>t, <1>e
  <2>2. /\ local'[p] \in LocalsSet /\ local'[p].op = "create" /\ local'[p].page = NULL
        /\ local'[p].child = e
    BY <1>n, <2>1 DEF LocalsSet
  <2> QED BY <1>t, <1>e, <2>2
<1>s. /\ status' \in [Proc -> {"free", "building", "running", "finished"}]
      /\ status'[e] = "building" /\ \A q \in Proc : q # e => status'[q] = status[q]
  BY <1>t, <1>e
<1>1. TypeOK'
  <2>1. calls' \in 0..MaxCalls
    BY <1>t, <1>u, Numbers
  <2> QED BY <1>t, <1>u, <1>l, <1>s, <2>1 DEF TypeOK, LocalsSet
<1>2. InCallOf(p)'
  BY <1>t, <1>e, <1>u, <1>l, <1>s DEF InCallOf, PopPoints, PushPoints
<1>3. Undisturbed' /\ InCall'
  <2>1. \A q \in Proc : q # p => /\ pc'[q] = pc[q] /\ local'[q] = local[q]
                                 /\ status[q] = "running" => status'[q] = "running"
    BY <1>t, <1>e, <1>u, <1>l, <1>s
  <2> QED BY <1>u, <1>2, <2>1, OthersInCall
<1>4. Entries'
  <2>1. \A q \in Proc : local'[q].op = "create" => q = p
    BY <1>u, <1>l
  <2> QED BY <1>e, <1>u, <1>l, <1>s, <2>1 DEF IInv, Entries
<1>5. OneHolder'
  <2>1. FreeSlots' = FreeSlots
    BY <1>t, <1>u DEF FreeSlots
  <2>2. \A q \in Proc : Carries(q)' = Carries(q)
    BY <1>t, <1>u, <1>n, <1>l DEF Carries
  <2> QED BY <1>u, <2>1, <2>2, Untouched DEF IInv
<1>6. BlocksInside'
  BY <1>u DEF IInv, BlocksInside
<1> QED BY <1>1, <1>3, <1>4, <1>5, <1>6 DEF IInv

(* A process that exits keeps its pages until destroyProcess.              *)
LEMMA ExitStep ==
  ASSUME IInv, NEW p \in Proc, Exit(p)
  PROVE  IInv'
<1>t. /\ TypeOK /\ pc \in [Proc -> Point]
      /\ status \in [Proc -> {"free", "building", "running", "finished"}]
  BY TypeParts DEF IInv
<1>u. /\ cpu = p /\ pc[p] = "user" /\ status[p] = "running"
      /\ status' = [status EXCEPT ![p] = "finished"] /\ cpu' \in Proc
      /\ UNCHANGED <<pageStack, stackTop, stackPage, heap, blocks, streams, pc, local, calls>>
  BY DEF Exit, At, pool, Running
<1>s. /\ status' \in [Proc -> {"free", "building", "running", "finished"}]
      /\ status'[p] = "finished" /\ \A q \in Proc : q # p => status'[q] = status[q]
  BY <1>t, <1>u
<1>1. TypeOK'
  BY <1>t, <1>u, <1>s DEF TypeOK
<1>2. Undisturbed'
  <2>1. \A q \in Proc : q # p => pc[q] \notin Window
    BY <1>u, OthersOutside DEF IInv
  <2> QED BY <1>u, <2>1 DEF Undisturbed, Window
<1>3. InCall'
  <2> SUFFICES ASSUME NEW q \in Proc PROVE InCallOf(q)'
    BY DEF InCall
  <2>1. InCallOf(q)
    BY DEF IInv, InCall
  <2> QED BY <1>u, <1>s, <2>1 DEF InCallOf
<1>4. Entries'
  BY <1>u, <1>s DEF IInv, Entries
<1>5. OneHolder'
  <2>1. FreeSlots' = FreeSlots /\ \A q \in Proc : Carries(q)' = Carries(q)
    BY <1>u DEF FreeSlots, Carries
  <2> QED BY <1>u, <2>1, Untouched DEF IInv
<1>6. BlocksInside'
  BY <1>u DEF IInv, BlocksInside
<1> QED BY <1>1, <1>2, <1>3, <1>4, <1>5, <1>6 DEF IInv

(* After popPage the page is with the process, and nowhere else.           *)
LEMMA PoppedPage ==
  ASSUME IInv, NEW p \in Proc, At(p, "popped")
  PROVE  /\ cpu = p /\ pc[p] = "popped" /\ status[p] = "running"
         /\ local[p].page \in Page /\ Carries(p) = local[p].page
         /\ Holds("local", p, 0, local[p].page)
         /\ \A kind, a, b : Holds(kind, a, b, local[p].page) => kind = "local" /\ a = p /\ b = 0
<1>1. cpu = p /\ pc[p] = "popped" /\ status[p] = "running"
  BY DEF At
<1>2. local[p].page # NULL /\ local[p] \in LocalsSet
  BY <1>1, TypeParts DEF IInv, InCall, InCallOf, PopPoints
<1>3. local[p].page \in Page /\ Carries(p) = local[p].page
  BY <1>1, <1>2 DEF LocalsSet, Carries
<1>4. Holds("local", p, 0, local[p].page)
  BY <1>3 DEF Holds
<1> QED BY <1>1, <1>3, <1>4 DEF IInv, OneHolder

(* What holds when a call that took a page returns, wherever the page      *)
(* went.                                                                   *)
LEMMA ReturnStep ==
  ASSUME IInv, NEW p \in Proc, At(p, "popped"), Return(p), UNCHANGED <<pool, cpu>>,
         \A q \in Proc : status[q] = "running" => status'[q] = "running"
  PROVE  /\ Undisturbed' /\ InCall' /\ pc' \in [Proc -> Point] /\ local' \in [Proc -> LocalsSet]
         /\ FreeSlots' = FreeSlots /\ Carries(p)' = NULL
         /\ \A q \in Proc : q # p => Carries(q)' = Carries(q) /\ local'[q] = local[q]
         /\ local'[p] = NoLocals
<1>t. pc \in [Proc -> Point] /\ local \in [Proc -> LocalsSet]
  BY TypeParts DEF IInv
<1>u. /\ cpu = p /\ pc[p] = "popped" /\ status[p] = "running" /\ "user" \in Point
      /\ pc' = [pc EXCEPT ![p] = "user"] /\ local' = [local EXCEPT ![p] = NoLocals]
      /\ UNCHANGED <<pageStack, stackTop, cpu>>
  BY DEF At, Return, Goto, pool, Point
<1>1. /\ pc' \in [Proc -> Point] /\ local' \in [Proc -> LocalsSet]
      /\ pc'[p] = "user" /\ local'[p] = NoLocals
      /\ \A q \in Proc : q # p => pc'[q] = pc[q] /\ local'[q] = local[q]
  BY <1>t, <1>u, NoLocalsAre
<1>2. InCallOf(p)'
  BY <1>1 DEF InCallOf, PopPoints, PushPoints
<1>3. Undisturbed' /\ InCall'
  BY <1>u, <1>1, <1>2, OthersInCall
<1>4. FreeSlots' = FreeSlots
  BY <1>u, <1>1 DEF FreeSlots
<1>5. Carries(p)' = NULL
  BY <1>1, NoLocalsAre DEF Carries
<1>6. \A q \in Proc : q # p => Carries(q)' = Carries(q)
  BY <1>u, <1>1 DEF Carries
<1> QED BY <1>1, <1>3, <1>4, <1>5, <1>6

(* The new page goes at the end of the heap, with the block in it          *)
(* (process.c:102-117).                                                    *)
LEMMA MallocPoppedStep ==
  ASSUME IInv, NEW p \in Proc, MallocPopped(p)
  PROVE  IInv'
<1> DEFINE page == local[p].page
           bytes == local[p].size
           next == [page |-> page, used |-> Header + bytes]
           block == [page |-> page, from |-> Header, size |-> bytes]
           last == Len(blocks[p]) + 1
<1>t. /\ TypeOK /\ heap \in [Proc -> Seq(HeapPage)] /\ blocks \in [Proc -> Seq(Block)]
      /\ pageStack \in [Index -> Page]
      /\ local[p] \in LocalsSet
  BY TypeParts DEF IInv
<1>p. /\ cpu = p /\ status[p] = "running" /\ page \in Page /\ Carries(p) = page
      /\ \A kind, a, b : Holds(kind, a, b, page) => kind = "local" /\ a = p /\ b = 0
  BY PoppedPage DEF MallocPopped
<1>u. /\ UNCHANGED <<pageStack, stackTop, status, stackPage, streams, cpu, calls>>
      /\ blocks' = [blocks EXCEPT ![p] = Append(blocks[p], block)]
      /\ heap' = [heap EXCEPT ![p] = Append(heap[p], next)]
  BY <1>p, Numbers DEF MallocPopped, pool
<1>r. /\ Undisturbed' /\ InCall' /\ pc' \in [Proc -> Point] /\ local' \in [Proc -> LocalsSet]
      /\ FreeSlots' = FreeSlots /\ Carries(p)' = NULL
      /\ \A q \in Proc : q # p => Carries(q)' = Carries(q) /\ local'[q] = local[q]
      /\ local'[p] = NoLocals
  BY <1>u, ReturnStep DEF MallocPopped
<1>b. /\ bytes \in Nat /\ bytes \in 0..(PageSize - Header)
      /\ Header + bytes \in Header..PageSize /\ next \in HeapPage /\ block \in Block
      /\ next.page = page /\ next.used = Header + bytes
      /\ block.page = page /\ block.from = Header /\ block.size = bytes
  <2>1. bytes \in 0..(PageSize - Header)
    BY <1>t DEF LocalsSet
  <2> HIDE DEF bytes
  <2>2. bytes \in Nat /\ Header + bytes \in Header..PageSize /\ Header \in Header..PageSize
    BY <2>1, Numbers
  <2> HIDE DEF page
  <2> QED BY <1>p, <2>1, <2>2 DEF HeapPage, Block
<1>h. /\ Len(heap[p]) \in Nat /\ heap'[p] \in Seq(HeapPage) /\ Len(heap'[p]) = Len(heap[p]) + 1
      /\ heap'[p][Len(heap[p]) + 1] = next
      /\ \A k \in 1..Len(heap[p]) : heap'[p][k] = heap[p][k]
      /\ \A q \in Proc : q # p => heap'[q] = heap[q]
      /\ Len(blocks[p]) \in Nat /\ blocks'[p] \in Seq(Block) /\ Len(blocks'[p]) = last
      /\ blocks'[p][last] = block
      /\ \A k \in 1..Len(blocks[p]) : blocks'[p][k] = blocks[p][k]
      /\ \A q \in Proc : q # p => blocks'[q] = blocks[q]
  <2> HIDE DEF next, block
  <2>1. heap[p] \in Seq(HeapPage) /\ blocks[p] \in Seq(Block)
    BY <1>t
  <2>2. heap'[p] = Append(heap[p], next) /\ blocks'[p] = Append(blocks[p], block)
    BY <1>t, <1>u
  <2>3. \A q \in Proc : q # p => heap'[q] = heap[q] /\ blocks'[q] = blocks[q]
    BY <1>t, <1>u
  <2> QED BY <1>b, <2>1, <2>2, <2>3, AppendProperties
<1>1. TypeOK'
  <2>1. heap' \in [Proc -> Seq(HeapPage)] /\ blocks' \in [Proc -> Seq(Block)]
    BY <1>t, <1>u, <1>h
  <2> QED BY <1>t, <1>u, <1>r, <2>1 DEF TypeOK, HeapPage, Block, LocalsSet
<1>2. Entries'
  <2>1. \A q \in Proc : local'[q].op = "create" => q # p /\ local'[q] = local[q]
    BY <1>r, NoLocalsAre
  <2>2. UNCHANGED <<status, stackPage>> /\ status[p] = "running"
    BY <1>p, <1>u
  <2>3. \A q \in Proc : q # p => heap'[q] = heap[q] /\ blocks'[q] = blocks[q]
    BY <1>h
  <2> QED BY <2>1, <2>2, <2>3 DEF IInv, Entries
<1> HIDE DEF next, block, page, bytes
<1>3. OneHolder'
  <2>1. ASSUME NEW kind, NEW a, NEW b, NEW other \in Page
        PROVE  Holds(kind, a, b, other)' <=>
                 \/ other = page /\ kind = "heap" /\ a = p /\ b = Len(heap[p]) + 1
                 \/ other # page /\ Holds(kind, a, b, other)
    <3>1. kind \notin {"heap", "local"} => (Holds(kind, a, b, other)' <=> Holds(kind, a, b, other))
      BY <1>u, <1>r DEF Holds
    <3>2. kind = "local" => (Holds(kind, a, b, other)' <=> a # p /\ Holds(kind, a, b, other))
      BY <1>r, Numbers DEF Holds
    <3>3. kind = "local" /\ a = p /\ Holds(kind, a, b, other) => other = page
      BY <1>p DEF Holds
    <3>4. kind = "heap" /\ a # p => (Holds(kind, a, b, other)' <=> Holds(kind, a, b, other))
      BY <1>h DEF Holds
    <3>5. kind = "heap" /\ a = p => (Holds(kind, a, b, other)' <=> \/ b = Len(heap[p]) + 1 /\ other = page
                                                                   \/ Holds(kind, a, b, other))
      <4>1. b \in 1..(Len(heap[p]) + 1) <=> b = Len(heap[p]) + 1 \/ b \in 1..Len(heap[p])
        BY <1>h
      <4>2. b \in 1..Len(heap[p]) => b # Len(heap[p]) + 1
        BY <1>h
      <4> QED BY <1>b, <1>h, <4>1, <4>2 DEF Holds
    <3>6. other = page => (Holds(kind, a, b, other) => kind = "local" /\ a = p)
      BY <1>p
    <3> QED BY <3>1, <3>2, <3>3, <3>4, <3>5, <3>6
  <2>2. Moves(page, "heap", p, Len(heap[p]) + 1)
    BY <2>1 DEF Moves
  <2> QED BY <1>p, <2>2, MovedHolder DEF IInv
<1>4. BlocksInside'
  <2>1. ASSUME NEW i \in 1..Len(blocks[p])
        PROVE  /\ \E j \in 1..Len(heap[p]) :
                    /\ heap[p][j].page = blocks[p][i].page
                    /\ blocks[p][i].from + blocks[p][i].size <= heap[p][j].used
               /\ blocks[p][i].page # page
    <3>1. PICK j \in 1..Len(heap[p]) : /\ heap[p][j].page = blocks[p][i].page
                                       /\ blocks[p][i].from + blocks[p][i].size <= heap[p][j].used
      BY DEF IInv, BlocksInside
    <3>2. Holds("heap", p, j, heap[p][j].page)
      BY DEF Holds
    <3>3. heap[p][j].page # page
      BY <1>p, <3>2
    <3> QED BY <3>1, <3>3
  <2>2. ASSUME NEW q \in Proc, q # p
        PROVE  \A i \in 1..Len(blocks'[q]) :
                 /\ \E j \in 1..Len(heap'[q]) :
                      /\ heap'[q][j].page = blocks'[q][i].page
                      /\ blocks'[q][i].from + blocks'[q][i].size <= heap'[q][j].used
                 /\ \A j \in 1..Len(blocks'[q]) : Overlap(blocks'[q][i], blocks'[q][j]) => i = j
    <3>1. heap'[q] = heap[q] /\ blocks'[q] = blocks[q]
      BY <1>h, <2>2
    <3> QED BY <3>1 DEF IInv, BlocksInside
  <2>3. ASSUME NEW i \in 1..Len(blocks'[p])
        PROVE  /\ \E j \in 1..Len(heap'[p]) :
                      /\ heap'[p][j].page = blocks'[p][i].page
                      /\ blocks'[p][i].from + blocks'[p][i].size <= heap'[p][j].used
               /\ \A j \in 1..Len(blocks'[p]) : Overlap(blocks'[p][i], blocks'[p][j]) => i = j
    <3>1. \A j \in 1..Len(blocks'[p]) : j \in 1..Len(blocks[p]) \/ j = last
      BY <1>h
    <3>2. CASE i = last
      <4>1. \E j \in 1..Len(heap'[p]) :
                      /\ heap'[p][j].page = blocks'[p][i].page
                      /\ blocks'[p][i].from + blocks'[p][i].size <= heap'[p][j].used
        <5>1. Len(heap[p]) + 1 \in 1..Len(heap'[p])
          BY <1>h
        <5>2. Header + bytes <= Header + bytes
          BY <1>b, Numbers
        <5> QED BY <1>b, <1>h, <3>2, <5>1, <5>2
      <4>2. \A j \in 1..Len(blocks'[p]) : Overlap(blocks'[p][i], blocks'[p][j]) => i = j
        BY <1>b, <1>h, <2>1, <3>1, <3>2 DEF Overlap
      <4> QED BY <4>1, <4>2
    <3>3. CASE i \in 1..Len(blocks[p])
      <4>1. \E j \in 1..Len(heap'[p]) :
                      /\ heap'[p][j].page = blocks'[p][i].page
                      /\ blocks'[p][i].from + blocks'[p][i].size <= heap'[p][j].used
        <5>1. PICK j \in 1..Len(heap[p]) :
                 /\ heap[p][j].page = blocks[p][i].page
                 /\ blocks[p][i].from + blocks[p][i].size <= heap[p][j].used
          BY <2>1, <3>3
        <5>2. j \in 1..Len(heap'[p]) /\ heap'[p][j] = heap[p][j] /\ blocks'[p][i] = blocks[p][i]
          BY <1>h, <3>3
        <5> QED BY <5>1, <5>2
      <4>2. ASSUME NEW j \in 1..Len(blocks'[p]), Overlap(blocks'[p][i], blocks'[p][j]) PROVE i = j
        <5>1. CASE j = last
          BY <1>b, <1>h, <2>1, <3>3, <4>2, <5>1 DEF Overlap
        <5>2. CASE j \in 1..Len(blocks[p])
          <6>1. blocks'[p][i] = blocks[p][i] /\ blocks'[p][j] = blocks[p][j]
            BY <1>h, <3>3, <5>2
          <6>2. Overlap(blocks[p][i], blocks[p][j])
            BY <4>2, <6>1
          <6> QED BY <3>3, <5>2, <6>2 DEF IInv, BlocksInside
        <5> QED BY <3>1, <5>1, <5>2
      <4> QED BY <4>1, <4>2
    <3> QED BY <3>1, <3>2, <3>3
  <2> QED BY <2>2, <2>3 DEF BlocksInside, Overlap
<1> QED BY <1>1, <1>2, <1>3, <1>4, <1>r DEF IInv

(* The page becomes the stack of the new process (process.c:482-492).      *)
LEMMA CreatePoppedStep ==
  ASSUME IInv, NEW p \in Proc, CreatePopped(p)
  PROVE  IInv'
<1> DEFINE page == local[p].page
           child == local[p].child
<1>t. /\ TypeOK /\ stackPage \in [Proc -> Page \cup {NULL}]
      /\ status \in [Proc -> {"free", "building", "running", "finished"}]
      /\ local[p] \in LocalsSet /\ child \in Proc
  BY TypeParts DEF IInv, LocalsSet
<1>p. /\ cpu = p /\ status[p] = "running" /\ page \in Page /\ Carries(p) = page
      /\ \A kind, a, b : Holds(kind, a, b, page) => kind = "local" /\ a = p /\ b = 0
  BY PoppedPage DEF CreatePopped
<1>c. /\ status[child] = "building" /\ stackPage[child] = NULL /\ heap[child] = <<>>
      /\ blocks[child] = <<>> /\ \A q \in Proc : local[q].op = "create" => q = p
  BY <1>t DEF CreatePopped, IInv, Entries
<1>u. /\ UNCHANGED <<pageStack, stackTop, heap, blocks, streams, cpu, calls>>
      /\ stackPage' = [stackPage EXCEPT ![child] = page]
      /\ status' = [status EXCEPT ![child] = "running"]
  BY <1>p, Numbers DEF CreatePopped, pool
<1>s. /\ stackPage'[child] = page /\ status'[child] = "running"
      /\ \A q \in Proc : q # child => stackPage'[q] = stackPage[q] /\ status'[q] = status[q]
      /\ stackPage' \in [Proc -> Page \cup {NULL}]
      /\ status' \in [Proc -> {"free", "building", "running", "finished"}]
  BY <1>t, <1>u, <1>p
<1>r. /\ Undisturbed' /\ InCall' /\ pc' \in [Proc -> Point] /\ local' \in [Proc -> LocalsSet]
      /\ FreeSlots' = FreeSlots /\ Carries(p)' = NULL
      /\ \A q \in Proc : q # p => Carries(q)' = Carries(q) /\ local'[q] = local[q]
      /\ local'[p] = NoLocals
  <2>1. \A q \in Proc : status[q] = "running" => status'[q] = "running"
    BY <1>s
  <2>2. At(p, "popped") /\ Return(p) /\ UNCHANGED <<pool, cpu>>
    BY DEF CreatePopped
  <2> QED BY <2>1, <2>2, ReturnStep
<1> HIDE DEF page, child
<1>1. TypeOK'
  BY <1>t, <1>u, <1>s, <1>r DEF TypeOK, LocalsSet
<1>2. Entries'
  <2>1. \A q \in Proc : local'[q].op # "create"
    BY <1>c, <1>r, NoLocalsAre
  <2>2. page # NULL
    BY <1>p, Numbers
  <2> QED BY <1>u, <1>s, <2>1, <2>2 DEF IInv, Entries
<1>3. OneHolder'
  <2>1. ASSUME NEW kind, NEW a, NEW b, NEW other \in Page
        PROVE  Holds(kind, a, b, other)' <=>
                 \/ other = page /\ kind = "stack" /\ a = child /\ b = 0
                 \/ other # page /\ Holds(kind, a, b, other)
    <3>1. kind \notin {"stack", "local"} => (Holds(kind, a, b, other)' <=> Holds(kind, a, b, other))
      BY <1>u, <1>r DEF Holds
    <3>2. kind = "local" => (Holds(kind, a, b, other)' <=> a # p /\ Holds(kind, a, b, other))
      BY <1>r, Numbers DEF Holds
    <3>3. kind = "local" /\ a = p /\ Holds(kind, a, b, other) => other = page
      BY <1>p DEF Holds
    <3>4. kind = "stack" => (Holds(kind, a, b, other)' <=> \/ a = child /\ b = 0 /\ other = page
                                                           \/ a # child /\ Holds(kind, a, b, other))
      BY <1>s, <1>t DEF Holds
    <3>5. kind = "stack" /\ a = child => ~Holds(kind, a, b, other)
      BY <1>c, Numbers DEF Holds
    <3>6. other = page => (Holds(kind, a, b, other) => kind = "local" /\ a = p)
      BY <1>p
    <3> QED BY <3>1, <3>2, <3>3, <3>4, <3>5, <3>6
  <2>2. Moves(page, "stack", child, 0)
    BY <2>1 DEF Moves
  <2> QED BY <1>p, <2>2, MovedHolder DEF IInv
<1>4. BlocksInside'
  BY <1>u DEF IInv, BlocksInside
<1> QED BY <1>1, <1>2, <1>3, <1>4, <1>r DEF IInv

(* The page becomes a stream (basicFile.c:76-84).                          *)
LEMMA OpenPoppedStep ==
  ASSUME IInv, NEW p \in Proc, OpenPopped(p)
  PROVE  IInv'
<1> DEFINE page == local[p].page
<1>t. TypeOK /\ streams \subseteq Page
  BY TypeParts DEF IInv
<1>p. /\ cpu = p /\ status[p] = "running" /\ page \in Page /\ Carries(p) = page
      /\ \A kind, a, b : Holds(kind, a, b, page) => kind = "local" /\ a = p /\ b = 0
  BY PoppedPage DEF OpenPopped
<1>u. /\ UNCHANGED <<pageStack, stackTop, status, stackPage, heap, blocks, cpu, calls>>
      /\ streams' = streams \cup {page}
  BY <1>p, Numbers DEF OpenPopped, pool, table
<1>r. /\ Undisturbed' /\ InCall' /\ pc' \in [Proc -> Point] /\ local' \in [Proc -> LocalsSet]
      /\ FreeSlots' = FreeSlots /\ Carries(p)' = NULL
      /\ \A q \in Proc : q # p => Carries(q)' = Carries(q) /\ local'[q] = local[q]
      /\ local'[p] = NoLocals
  BY <1>u, ReturnStep DEF OpenPopped
<1> HIDE DEF page
<1>1. TypeOK'
  BY <1>t, <1>p, <1>u, <1>r DEF TypeOK, LocalsSet
<1>2. Entries'
  <2>1. \A q \in Proc : local'[q].op = "create" => q # p /\ local'[q] = local[q]
    BY <1>r, NoLocalsAre
  <2> QED BY <1>u, <2>1 DEF IInv, Entries
<1>3. OneHolder'
  <2>1. ASSUME NEW kind, NEW a, NEW b, NEW other \in Page
        PROVE  Holds(kind, a, b, other)' <=>
                 \/ other = page /\ kind = "stream" /\ a = page /\ b = 0
                 \/ other # page /\ Holds(kind, a, b, other)
    <3>1. kind \notin {"stream", "local"} => (Holds(kind, a, b, other)'
             <=> Holds(kind, a, b, other))
      BY <1>u, <1>r DEF Holds
    <3>2. kind = "local" => (Holds(kind, a, b, other)' <=> a # p /\ Holds(kind, a, b, other))
      BY <1>r, Numbers DEF Holds
    <3>3. kind = "local" /\ a = p /\ Holds(kind, a, b, other) => other = page
      BY <1>p DEF Holds
    <3>4. kind = "stream" => (Holds(kind, a, b, other)' <=> \/ a = page /\ b = 0 /\ other = page
                                                            \/ Holds(kind, a, b, other))
      BY <1>u DEF Holds
    <3>6. other = page => (Holds(kind, a, b, other) => kind = "local" /\ a = p)
      BY <1>p
    <3> QED BY <3>1, <3>2, <3>3, <3>4, <3>6
  <2>2. Moves(page, "stream", page, 0)
    BY <2>1 DEF Moves
  <2> QED BY <1>p, <2>2, MovedHolder DEF IInv
<1>4. BlocksInside'
  BY <1>u DEF IInv, BlocksInside
<1> QED BY <1>1, <1>2, <1>3, <1>4, <1>r DEF IInv

(* The file is not created: the page goes back (basicFile.c:79-83).        *)
LEMMA OpenFailsStep ==
  ASSUME IInv, NEW p \in Proc, OpenFails(p)
  PROVE  IInv'
<1>t. pc \in [Proc -> Point] /\ TypeOK
  BY TypeParts DEF IInv
<1>u. /\ cpu = p /\ pc[p] = "popped" /\ local[p].op = "open" /\ local[p].page # NULL
      /\ status[p] = "running" /\ pc' = [pc EXCEPT ![p] = "pushTest"] /\ "pushTest" \in Point
      /\ UNCHANGED <<pageStack, stackTop, status, stackPage, heap, blocks, streams, cpu, local,
            calls>>
  BY DEF OpenFails, At, Goto, pool, table, Point, PushPoints
<1>1. TypeOK'
  BY <1>t, <1>u DEF TypeOK
<1>2. InCallOf(p)'
  BY <1>t, <1>u DEF InCallOf, PopPoints, PushPoints
<1>3. OneHolder'
  <2>1. FreeSlots' = FreeSlots
    BY <1>t, <1>u DEF FreeSlots
  <2>2. \A q \in Proc : Carries(q)' = Carries(q)
    BY <1>t, <1>u DEF Carries
  <2> QED BY <1>u, <2>1, <2>2, Untouched DEF IInv
<1> QED BY <1>u, <1>1, <1>2, <1>3, PoolStep DEF table

(* destroyBasicFile takes the page from the file (basicFile.c:165-176).    *)
LEMMA CallCloseStep ==
  ASSUME IInv, NEW p \in Proc, CallClose(p)
  PROVE  IInv'
<1>t. /\ TypeOK /\ streams \subseteq Page /\ pc \in [Proc -> Point]
      /\ local \in [Proc -> LocalsSet] /\ calls \in 0..MaxCalls
  BY TypeParts DEF IInv
<1>g. PICK page \in streams : /\ streams' = streams \ {page}
                              /\ local' = [local EXCEPT ![p].op = "close", ![p].page = page]
  BY DEF CallClose
<1>u. /\ cpu = p /\ pc[p] = "user" /\ status[p] = "running"
      /\ pc' = [pc EXCEPT ![p] = "pushTest"] /\ "pushTest" \in Point
      /\ calls' = calls + 1 /\ calls < MaxCalls
      /\ UNCHANGED <<pageStack, stackTop, status, stackPage, heap, blocks, cpu>>
  BY DEF CallClose, At, Called, Goto, pool, table, Point, PushPoints
<1>q. page \in Page /\ page # NULL
  BY <1>t, Numbers
<1>n. local[p] \in LocalsSet /\ local[p].page = NULL
  BY <1>t, <1>u, NoLocalsAre DEF IInv, InCall, InCallOf
<1>l. /\ local' \in [Proc -> LocalsSet] /\ local'[p].op = "close" /\ local'[p].page = page
      /\ \A q \in Proc : q # p => local'[q] = local[q]
  <2>1. local'[p] = [local[p] EXCEPT !.op = "close", !.page = page]
    BY <1>t, <1>g
  <2>2. local'[p] \in LocalsSet /\ local'[p].op = "close" /\ local'[p].page = page
    BY <1>n, <1>q, <2>1 DEF LocalsSet
  <2> QED BY <1>t, <1>g, <2>2
<1>1. TypeOK'
  <2>1. calls' \in 0..MaxCalls /\ streams' \subseteq Page
    BY <1>t, <1>g, <1>u, Numbers
  <2> QED BY <1>t, <1>u, <1>l, <2>1 DEF TypeOK, LocalsSet
<1>2. InCallOf(p)'
  BY <1>t, <1>u, <1>l, <1>q DEF InCallOf, PopPoints, PushPoints
<1>3. Undisturbed' /\ InCall'
  <2>1. \A q \in Proc : q # p => pc'[q] = pc[q] /\ local'[q] = local[q]
    BY <1>t, <1>u, <1>l
  <2> QED BY <1>u, <1>2, <2>1, OthersInCall
<1>4. Entries'
  <2>1. \A q \in Proc : local'[q].op = "create" => local[q].op = "create" /\ local'[q] = local[q]
    BY <1>l
  <2> QED BY <1>u, <2>1 DEF IInv, Entries
<1>5. OneHolder'
  <2>1. FreeSlots' = FreeSlots
    BY <1>t, <1>u DEF FreeSlots
  <2>2. Carries(p) = NULL /\ Carries(p)' = page /\ NULL \notin Page
    BY <1>t, <1>u, <1>n, <1>l, Numbers DEF Carries
  <2>3. \A q \in Proc : q # p => Carries(q)' = Carries(q)
    BY <1>t, <1>u, <1>l DEF Carries
  <2>4. Holds("stream", page, 0, page)
    BY DEF Holds
  <2>5. ASSUME NEW kind, NEW a, NEW b, NEW other \in Page
        PROVE  Holds(kind, a, b, other)' <=> \/ other = page /\ kind = "local" /\ a = p /\ b = 0
                                             \/ other # page /\ Holds(kind, a, b, other)
    <3>1. \A k, c, d : Holds(k, c, d, page) => k = "stream" /\ c = page /\ d = 0
      BY <1>q, <2>4 DEF IInv, OneHolder
    <3>2. kind \notin {"stream", "local"} => (Holds(kind, a, b, other)'
             <=> Holds(kind, a, b, other))
      BY <1>u, <2>1 DEF Holds
    <3>3. kind = "stream" => (Holds(kind, a, b, other)'
             <=> other # page /\ Holds(kind, a, b, other))
      BY <1>g DEF Holds
    <3>4. kind = "local" => (Holds(kind, a, b, other)' <=> \/ a = p /\ b = 0 /\ other = page
                                                           \/ a # p /\ Holds(kind, a, b, other))
      BY <2>2, <2>3 DEF Holds
    <3>5. ~Holds("local", p, b, other)
      BY <2>2 DEF Holds
    <3> QED BY <3>1, <3>2, <3>3, <3>4, <3>5
  <2>6. Moves(page, "local", p, 0)
    BY <2>5 DEF Moves
  <2> QED BY <1>q, <2>6, MovedHolder DEF IInv
<1>6. BlocksInside'
  BY <1>u DEF IInv, BlocksInside
<1> QED BY <1>1, <1>3, <1>4, <1>5, <1>6 DEF IInv
-----------------------------------------------------------------------------

(* A file that is missed leaves the pages where they are.                  *)
LEMMA CloseMissesStep ==
  ASSUME IInv, NEW p \in Proc, CloseMisses(p)
  PROVE  IInv'
<1>u. /\ UNCHANGED <<pageStack, stackTop, status, stackPage, heap, blocks, streams, cpu, pc,
            local>>
      /\ calls' = calls + 1 /\ calls < MaxCalls
  BY DEF CloseMisses, Called, pool, table
<1>1. TypeOK'
  <2>1. calls' \in 0..MaxCalls
    BY <1>u, TypeParts, Numbers DEF IInv
  <2> QED BY <1>u, <2>1 DEF IInv, TypeOK
<1>2. Undisturbed' /\ InCall' /\ Entries' /\ BlocksInside'
  BY <1>u DEF IInv, Undisturbed, InCall, InCallOf, Entries, BlocksInside
<1>3. OneHolder'
  <2>1. FreeSlots' = FreeSlots /\ \A q \in Proc : Carries(q)' = Carries(q)
    BY <1>u DEF FreeSlots, Carries
  <2> QED BY <1>u, <2>1, Untouched DEF IInv
<1> QED BY <1>1, <1>2, <1>3 DEF IInv
-----------------------------------------------------------------------------

(* What a number of calls of pushPage leave, one page in each slot below   *)
(* the top in the order of the calls: the closed form of the recursive     *)
(* function PushAll, by induction.                                         *)
LEMMA PushAllIs ==
  ASSUME NEW stack \in [Index -> Page], NEW top \in 0..(NumPages - 1),
         NEW pages \in Seq(Page), Len(pages) < top
  PROVE  LET all == PushAll([stack |-> stack, top |-> top], pages) IN
         /\ all.top = top - Len(pages) /\ all.stack \in [Index -> Page]
         /\ \A k \in 1..Len(pages) : all.stack[top - k] = pages[k]
         /\ \A i \in Index : i >= top => all.stack[i] = stack[i]
<1> DEFINE s == [stack |-> stack, top |-> top]
           n == Len(pages)
           filled(k) == [i \in Index |-> IF i >= top - k
              /\ i < top THEN pages[top - i] ELSE stack[i]]
           g == [k \in 0..n |-> [stack |-> filled(k), top |-> top - k]]
           Follows(f) == f = [k \in 0..n |-> IF k = 0 THEN s ELSE Push(f[k - 1], pages[k])]
           after == CHOOSE f : Follows(f)
<1>n. n \in Nat /\ top \in Nat /\ n < top /\ top < NumPages /\ \A k \in 1..n : pages[k] \in Page
  BY Numbers
<1>0. PushAll(s, pages) = after[n]
  BY DEF PushAll
<1>f. \A k \in 0..n : filled(k) \in [Index -> Page]
  <2> SUFFICES ASSUME NEW k \in 0..n, NEW i \in Index, i >= top - k, i < top
               PROVE  pages[top - i] \in Page
    OBVIOUS
  <2>1. top - i \in 1..n
    BY <1>n, Numbers DEF Index
  <2> QED BY <1>n, <2>1
<1>1. filled(0) = stack
  BY <1>n, Numbers DEF Index
<1>2. ASSUME NEW k \in 1..n
      PROVE  Push([stack |-> filled(k - 1), top |-> top - (k - 1)], pages[k]) =
               [stack |-> filled(k), top |-> top - k]
  <2> DEFINE t == top - (k - 1)
  <2>1. t \in Nat /\ t > 0 /\ t < NumPages /\ t - 1 = top - k /\ t - 1 \in Index /\ MayPush(t)
    BY <1>n, Numbers DEF MayPush, Index
  <2>2. [filled(k - 1) EXCEPT ![t - 1] = pages[k]] = filled(k)
    <3> SUFFICES ASSUME NEW i \in Index
                 PROVE  (IF i = top - k THEN pages[k] ELSE filled(k - 1)[i]) = filled(k)[i]
      BY <2>1
    <3>1. i \in Nat
      BY DEF Index
    <3>2. CASE i = top - k
      <4>1. top - i = k /\ i >= top - k /\ i < top
        BY <1>n, <3>2
      <4> QED BY <3>2, <4>1
    <3>3. CASE i # top - k
      <4>1. (i >= top - (k - 1) /\ i < top) <=> (i >= top - k /\ i < top)
        BY <1>n, <3>1, <3>3
      <4> QED BY <3>3, <4>1
    <3> QED BY <3>2, <3>3
  <2> HIDE DEF t, filled
  <2> QED BY <2>1, <2>2 DEF Push, t
<1> HIDE DEF filled
<1>3. Follows(g)
  <2> SUFFICES ASSUME NEW k \in 0..n
               PROVE  g[k] = IF k = 0 THEN s ELSE Push(g[k - 1], pages[k])
    OBVIOUS
  <2>1. CASE k = 0
    <3>1. g[0] = [stack |-> filled(0), top |-> top - 0] /\ top - 0 = top
      BY <1>n
    <3> QED BY <1>1, <2>1, <3>1
  <2>2. CASE k # 0
    <3>1. k \in 1..n /\ k - 1 \in 0..n
      BY <1>n, <2>2
    <3>2. g[k - 1] = [stack |-> filled(k - 1), top |-> top - (k - 1)]
          /\ g[k] = [stack |-> filled(k), top |-> top - k]
      BY <3>1
    <3> QED BY <1>2, <2>2, <3>1, <3>2
  <2> QED BY <2>1, <2>2
<1> HIDE DEF Follows
<1>4. Follows(after)
  <2> HIDE DEF g
  <2> QED BY <1>3
<1> HIDE DEF after
<1>a. after[0] = s /\ \A k \in 1..n : after[k] = Push(after[k - 1], pages[k])
  <2> HIDE DEF s
  <2>1. \A k \in 0..n : after[k] = IF k = 0 THEN s ELSE Push(after[k - 1], pages[k])
    BY <1>4 DEF Follows
  <2>2. 0 \in 0..n /\ \A k \in 1..n : k \in 0..n /\ k # 0
    BY <1>n
  <2> QED BY <2>1, <2>2
<1>5. \A k \in 0..n : after[k] = [stack |-> filled(k), top |-> top - k]
  <2> DEFINE S == {k \in Nat : k \in 0..n => after[k] = [stack |-> filled(k), top |-> top - k]}
  <2>1. 0 \in S
    <3>1. top - 0 = top
      BY <1>n
    <3> QED BY <1>1, <1>a, <3>1
  <2>2. ASSUME NEW k \in S PROVE k + 1 \in S
    <3> SUFFICES ASSUME k + 1 \in 0..n
                 PROVE  after[k + 1] = [stack |-> filled(k + 1), top |-> top - (k + 1)]
      OBVIOUS
    <3>1. k \in Nat /\ k \in 0..n /\ k + 1 \in 1..n /\ (k + 1) - 1 = k
      BY <1>n
    <3>2. after[k] = [stack |-> filled(k), top |-> top - k]
      BY <3>1
    <3>3. after[k + 1] = Push(after[k], pages[k + 1])
      BY <1>a, <3>1
    <3>4. Push([stack |-> filled((k + 1) - 1), top |-> top - ((k + 1) - 1)], pages[k + 1]) =
            [stack |-> filled(k + 1), top |-> top - (k + 1)]
      BY <1>2, <3>1
    <3> QED BY <3>1, <3>2, <3>3, <3>4
  <2>3. Nat \subseteq S
    <3> HIDE DEF S
    <3> QED BY <2>1, <2>2, NatIsInductive
  <2> QED BY <1>n, <2>3
<1>6. PushAll(s, pages) = [stack |-> filled(n), top |-> top - n]
  BY <1>0, <1>5, <1>n
<1>7. \A k \in 1..n : filled(n)[top - k] = pages[k]
  <2> SUFFICES ASSUME NEW k \in 1..n PROVE filled(n)[top - k] = pages[k]
    OBVIOUS
  <2>1. top - k \in Index /\ top - k >= top - n /\ top - k < top /\ top - (top - k) = k
    BY <1>n, Numbers DEF Index
  <2> QED BY <2>1 DEF filled
<1>8. \A i \in Index : i >= top => filled(n)[i] = stack[i]
  BY <1>n, Numbers DEF filled, Index
<1> QED BY <1>6, <1>7, <1>8, <1>f, <1>n

(* The slots pushed to but the first, counted from the top.                *)
LEMMA BelowTheTop ==
  \A top, n, len, i \in Int :
    n = len + 1 /\ i >= top - n /\ i < top - 1 => \E k \in 1..len : i = top - 1 - k
<1> SUFFICES ASSUME NEW top \in Int, NEW n \in Int, NEW len \in Int, NEW i \in Int,
                    n = len + 1, i >= top - n, i < top - 1
             PROVE  \E k \in 1..len : i = top - 1 - k
  OBVIOUS
<1>1. top - 1 - i \in 1..len /\ i = top - 1 - (top - 1 - i)
  OBVIOUS
<1> QED BY <1>1

(* destroyProcess gives back the stack, then the heap in its order.        *)
LEMMA PagesOfIs ==
  ASSUME IInv, NEW z \in Proc, status[z] = "finished"
  PROVE  /\ PagesOf(z) \in Seq(Page) /\ Len(heap[z]) \in Nat
         /\ Len(PagesOf(z)) = Len(heap[z]) + 1 /\ PagesOf(z)[1] = stackPage[z]
         /\ \A k \in 1..Len(heap[z]) : PagesOf(z)[k + 1] = heap[z][k].page
<1>1. stackPage[z] \in Page /\ heap[z] \in Seq(HeapPage)
  <2>1. stackPage[z] \in Page \cup {NULL} /\ heap[z] \in Seq(HeapPage)
    BY TypeParts DEF IInv
  <2> QED BY <2>1 DEF IInv, Entries
<1>2. ASSUME NEW k \in 1..Len(heap[z]) PROVE heap[z][k].page \in Page
  <2>1. heap[z][k] \in HeapPage
    BY <1>1
  <2> QED BY <2>1 DEF HeapPage
<1> DEFINE rest == [k \in 1..Len(heap[z]) |-> heap[z][k].page]
<1>3. rest \in Seq(Page) /\ Len(rest) = Len(heap[z]) /\ Len(heap[z]) \in Nat
  BY <1>1, <1>2
<1>4. \A k \in 1..Len(heap[z]) : rest[k] = heap[z][k].page
  OBVIOUS
<1> DEFINE first == <<stackPage[z]>>
<1>5. first \in Seq(Page) /\ Len(first) = 1 /\ first[1] = stackPage[z]
  BY <1>1
<1>6. PagesOf(z) = first \o rest
  BY DEF PagesOf
<1> HIDE DEF first, rest
<1>7. /\ first \o rest \in Seq(Page) /\ Len(first \o rest) = Len(first) + Len(rest)
      /\ \A i \in 1..(Len(first) + Len(rest)) :
            (first \o rest)[i] = IF i <= Len(first) THEN first[i] ELSE rest[i - Len(first)]
  BY <1>3, <1>5, ConcatProperties
<1>8. Len(PagesOf(z)) = Len(heap[z]) + 1
  BY <1>3, <1>5, <1>6, <1>7
<1>9. PagesOf(z)[1] = stackPage[z]
  <2>1. 1 \in 1..(Len(first) + Len(rest)) /\ 1 <= Len(first)
    BY <1>3, <1>5
  <2> QED BY <1>5, <1>6, <1>7, <2>1
<1>10. ASSUME NEW k \in 1..Len(heap[z]) PROVE PagesOf(z)[k + 1] = heap[z][k].page
  <2>1. k + 1 \in 1..(Len(first) + Len(rest)) /\ ~(k + 1 <= Len(first)) /\ (k + 1) - Len(first) = k
    BY <1>3, <1>5
  <2>2. (first \o rest)[k + 1] = rest[k]
    BY <1>7, <2>1
  <2> QED BY <1>4, <1>6, <2>2
<1> QED BY <1>3, <1>6, <1>7, <1>8, <1>9, <1>10

(* destroyProcess runs in the timer's handler, so nobody is in the         *)
(* windows.                                                                *)
LEMMA NobodyInside ==
  ASSUME IInv, TicksSpareStack, cpu \in Running => pc[cpu] \in TickPoints
  PROVE  \A q \in Proc : pc[q] \notin Window
<1> SUFFICES ASSUME NEW q \in Proc, pc[q] \in Window PROVE FALSE
  OBVIOUS
<1>1. cpu = q /\ pc[q] # "user"
  BY DEF IInv, Undisturbed, Window
<1>2. q \in Running
  BY <1>1 DEF IInv, InCall, InCallOf, Running
<1> QED BY <1>1, <1>2 DEF TicksSpareStack

(* There are as many slots below stackTop as the process has pages, and    *)
(* one more: no page is dropped, as the pages in all slots would be        *)
(* different and none the kernel's.                                        *)
LEMMA RoomToPush ==
  ASSUME IInv, NEW z \in Proc, status[z] = "finished", \A q \in Proc : pc[q] \notin Window
  PROVE  /\ Len(PagesOf(z)) < stackTop /\ FreeSlots = stackTop..(NumPages - 1)
         /\ stackTop \in 0..NumPages
<1> DEFINE pages == PagesOf(z)
           n == Len(pages)
           slot == [i \in 0..(NumPages - 1) |-> IF i >= stackTop THEN pageStack[i] ELSE pages[stackTop - i]]
<1>1. /\ pages \in Seq(Page) /\ Len(heap[z]) \in Nat /\ n = Len(heap[z]) + 1
      /\ pages[1] = stackPage[z] /\ \A k \in 1..Len(heap[z]) : pages[k + 1] = heap[z][k].page
  BY PagesOfIs
<1>2. stackTop \in 0..NumPages /\ FreeSlots = stackTop..(NumPages - 1)
         /\ pageStack \in [Index -> Page]
  BY TopStaysUp, TypeParts DEF IInv, Window
<1> SUFFICES ASSUME stackTop <= n PROVE FALSE
  BY <1>1, <1>2, Numbers
<1> HIDE DEF pages
<1>3. ASSUME NEW i \in 0..(NumPages - 1)
      PROVE  /\ slot[i] \in Page
             /\ i >= stackTop => Holds("free", i, 0, slot[i])
             /\ i = stackTop - 1 => Holds("stack", z, 0, slot[i])
             /\ i < stackTop - 1 => Holds("heap", z, stackTop - i - 1, slot[i])
  <2>1. CASE i >= stackTop
    <3>1. i \in FreeSlots /\ slot[i] = pageStack[i] /\ i \in Index
      BY <1>2, <2>1, Numbers DEF Index
    <3>2. ~(i = stackTop - 1) /\ ~(i < stackTop - 1)
      BY <1>2, <2>1, Numbers
    <3> HIDE DEF slot
    <3> QED BY <1>2, <3>1, <3>2 DEF Holds
  <2>2. CASE i = stackTop - 1
    <3>1. stackTop - i = 1 /\ ~(i >= stackTop) /\ ~(i < stackTop - 1)
      BY <1>2, <2>2, Numbers
    <3>2. slot[i] = stackPage[z] /\ slot[i] \in Page
      BY <1>1, <3>1
    <3> HIDE DEF slot
    <3> QED BY <3>1, <3>2 DEF Holds
  <2>3. CASE i < stackTop - 1
    <3> DEFINE k == stackTop - i - 1
    <3>1. /\ k \in 1..Len(heap[z]) /\ stackTop - i = k + 1 /\ k + 1 \in 1..n
          /\ ~(i >= stackTop) /\ i # stackTop - 1
      BY <1>1, <1>2, <2>3, Numbers
    <3> HIDE DEF k
    <3>2. slot[i] = heap[z][k].page /\ slot[i] \in Page
      BY <1>1, <3>1
    <3> HIDE DEF slot
    <3>3. Holds("heap", z, k, slot[i])
      BY <3>1, <3>2 DEF Holds
    <3> QED BY <3>1, <3>2, <3>3 DEF k
  <2> QED BY <1>2, <2>1, <2>2, <2>3, Numbers
<1>4. slot \in [0..(NumPages - 1) -> Page]
  <2>1. \A i \in 0..(NumPages - 1) : slot[i] \in Page
    BY <1>3
  <2> QED BY <2>1
<1> HIDE DEF slot
<1>5. ASSUME NEW i \in 0..(NumPages - 1), NEW j \in 0..(NumPages - 1), slot[i] = slot[j] PROVE i = j
  <2>1. \A kind, a, b, type, c, d : Holds(kind, a, b, slot[i]) /\ Holds(type, c, d, slot[i])
                                       => kind = type /\ a = c /\ b = d
    BY <1>3 DEF IInv, OneHolder
  <2>2. CASE i >= stackTop
    BY <1>2, <1>3, <1>5, <2>1, <2>2, Numbers
  <2>3. CASE i = stackTop - 1
    BY <1>2, <1>3, <1>5, <2>1, <2>3, Numbers
  <2>4. CASE i < stackTop - 1
    <3>1. Holds("heap", z, stackTop - i - 1, slot[i])
      BY <1>3, <2>4
    <3>2. ~(j >= stackTop) /\ j # stackTop - 1
      BY <1>3, <1>5, <2>1, <3>1
    <3>3. Holds("heap", z, stackTop - j - 1, slot[i])
      BY <1>2, <1>3, <1>5, <3>2, Numbers
    <3>4. stackTop - i - 1 = stackTop - j - 1
      BY <2>1, <3>1, <3>3
    <3> QED BY <1>2, <3>4, Numbers
  <2> QED BY <1>2, <2>2, <2>3, <2>4, Numbers
<1>6. ASSUME NEW i \in 0..(NumPages - 1) PROVE slot[i] # 1
  <2>1. Holds("kernel", 1, 0, 1) /\ 1 \in Page
    BY Numbers DEF Holds, Page
  <2>2. \A kind, a, b : Holds(kind, a, b, 1) => kind = "kernel"
    BY <2>1 DEF IInv, OneHolder
  <2>3. i >= stackTop \/ i = stackTop - 1 \/ i < stackTop - 1
    BY <1>2, Numbers
  <2> QED BY <1>3, <2>2, <2>3
<1>7. 0 \in 0..NumPages
  BY Numbers
<1>8. 0 > 0
  BY <1>4, <1>5, <1>6, <1>7, KernelKept
<1> QED BY <1>8

(* The pages of a process pass, each to its slot, and no other page moves. *)
GivesBack(z) ==
  \A kind, a, b : \A page \in Page :
    Holds(kind, a, b, page)' <=>
      \/ kind = "free" /\ a = stackTop - 1 /\ b = 0 /\ stackPage[z] = page
      \/ kind = "free" /\ b = 0 /\ \E k \in 1..Len(heap[z]) : a = stackTop - 1 - k
            /\ heap[z][k].page = page
      \/ Holds(kind, a, b, page) /\ ~(kind \in {"stack", "heap"} /\ a = z)

(* Such a step keeps one holder for each page.                             *)
LEMMA GivenBackHolder ==
  ASSUME IInv, NEW z \in Proc, Len(heap[z]) \in Nat, stackTop \in Int, GivesBack(z)
  PROVE  OneHolder'
<1> SUFFICES ASSUME NEW page \in Page
             PROVE  /\ \E kind, a, b : Holds(kind, a, b, page)'
                    /\ \A kind, a, b, type, c, d : Holds(kind, a, b, page)'
                          /\ Holds(type, c, d, page)'
                                                     => kind = type /\ a = c /\ b = d
  BY DEF OneHolder
<1>h. PICK kind0, a0, b0 : Holds(kind0, a0, b0, page)
  BY DEF IInv, OneHolder
<1>o. \A kind, a, b : Holds(kind, a, b, page) => kind = kind0 /\ a = a0 /\ b = b0
  BY <1>h DEF IInv, OneHolder
<1>s. stackPage[z] = page => Holds("stack", z, 0, page)
  BY DEF Holds
<1>p. \A k \in 1..Len(heap[z]) : heap[z][k].page = page => Holds("heap", z, k, page)
  BY DEF Holds
<1>g. \A kind, a, b :
    Holds(kind, a, b, page)' <=>
      \/ kind = "free" /\ a = stackTop - 1 /\ b = 0 /\ stackPage[z] = page
      \/ kind = "free" /\ b = 0 /\ \E k \in 1..Len(heap[z]) : a = stackTop - 1 - k
            /\ heap[z][k].page = page
      \/ Holds(kind, a, b, page) /\ ~(kind \in {"stack", "heap"} /\ a = z)
  BY DEF GivesBack
<1>1. CASE kind0 = "stack" /\ a0 = z
  <2>1. stackPage[z] = page
    BY <1>h, <1>1 DEF Holds
  <2>2. \A k \in 1..Len(heap[z]) : heap[z][k].page # page
    BY <1>o, <1>p, <1>1
  <2>3. \A kind, a, b : Holds(kind, a, b, page)' <=> kind = "free" /\ b = 0 /\ a = stackTop - 1
    BY <1>g, <1>o, <1>1, <2>1, <2>2
  <2>4. PICK i : i = stackTop - 1
    OBVIOUS
  <2>5. Holds("free", i, 0, page)'
    BY <2>3, <2>4
  <2> QED BY <2>3, <2>5
<1>2. CASE kind0 = "heap" /\ a0 = z
  <2>1. stackPage[z] # page
    BY <1>o, <1>s, <1>2
  <2>2. b0 \in 1..Len(heap[z]) /\ heap[z][b0].page = page
    BY <1>h, <1>2 DEF Holds
  <2>3. \A k \in 1..Len(heap[z]) : heap[z][k].page = page <=> k = b0
    BY <1>o, <1>p, <2>2
  <2>4. \A kind, a, b : Holds(kind, a, b, page)' <=> kind = "free" /\ b = 0 /\ a = stackTop - 1 - b0
    BY <1>g, <1>o, <1>2, <2>1, <2>2, <2>3
  <2>s. PICK i : i = stackTop - 1 - b0
    OBVIOUS
  <2>5. Holds("free", i, 0, page)'
    BY <2>4, <2>s
  <2> QED BY <2>4, <2>5
<1>3. CASE ~(kind0 \in {"stack", "heap"} /\ a0 = z)
  <2>1. stackPage[z] # page /\ \A k \in 1..Len(heap[z]) : heap[z][k].page # page
    BY <1>o, <1>s, <1>p, <1>3
  <2>2. \A kind, a, b : Holds(kind, a, b, page)' <=> Holds(kind, a, b, page)
    BY <1>g, <1>o, <1>3, <2>1
  <2> QED BY <1>h, <1>o, <2>2
<1> QED BY <1>1, <1>2, <1>3

(* destroyProcess gives back every page of a process, and the entry        *)
(* (process.c:423-440).                                                    *)
LEMMA DestroyStep ==
  ASSUME IInv, Room, TicksSpareStack, NEW z \in Proc, Destroy(z)
  PROVE  IInv'
<1> DEFINE n == Len(PagesOf(z))
<1>t. /\ TypeOK /\ stackPage \in [Proc -> Page \cup {NULL}] /\ heap \in [Proc -> Seq(HeapPage)]
      /\ blocks \in [Proc -> Seq(Block)] /\ pageStack \in [Index -> Page]
            /\ stackTop \in 0..NumPages
      /\ status \in [Proc -> {"free", "building", "running", "finished"}]
  BY TypeParts DEF IInv
<1>f. status[z] = "finished"
  BY DEF Destroy
<1>w. \A q \in Proc : pc[q] \notin Window
  BY NobodyInside DEF Destroy
<1>p. /\ PagesOf(z) \in Seq(Page) /\ Len(heap[z]) \in Nat /\ n = Len(heap[z]) + 1
      /\ PagesOf(z)[1] = stackPage[z]
      /\ \A k \in 1..Len(heap[z]) : PagesOf(z)[k + 1] = heap[z][k].page
  BY <1>f, PagesOfIs
<1>r. n < stackTop /\ FreeSlots = stackTop..(NumPages - 1) /\ stackTop \in 0..(NumPages - 1)
  BY <1>t, <1>f, <1>w, RoomToPush, Numbers DEF Room
<1>u. /\ status' = [status EXCEPT ![z] = "free"] /\ stackPage' = [stackPage EXCEPT ![z] = NULL]
      /\ heap' = [heap EXCEPT ![z] = <<>>] /\ blocks' = [blocks EXCEPT ![z] = <<>>]
      /\ UNCHANGED <<streams, cpu, pc, local, calls>>
  BY DEF Destroy
<1>a. /\ stackTop' = stackTop - n /\ pageStack' \in [Index -> Page]
      /\ \A k \in 1..n : pageStack'[stackTop - k] = PagesOf(z)[k]
      /\ \A i \in Index : i >= stackTop => pageStack'[i] = pageStack[i]
  <2> DEFINE all == PushAll([stack |-> pageStack, top |-> stackTop], PagesOf(z))
  <2>1. /\ all.top = stackTop - Len(PagesOf(z)) /\ all.stack \in [Index -> Page]
        /\ \A k \in 1..Len(PagesOf(z)) : all.stack[stackTop - k] = PagesOf(z)[k]
        /\ \A i \in Index : i >= stackTop => all.stack[i] = pageStack[i]
    BY <1>t, <1>p, <1>r, PushAllIs
  <2>2. pageStack' = all.stack /\ stackTop' = all.top
    BY DEF Destroy
  <2> HIDE DEF all
  <2> QED BY <2>1, <2>2
<1> HIDE DEF n
<1>m. /\ Len(heap[z]) \in Nat /\ n = Len(heap[z]) + 1 /\ stackTop \in Nat /\ n < stackTop
      /\ stackTop < NumPages /\ NumPages \in Nat
  BY <1>p, <1>r, Numbers
<1>z. /\ status'[z] = "free" /\ stackPage'[z] = NULL /\ heap'[z] = <<>> /\ blocks'[z] = <<>>
      /\ \A q \in Proc : q # z => /\ status'[q] = status[q] /\ stackPage'[q] = stackPage[q]
                                  /\ heap'[q] = heap[q] /\ blocks'[q] = blocks[q]
  BY <1>t, <1>u
<1>1. TypeOK'
  <2>1. stackTop' \in 0..NumPages
    BY <1>a, <1>p, <1>r, Numbers
  <2>2. heap' \in [Proc -> Seq(HeapPage)] /\ blocks' \in [Proc -> Seq(Block)]
    BY <1>t, <1>u
  <2>3. stackPage' \in [Proc -> Page \cup {NULL}]
        /\ status' \in [Proc -> {"free", "building", "running", "finished"}]
    BY <1>t, <1>u
  <2> QED BY <1>t, <1>u, <1>a, <2>1, <2>2, <2>3 DEF TypeOK, HeapPage, Block
<1>2. Undisturbed'
  BY <1>u DEF IInv, Undisturbed
<1>3. InCall'
  <2> SUFFICES ASSUME NEW q \in Proc PROVE InCallOf(q)'
    BY DEF InCall
  <2>1. InCallOf(q)
    BY DEF IInv, InCall
  <2>2. pc[q] # "user" => q # z
    BY <1>f, <2>1 DEF InCallOf
  <2> QED BY <1>u, <1>w, <1>z, <2>1, <2>2 DEF InCallOf, Window
<1>4. Entries'
  <2>1. \A q \in Proc : local[q].op = "create" => local[q].child # z /\ local[q].child \in Proc
    <3>1. \A q \in Proc : local[q] \in LocalsSet
      BY TypeParts DEF IInv
    <3> QED BY <1>f, <3>1 DEF IInv, Entries, LocalsSet
  <2> QED BY <1>u, <1>z, <2>1 DEF IInv, Entries
<1>5. OneHolder'
  <2>1. FreeSlots' = (stackTop - n)..(NumPages - 1)
    <3>1. \A q \in Proc : pc'[q] # "pushWrite"
      BY <1>u, <1>w DEF Window
    <3>2. stackTop' = stackTop - n /\ stackTop - n \in Nat
      BY <1>a, <1>p, <1>r, Numbers
    <3> QED BY <3>1, <3>2, Numbers DEF FreeSlots, Index
  <2>2. \A q \in Proc : Carries(q)' = Carries(q)
    BY <1>u, <1>w DEF Carries, Window
  <2>3. ASSUME NEW kind, NEW a, NEW b, NEW page \in Page
        PROVE  Holds(kind, a, b, page)' <=>
                 \/ kind = "free" /\ a = stackTop - 1 /\ b = 0 /\ stackPage[z] = page
                 \/ kind = "free" /\ b = 0
                      /\ \E k \in 1..Len(heap[z]) : a = stackTop - 1 - k /\ heap[z][k].page = page
                 \/ Holds(kind, a, b, page) /\ ~(kind \in {"stack", "heap"} /\ a = z)
    <3>1. kind \in {"kernel", "stream", "local"} => (Holds(kind, a, b, page)'
             <=> Holds(kind, a, b, page))
      BY <1>u, <2>2 DEF Holds
    <3>2. kind = "stack" => (Holds(kind, a, b, page)' <=> a # z /\ Holds(kind, a, b, page))
      BY <1>z, Numbers DEF Holds
    <3>3. kind = "heap" => (Holds(kind, a, b, page)' <=> a # z /\ Holds(kind, a, b, page))
      <4>1. CASE a = z
        <5>1. 1..Len(heap'[z]) = {}
          BY <1>z
        <5> QED BY <4>1, <5>1 DEF Holds
      <4>2. CASE a # z
        BY <1>z, <4>2 DEF Holds
      <4> QED BY <4>1, <4>2
    <3>4. kind \notin {"free", "kernel", "stack", "heap", "stream", "local"} =>
             ~Holds(kind, a, b, page) /\ ~Holds(kind, a, b, page)'
      BY DEF Holds
    <3>5. ASSUME kind = "free"
          PROVE  Holds(kind, a, b, page)' <=>
                   \/ a = stackTop - 1 /\ b = 0 /\ stackPage[z] = page
                   \/ b = 0 /\ \E k \in 1..Len(heap[z]) : a = stackTop - 1 - k
                         /\ heap[z][k].page = page
                   \/ Holds(kind, a, b, page)
      <4>1. a \in FreeSlots' <=> \/ a = stackTop - 1
                                 \/ \E k \in 1..Len(heap[z]) : a = stackTop - 1 - k
                                 \/ a \in FreeSlots
        <5>1. a \in FreeSlots' <=> a \in Int /\ a >= stackTop - n /\ a <= NumPages - 1
          BY <2>1, <1>m
        <5>2. a \in FreeSlots <=> a \in Int /\ a >= stackTop /\ a <= NumPages - 1
          BY <1>m, <1>r
        <5>3. ASSUME a \in Int, a >= stackTop - n, a < stackTop - 1
              PROVE  \E k \in 1..Len(heap[z]) : a = stackTop - 1 - k
          <6>1. stackTop \in Int /\ n \in Int /\ Len(heap[z]) \in Int /\ n = Len(heap[z]) + 1
            BY <1>m
          <6> DEFINE len == Len(heap[z])
                     top == stackTop
          <6>2. /\ top \in Int /\ n \in Int /\ len \in Int /\ a \in Int
                /\ n = len + 1 /\ a >= top - n /\ a < top - 1
            BY <5>3, <6>1
          <6> HIDE DEF len, top
          <6>3. \E k \in 1..len : a = top - 1 - k
            BY <6>2, BelowTheTop
          <6> QED BY <6>3 DEF len, top
        <5>4. ASSUME NEW k \in 1..Len(heap[z]), a = stackTop - 1 - k PROVE a \in FreeSlots'
          BY <1>m, <2>1, <5>4
        <5>5. a = stackTop - 1 => a \in FreeSlots'
          BY <1>m, <2>1
        <5>6. a \in FreeSlots => a \in FreeSlots'
          BY <1>m, <5>1, <5>2
        <5>7. a \in FreeSlots' => \/ a = stackTop - 1 \/ a \in FreeSlots
                                  \/ a \in Int /\ a >= stackTop - n /\ a < stackTop - 1
          BY <1>m, <5>1, <5>2
        <5> QED BY <5>3, <5>4, <5>5, <5>6, <5>7
      <4>2. a = stackTop - 1 => pageStack'[a] = stackPage[z] /\ a \notin FreeSlots
        <5>1. 1 \in 1..n
          BY <1>p
        <5>2. stackTop - 1 \notin FreeSlots
          BY <1>r, Numbers
        <5> QED BY <1>a, <1>p, <5>1, <5>2
      <4>3. \A k \in 1..Len(heap[z]) :
               a = stackTop - 1 - k => pageStack'[a] = heap[z][k].page /\ a \notin FreeSlots
        <5> SUFFICES ASSUME NEW k \in 1..Len(heap[z])
                     PROVE  /\ pageStack'[stackTop - 1 - k] = heap[z][k].page
                            /\ stackTop - 1 - k \notin FreeSlots
          OBVIOUS
        <5>1. k + 1 \in 1..n /\ stackTop - (k + 1) = stackTop - 1 - k
          BY <1>p, <1>r, Numbers
        <5>2. stackTop - 1 - k \notin FreeSlots
          BY <1>r, <1>p, Numbers
        <5> QED BY <1>a, <1>p, <5>1, <5>2
      <4>4. a \in FreeSlots => pageStack'[a] = pageStack[a]
        <5>1. a \in FreeSlots => a \in Index /\ a >= stackTop
          BY DEF FreeSlots
        <5> QED BY <1>a, <5>1
      <4>5. Holds(kind, a, b, page)' <=> a \in FreeSlots' /\ b = 0 /\ pageStack'[a] = page
        BY <3>5 DEF Holds
      <4>6. Holds(kind, a, b, page) <=> a \in FreeSlots /\ b = 0 /\ pageStack[a] = page
        BY <3>5 DEF Holds
      <4> QED BY <4>1, <4>2, <4>3, <4>4, <4>5, <4>6
    <3> QED BY <3>1, <3>2, <3>3, <3>4, <3>5
  <2>4. GivesBack(z)
    BY <2>3 DEF GivesBack
  <2>5. stackTop \in Int
    BY <1>t
  <2> QED BY <1>p, <2>4, <2>5, GivenBackHolder
<1>6. BlocksInside'
  <2> SUFFICES ASSUME NEW q \in Proc
               PROVE  \A i \in 1..Len(blocks'[q]) :
                        /\ \E k \in 1..Len(heap'[q]) :
                             /\ heap'[q][k].page = blocks'[q][i].page
                             /\ blocks'[q][i].from + blocks'[q][i].size <= heap'[q][k].used
                        /\ \A j \in 1..Len(blocks'[q]) : Overlap(blocks'[q][i],
                              blocks'[q][j]) => i = j
    BY DEF BlocksInside, Overlap
  <2>1. CASE q = z
    <3>1. 1..Len(blocks'[z]) = {}
      BY <1>z
    <3> QED BY <2>1, <3>1
  <2>2. CASE q # z
    <3>1. heap'[q] = heap[q] /\ blocks'[q] = blocks[q]
      BY <1>z, <2>2
    <3> QED BY <3>1 DEF IInv, BlocksInside
  <2> QED BY <2>1, <2>2
<1> QED BY <1>1, <1>2, <1>3, <1>4, <1>5, <1>6 DEF IInv
-----------------------------------------------------------------------------

(* The kernel's pages, the stack of init.d, and the rest in the slots.     *)
LEMMA InitInv == Init => IInv
<1> SUFFICES ASSUME Init PROVE IInv
  OBVIOUS
<1>i. /\ pageStack = [i \in Index |-> i + 1] /\ stackTop = KernelPages + 1
      /\ status = [p \in Proc |-> IF p = 0 THEN "running" ELSE "free"]
      /\ stackPage = [p \in Proc |-> IF p = 0 THEN KernelPages + 1 ELSE NULL]
      /\ heap = [p \in Proc |-> <<>>] /\ streams = {} /\ blocks = [p \in Proc |-> <<>>]
      /\ cpu = 0 /\ pc = [p \in Proc |-> "user"] /\ local = [p \in Proc |-> NoLocals] /\ calls = 0
  BY DEF Init
<1>k. KernelPages + 1 \in Page /\ KernelPages + 1 \in 0..NumPages /\ \A i \in Index : i + 1 \in Page
  BY Numbers DEF Page, Index
<1>1. TypeOK
  <2>1. heap \in [Proc -> Seq(HeapPage)] /\ blocks \in [Proc -> Seq(Block)]
    BY <1>i
  <2>2. pageStack \in [Index -> Page] /\ stackPage \in [Proc -> Page \cup {NULL}]
    BY <1>i, <1>k
  <2>3. local \in [Proc -> LocalsSet]
    BY <1>i, NoLocalsAre
  <2>4. pc \in [Proc -> Point] /\ cpu \in Proc /\ calls \in 0..MaxCalls /\ streams \subseteq Page
    BY <1>i, Numbers DEF Point
  <2>5. stackTop \in 0..NumPages /\ status \in [Proc -> {"free", "building", "running", "finished"}]
    BY <1>i, <1>k
  <2> QED BY <2>1, <2>2, <2>3, <2>4, <2>5 DEF TypeOK, HeapPage, Block, LocalsSet
<1>2. Undisturbed
  BY <1>i DEF Undisturbed, Window
<1>3. InCall
  BY <1>i DEF InCall, InCallOf, PopPoints, PushPoints
<1>4. Entries
  <2>1. \A p \in Proc : local[p].op # "create"
    BY <1>i, NoLocalsAre
  <2>2. \A p \in Proc : heap[p] = <<>> /\ blocks[p] = <<>>
    BY <1>i
  <2>3. \A p \in Proc : /\ status[p] \in {"free", "building"} => stackPage[p] = NULL
                        /\ status[p] \in {"running", "finished"} => stackPage[p] # NULL
    BY <1>i, Numbers
  <2> QED BY <2>1, <2>2, <2>3 DEF Entries
<1>5. OneHolder
  <2>1. FreeSlots = (KernelPages + 1)..(NumPages - 1)
    BY <1>i, Numbers DEF FreeSlots, Index
  <2>2. \A q \in Proc : Carries(q) = NULL
    BY <1>i, NoLocalsAre DEF Carries
  <2>3. \A q \in Proc : 1..Len(heap[q]) = {}
    BY <1>i
  <2>4. ASSUME NEW page \in Page, NEW kind, NEW a, NEW b
        PROVE  Holds(kind, a, b, page) <=>
                 \/ kind = "free" /\ a = page - 1 /\ b = 0 /\ page > KernelPages + 1
                 \/ kind = "kernel" /\ a = page /\ b = 0 /\ page <= KernelPages
                 \/ kind = "stack" /\ a = 0 /\ b = 0 /\ page = KernelPages + 1
    <3>p. page \in Nat /\ page >= 1 /\ page <= NumPages
      BY Numbers DEF Page
    <3>1. kind = "free" => (Holds(kind, a, b, page)
             <=> a = page - 1 /\ b = 0 /\ page > KernelPages + 1)
      <4>1. a \in FreeSlots => a \in Index /\ pageStack[a] = a + 1 /\ a \in Nat
        BY <1>i, <2>1, Numbers DEF Index
      <4>2. page > KernelPages + 1
               => page - 1 \in FreeSlots /\ page - 1 \in Index /\ pageStack[page - 1] = page
        BY <1>i, <2>1, <3>p, Numbers DEF Index
      <4>3. a \in FreeSlots /\ a + 1 = page => a = page - 1 /\ page > KernelPages + 1
        BY <2>1, <3>p, Numbers
      <4> QED BY <4>1, <4>2, <4>3 DEF Holds
    <3>2. kind = "kernel" => (Holds(kind, a, b, page) <=> a = page /\ b = 0 /\ page <= KernelPages)
      BY <3>p, Numbers DEF Holds
    <3>3. kind = "stack" => (Holds(kind, a, b, page) <=> a = 0 /\ b = 0 /\ page = KernelPages + 1)
      BY <1>i, Numbers DEF Holds
    <3>4. kind \notin {"free", "kernel", "stack"} => ~Holds(kind, a, b, page)
      BY <1>i, <2>2, <2>3, Numbers DEF Holds
    <3> QED BY <3>1, <3>2, <3>3, <3>4
  <2>5. ASSUME NEW page \in Page
        PROVE  /\ \E kind, a, b : Holds(kind, a, b, page)
               /\ \A kind, a, b, type, c, d : Holds(kind, a, b, page) /\ Holds(type, c, d, page)
                                                => kind = type /\ a = c /\ b = d
    <3>p. page \in Nat
      BY Numbers
    <3>1. CASE page <= KernelPages
      BY <2>4, <3>p, <3>1, Numbers
    <3>2. CASE page = KernelPages + 1
      BY <2>4, <3>p, <3>2, Numbers
    <3>3. CASE page > KernelPages + 1
      BY <2>4, <3>p, <3>3, Numbers
    <3> QED BY <3>p, <3>1, <3>2, <3>3, Numbers
  <2> QED BY <2>5 DEF OneHolder
<1>6. BlocksInside
  <2>1. \A p \in Proc : 1..Len(blocks[p]) = {}
    BY <1>i
  <2> QED BY <2>1 DEF BlocksInside
<1> QED BY <1>1, <1>2, <1>3, <1>4, <1>5, <1>6 DEF IInv

(* Steps that change nothing keep the invariant.                           *)
LEMMA IdleInv ==
  ASSUME IInv, UNCHANGED vars
  PROVE  IInv'
<1>u. UNCHANGED <<pageStack, stackTop, status, stackPage, heap, blocks, streams, cpu, pc,
         local, calls>>
  BY DEF vars, pool, table
<1>1. TypeOK'
  BY <1>u DEF IInv, TypeOK
<1>2. Undisturbed' /\ InCall' /\ Entries' /\ BlocksInside'
  BY <1>u DEF IInv, Undisturbed, InCall, InCallOf, Entries, BlocksInside
<1>3. OneHolder'
  <2>1. FreeSlots' = FreeSlots /\ \A q \in Proc : Carries(q)' = Carries(q)
    BY <1>u DEF FreeSlots, Carries
  <2> QED BY <1>u, <2>1, Untouched DEF IInv
<1> QED BY <1>1, <1>2, <1>3 DEF IInv

(* Every step keeps the invariant while a page is left.                    *)
LEMMA NextInv ==
  ASSUME IInv, Room, TicksSpareStack, [Next]_vars
  PROVE  IInv'
<1>1. ASSUME NEW p \in Proc, Pop(p) PROVE IInv'
  BY <1>1, PopTestStep, PopLoadStep, PopStoreStep, PopReadStep DEF Pop
<1>2. ASSUME NEW p \in Proc, PushPage(p) PROVE IInv'
  BY <1>2, PushTestStep, PushLoadStep, PushStoreStep, PushWriteStep, PushedStep DEF PushPage
<1>3. ASSUME NEW p \in Proc, Popped(p) PROVE IInv'
  BY <1>3, MallocPoppedStep, CreatePoppedStep, OpenPoppedStep, OpenFailsStep DEF Popped
<1>4. ASSUME NEW p \in Proc, User(p) PROVE IInv'
  BY <1>4, CallMallocStep, CallCreateStep, ExitStep, CallOpenStep, CallCloseStep,
     CloseMissesStep DEF User
<1>5. ASSUME NEW p \in Proc, Tick(p) PROVE IInv'
  BY <1>5, TickStep
<1>6. ASSUME NEW z \in Proc, Destroy(z) PROVE IInv'
  BY <1>6, DestroyStep
<1>7. CASE UNCHANGED vars
  BY <1>7, IdleInv
<1> QED BY <1>1, <1>2, <1>3, <1>4, <1>5, <1>6, <1>7 DEF Next, Ended

(* The invariant holds of every behaviour in which a page is always left,  *)
(* when ticks spare the windows of popPage and pushPage.                   *)
THEOREM MemoryInvariant ==
  ASSUME TicksSpareStack
  PROVE  Spec /\ []Room => []IInv
<1>1. IInv /\ Room /\ [Next]_vars => IInv'
  BY NextInv
<1> QED BY <1>1, InitInv, PTL DEF Spec

(* Only a page that is not an orphan's leaves the streams.                 *)
LEMMA OrphansStep ==
  ASSUME OrphansKept, [Next]_vars
  PROVE  OrphansKept'
<1>1. ASSUME NEW p \in Proc, Pop(p) \/ PushPage(p) \/ Popped(p) \/ Tick(p)
      PROVE  orphans' = orphans /\ streams \subseteq streams'
  BY <1>1 DEF Pop, PopTest, PopLoad, PopStore, PopRead, PushPage, PushTest, PushLoad, PushStore,
       PushWrite, Pushed, Popped, MallocPopped, CreatePopped, OpenPopped, OpenFails, Tick
<1>2. ASSUME NEW p \in Proc, User(p) PROVE OrphansKept'
  <2>1. CASE CallClose(p)
    <3>1. PICK page \in streams \ orphans : streams' = streams \ {page}
      BY <2>1 DEF CallClose
    <3>2. orphans' = orphans
      BY <2>1 DEF CallClose
    <3> QED BY <3>1, <3>2 DEF OrphansKept
  <2>2. CASE CloseMisses(p)
    <3>1. PICK page \in streams \ orphans : orphans' = orphans \cup {page}
      BY <2>2 DEF CloseMisses
    <3>2. streams' = streams
      BY <2>2 DEF CloseMisses
    <3> QED BY <3>1, <3>2 DEF OrphansKept
  <2>3. CASE \/ \E size \in Sizes : CallMalloc(p, size)
             \/ CallCreate(p) \/ Exit(p) \/ CallOpen(p)
    <3>1. UNCHANGED <<streams, orphans>>
      BY <2>3 DEF CallMalloc, CallCreate, Exit, CallOpen
    <3> QED BY <3>1 DEF OrphansKept
  <2> QED BY <1>2, <2>1, <2>2, <2>3 DEF User
<1>3. ASSUME NEW z \in Proc, Destroy(z) PROVE UNCHANGED <<streams, orphans>>
  BY <1>3 DEF Destroy
<1>4. CASE UNCHANGED vars
  BY <1>4 DEF OrphansKept, vars
<1> QED BY <1>1, <1>2, <1>3, <1>4 DEF Next, Ended, OrphansKept

(* One holder for each page is one place for each when Quiet.              *)
LEMMA ConservedFromInv ==
  ASSUME IInv, OrphansKept
  PROVE  PagesConserved
<1>1. ASSUME Quiet, NEW page \in Page PROVE \E x : Places(page) = {x}
  <2>f. FreeSlots = stackTop..(NumPages - 1)
    BY <1>1, TopStaysUp DEF Quiet
  <2> DEFINE Place(kind, a) == <<kind, IF kind \in {"kernel", "stream"} THEN 0 ELSE a>>
  <2>1. \A kind, a, b : Holds(kind, a, b, page) => Place(kind, a) \in Places(page)
    <3> SUFFICES ASSUME NEW kind, NEW a, NEW b, Holds(kind, a, b, page)
                 PROVE  Place(kind, a) \in Places(page)
      OBVIOUS
    <3>1. CASE kind = "free"
      <4>1. a \in {j \in stackTop..(NumPages - 1) : pageStack[j] = page}
        BY <2>f, <3>1 DEF Holds
      <4> QED BY <3>1, <4>1 DEF Places
    <3>2. CASE kind = "kernel"
      <4>1. a \in {j \in 1..KernelPages : j = page}
        BY <3>2 DEF Holds
      <4> QED BY <3>2, <4>1 DEF Places
    <3>3. CASE kind = "stack"
      <4>1. a \in {q \in Proc : stackPage[q] = page}
        BY <3>3 DEF Holds
      <4> QED BY <3>3, <4>1 DEF Places
    <3>4. CASE kind = "heap"
      <4>1. a \in {q \in Proc : \E k \in 1..Len(heap[q]) : heap[q][k].page = page}
        BY <3>4 DEF Holds
      <4> QED BY <3>4, <4>1 DEF Places
    <3>5. CASE kind = "stream"
      <4>1. a \in streams \cap {page}
        BY <3>5 DEF Holds
      <4> QED BY <3>5, <4>1 DEF Places
    <3>6. CASE kind = "local"
      <4>1. a \in {q \in Proc : local[q].page = page /\ pc[q] \notin {"pushed", "pushWrite"}}
        BY <1>1, <3>6, Numbers DEF Holds, Carries, Quiet
      <4> QED BY <3>6, <4>1 DEF Places
    <3> QED BY <3>1, <3>2, <3>3, <3>4, <3>5, <3>6 DEF Holds
  <2>2. \A x \in Places(page) : \E kind, a, b : Holds(kind, a, b, page) /\ x = Place(kind, a)
    <3> SUFFICES ASSUME NEW x \in Places(page)
                 PROVE  \E kind, a, b : Holds(kind, a, b, page) /\ x = Place(kind, a)
      OBVIOUS
    <3>1. ASSUME NEW i \in stackTop..(NumPages - 1), pageStack[i] = page, x = <<"free", i>>
          PROVE  Holds("free", i, 0, page) /\ x = Place("free", i)
      BY <2>f, <3>1 DEF Holds
    <3>2. ASSUME NEW i \in 1..KernelPages, i = page, x = <<"kernel", 0>>
          PROVE  Holds("kernel", i, 0, page) /\ x = Place("kernel", i)
      BY <3>2 DEF Holds
    <3>3. ASSUME NEW q \in Proc, stackPage[q] = page, x = <<"stack", q>>
          PROVE  Holds("stack", q, 0, page) /\ x = Place("stack", q)
      BY <3>3 DEF Holds
    <3>4. ASSUME NEW q \in Proc, NEW k \in 1..Len(heap[q]), heap[q][k].page = page,
                    x = <<"heap", q>>
          PROVE  Holds("heap", q, k, page) /\ x = Place("heap", q)
      BY <3>4 DEF Holds
    <3>5. ASSUME NEW s \in streams, s = page, x = <<"stream", 0>>
          PROVE  Holds("stream", s, 0, page) /\ x = Place("stream", s)
      BY <3>5 DEF Holds
    <3>6. ASSUME NEW q \in Proc, local[q].page = page, pc[q] \notin {"pushed", "pushWrite"},
                    x = <<"local", q>>
          PROVE  Holds("local", q, 0, page) /\ x = Place("local", q)
      BY <1>1, <3>6 DEF Holds, Carries, Quiet
    <3> HIDE DEF Place
    <3>7. \/ \E i \in stackTop..(NumPages - 1) : pageStack[i] = page /\ x = <<"free", i>>
          \/ \E i \in 1..KernelPages : i = page /\ x = <<"kernel", 0>>
          \/ \E q \in Proc : stackPage[q] = page /\ x = <<"stack", q>>
          \/ \E q \in Proc : \E k \in 1..Len(heap[q]) : heap[q][k].page = page /\ x = <<"heap", q>>
          \/ \E s \in streams : s = page /\ x = <<"stream", 0>>
          \/ \E q \in Proc : local[q].page = page /\ pc[q] \notin {"pushed", "pushWrite"}
                /\ x = <<"local", q>>
      BY DEF Places
    <3> QED BY <3>1, <3>2, <3>3, <3>4, <3>5, <3>6, <3>7
  <2>3. PICK kind, a, b : Holds(kind, a, b, page)
    BY DEF IInv, OneHolder
  <2>4. \A type, c, d : Holds(type, c, d, page) => type = kind /\ c = a
    BY <2>3 DEF IInv, OneHolder
  <2> HIDE DEF Place
  <2>5. \A x : x \in Places(page) <=> x = Place(kind, a)
    BY <2>1, <2>2, <2>3, <2>4
  <2>6. Places(page) = {Place(kind, a)}
    BY <2>5
  <2> QED BY <2>6
<1>2. NoSharedPage
  <2>1. ASSUME Quiet, NEW page \in Page PROVE Cardinality(Places(page)) <= 1
    <3>1. PICK x : Places(page) = {x}
      BY <1>1, <2>1
    <3>2. Cardinality(Places(page)) = 1
      BY <3>1, FS_Singleton
    <3> QED BY <3>2
  <2> QED BY <2>1 DEF NoSharedPage
<1>3. NoLostPage
  BY <1>1 DEF NoLostPage
<1> QED BY <1>2, <1>3 DEF IInv, PagesConserved

(* Blocks that overlap are in one page, hence of one heap, hence the same. *)
LEMMA DisjointFromInv ==
  ASSUME IInv
  PROVE  BlocksDisjoint
<1> SUFFICES ASSUME NEW p \in Proc, NEW q \in Proc,
                    NEW i \in 1..Len(blocks[p]), NEW j \in 1..Len(blocks[q])
             PROVE  /\ blocks[p][i].from >= Header
                          /\ blocks[p][i].from + blocks[p][i].size <= PageSize
                    /\ Overlap(blocks[p][i], blocks[q][j]) => p = q /\ i = j
  BY DEF BlocksDisjoint
<1>t. heap \in [Proc -> Seq(HeapPage)] /\ blocks \in [Proc -> Seq(Block)]
  BY TypeParts DEF IInv
<1>1. PICK k \in 1..Len(heap[p]) : /\ heap[p][k].page = blocks[p][i].page
                                   /\ blocks[p][i].from + blocks[p][i].size <= heap[p][k].used
  BY DEF IInv, BlocksInside
<1>2. PICK l \in 1..Len(heap[q]) : heap[q][l].page = blocks[q][j].page
  BY DEF IInv, BlocksInside
<1>3. blocks[p][i] \in Block /\ heap[p][k] \in HeapPage
  BY <1>t
<1>4. /\ blocks[p][i].from \in Header..PageSize /\ blocks[p][i].size \in 0..(PageSize - Header)
      /\ heap[p][k].used \in Header..PageSize /\ heap[p][k].page \in Page
  BY <1>3 DEF Block, HeapPage
<1>5. blocks[p][i].from >= Header /\ blocks[p][i].from + blocks[p][i].size <= PageSize
  <2> DEFINE from == blocks[p][i].from
             bytes == blocks[p][i].size
             used == heap[p][k].used
  <2>1. /\ from \in Header..PageSize /\ bytes \in 0..(PageSize - Header)
              /\ used \in Header..PageSize
        /\ from + bytes <= used
    BY <1>1, <1>4
  <2> HIDE DEF from, bytes, used
  <2>2. from >= Header /\ from + bytes <= PageSize
    BY <2>1, Numbers
  <2> QED BY <2>2 DEF from, bytes
<1>6. ASSUME Overlap(blocks[p][i], blocks[q][j]) PROVE p = q /\ i = j
  <2>1. blocks[p][i].page = blocks[q][j].page
    BY <1>6 DEF Overlap
  <2>2. Holds("heap", p, k, heap[p][k].page) /\ Holds("heap", q, l, heap[p][k].page)
    BY <1>1, <1>2, <2>1 DEF Holds
  <2>3. p = q
    BY <1>4, <2>2 DEF IInv, OneHolder
  <2>4. Overlap(blocks[p][i], blocks[p][j]) /\ j \in 1..Len(blocks[p])
    BY <1>6, <2>3
  <2> QED BY <2>3, <2>4 DEF IInv, BlocksInside
<1> QED BY <1>5, <1>6

(* While a page is left, and no tick comes between two accesses of popPage *)
(* or of pushPage to the stack (there the code gives a page twice:         *)
(* memory.c:57 and 68), every page has exactly one place over whatever     *)
(* system calls and ends of processes (memory.c:53-71, process.c:423-440), *)
(* for every number of pages and processes.                                *)
THEOREM PagesAreConserved ==
  ASSUME TicksSpareStack
  PROVE  Spec /\ [](stackTop < NumPages) => []PagesConserved
<1>1. Spec /\ []Room => []IInv
  BY MemoryInvariant
<1>2. IInv /\ OrphansKept => PagesConserved
  BY ConservedFromInv
<1>3. (stackTop < NumPages) => Room
  BY DEF Room
<1>4. Init => OrphansKept
  BY DEF Init, OrphansKept
<1>5. OrphansKept /\ [Next]_vars => OrphansKept'
  BY OrphansStep
<1> QED BY <1>1, <1>2, <1>3, <1>4, <1>5, PTL DEF Spec

(* While a page is left, and no tick comes between two accesses of popPage *)
(* or of pushPage to the stack (there two processes can be given one page, *)
(* and blocks in it overlap), malloc's blocks lie in their page and never  *)
(* overlap, of whatever processes (process.c:86-119).                      *)
THEOREM BlocksAreDisjoint ==
  ASSUME TicksSpareStack
  PROVE  Spec /\ [](stackTop < NumPages) => []BlocksDisjoint
<1>1. Spec /\ []Room => []IInv
  BY MemoryInvariant
<1>2. IInv => BlocksDisjoint
  BY DisjointFromInv
<1>3. (stackTop < NumPages) => Room
  BY DEF Room
<1> QED BY <1>1, <1>2, <1>3, PTL

(* The processes inside popPage that have not moved stackTop.              *)
Poppers == {p \in Proc : pc[p] \in {"popTest", "popLoad", "popStore"}}

(* stackTop has moved at most once for each call.                          *)
Counted == stackTop + Cardinality(Poppers) <= KernelPages + 1 + calls

(* There are more pages than the kernel's, init.d's and one for each call. *)
EnoughPages == KernelPages + 1 + MaxCalls < NumPages

(* How many are inside popPage, with one more and one less.                *)
LEMMA PoppersAre ==
  /\ IsFiniteSet(Poppers) /\ Cardinality(Poppers) \in Nat
  /\ \A p : Cardinality(Poppers \cup {p}) <= Cardinality(Poppers) + 1
  /\ \A p \in Poppers : Cardinality(Poppers \ {p}) = Cardinality(Poppers) - 1
<1>1. IsFiniteSet(Proc)
  BY FS_Interval, Numbers DEF Proc
<1>2. IsFiniteSet(Poppers) /\ Cardinality(Poppers) \in Nat
  BY <1>1, FS_Subset, FS_CardinalityType DEF Poppers
<1>3. ASSUME NEW p PROVE Cardinality(Poppers \cup {p}) <= Cardinality(Poppers) + 1
  BY <1>2, FS_AddElement
<1>4. ASSUME NEW p \in Poppers PROVE Cardinality(Poppers \ {p}) = Cardinality(Poppers) - 1
  BY <1>2, FS_RemoveElement
<1> QED BY <1>2, <1>3, <1>4

(* With enough pages the count leaves one.                                 *)
LEMMA CountedIsRoom ==
  ASSUME EnoughPages, IInv, Counted
  PROVE  Room
<1>1. calls \in 0..MaxCalls /\ stackTop \in 0..NumPages
  BY TypeParts DEF IInv
<1>2. Cardinality(Poppers) \in Nat
  BY PoppersAre
<1> HIDE DEF Poppers
<1> QED BY <1>1, <1>2, Numbers DEF EnoughPages, Counted, Room

(* How a step may change the count.                                        *)
LEMMA CountKept ==
  ASSUME IInv, Counted, IInv',
         \/ Poppers' = Poppers /\ stackTop' <= stackTop /\ calls <= calls'
         \/ \E p : Poppers' = Poppers \cup {p} /\ stackTop' = stackTop /\ calls' = calls + 1
         \/ \E p \in Poppers : Poppers' = Poppers \ {p} /\ stackTop' = stackTop + 1
               /\ calls' = calls
  PROVE  Counted'
<1>1. /\ calls \in Nat /\ stackTop \in Nat /\ calls' \in Nat /\ stackTop' \in Nat
  BY TypeParts, Numbers DEF IInv, TypeOK
<1>2. Cardinality(Poppers) \in Nat
  BY PoppersAre
<1>c. stackTop + Cardinality(Poppers) <= KernelPages + 1 + calls
  BY DEF Counted
<1> SUFFICES stackTop' + Cardinality(Poppers') <= KernelPages + 1 + calls'
  BY DEF Counted
<1>3. CASE Poppers' = Poppers /\ stackTop' <= stackTop /\ calls <= calls'
  BY <1>1, <1>2, <1>c, <1>3, Numbers
<1>4. ASSUME NEW p, Poppers' = Poppers \cup {p}, stackTop' = stackTop, calls' = calls + 1
      PROVE  stackTop' + Cardinality(Poppers') <= KernelPages + 1 + calls'
  <2>1. Cardinality(Poppers') <= Cardinality(Poppers) + 1
    BY <1>4, PoppersAre
  <2>2. Cardinality(Poppers') \in Nat
    BY <1>2, <1>4, PoppersAre, FS_AddElement
  <2> QED BY <1>1, <1>2, <1>c, <1>4, <2>1, <2>2, Numbers
<1>5. ASSUME NEW p \in Poppers, Poppers' = Poppers \ {p}, stackTop' = stackTop + 1, calls' = calls
      PROVE  stackTop' + Cardinality(Poppers') <= KernelPages + 1 + calls'
  <2>1. Cardinality(Poppers') = Cardinality(Poppers) - 1
    BY <1>5, PoppersAre
  <2> QED BY <1>1, <1>2, <1>c, <1>5, <2>1, Numbers
<1> QED BY <1>3, <1>4, <1>5

(* Every step keeps the count.                                             *)
LEMMA StepCounts ==
  ASSUME IInv, Room, Counted, IInv', TicksSpareStack, [Next]_vars
  PROVE  Counted'
<1>t. pc \in [Proc -> Point] /\ calls \in Nat /\ stackTop \in Nat /\ local \in [Proc -> LocalsSet]
  <2>1. pc \in [Proc -> Point] /\ calls \in 0..MaxCalls /\ stackTop \in 0..NumPages
           /\ local \in [Proc -> LocalsSet]
    BY TypeParts DEF IInv
  <2> QED BY <2>1, Numbers
<1>s. Poppers' = Poppers /\ stackTop' <= stackTop /\ calls <= calls' => Counted'
  BY CountKept
<1>1. ASSUME NEW p \in Proc, Pop(p) PROVE Counted'
  <2>1. CASE PopTest(p)
    <3>1. pc[p] = "popTest" /\ pc' = [pc EXCEPT ![p] = "popLoad"] /\ UNCHANGED <<stackTop, calls>>
      BY <2>1 DEF PopTest, At, Goto, Room, pool
    <3>2. Poppers' = Poppers
      BY <1>t, <3>1 DEF Poppers
    <3> QED BY <1>s, <1>t, <3>1, <3>2
  <2>2. CASE PopLoad(p)
    <3>1. pc[p] = "popLoad" /\ pc' = [pc EXCEPT ![p] = "popStore"] /\ UNCHANGED <<stackTop, calls>>
      BY <2>2 DEF PopLoad, At, Goto, pool
    <3>2. Poppers' = Poppers
      BY <1>t, <3>1 DEF Poppers
    <3> QED BY <1>s, <1>t, <3>1, <3>2
  <2>3. CASE PopStore(p)
    <3>1. /\ pc[p] = "popStore" /\ pc' = [pc EXCEPT ![p] = "popRead"] /\ UNCHANGED calls
          /\ stackTop' = local[p].top + 1
      BY <2>3 DEF PopStore, At, Goto
    <3>2. stackTop' = stackTop + 1
      BY <3>1 DEF IInv, InCall, InCallOf
    <3>3. p \in Poppers /\ Poppers' = Poppers \ {p}
      BY <1>t, <3>1 DEF Poppers
    <3> QED BY <3>1, <3>2, <3>3, CountKept
  <2>4. CASE PopRead(p)
    <3>1. pc[p] = "popRead" /\ pc' = [pc EXCEPT ![p] = "popped"] /\ UNCHANGED <<stackTop, calls>>
      BY <2>4 DEF PopRead, At, Goto, pool
    <3>2. Poppers' = Poppers
      BY <1>t, <3>1 DEF Poppers
    <3> QED BY <1>s, <1>t, <3>1, <3>2
  <2> QED BY <1>1, <2>1, <2>2, <2>3, <2>4 DEF Pop
<1>2. ASSUME NEW p \in Proc, PushPage(p) PROVE Counted'
  <2>1. /\ pc[p] \in PushPoints /\ UNCHANGED calls
        /\ \E to \in PushPoints \cup {"user"} : pc' = [pc EXCEPT ![p] = to]
    BY <1>2 DEF PushPage, PushTest, PushLoad, PushStore, PushWrite, Pushed, At, Goto, Return,
          PushPoints
  <2>2. stackTop' <= stackTop
    <3>1. CASE PushStore(p)
      <4>1. stackTop' = local[p].top /\ local[p].top + 1 = stackTop
        BY <3>1 DEF PushStore, At, IInv, InCall, InCallOf
      <4>2. local[p].top \in Nat
        BY <1>t, Numbers DEF LocalsSet
      <4> QED BY <1>t, <4>1, <4>2
    <3>2. CASE ~PushStore(p)
      <4>1. UNCHANGED stackTop
        BY <1>2, <3>2 DEF PushPage, PushTest, PushLoad, PushWrite, Pushed, pool
      <4> QED BY <1>t, <4>1
    <3> QED BY <3>1, <3>2
  <2>3. Poppers' = Poppers
    BY <1>t, <2>1 DEF Poppers, PushPoints
  <2> QED BY <1>s, <1>t, <2>1, <2>2, <2>3
<1>3. ASSUME NEW p \in Proc, Popped(p) PROVE Counted'
  <2>1. /\ pc[p] = "popped" /\ UNCHANGED <<stackTop, calls>>
        /\ \E to \in {"user", "pushTest"} : pc' = [pc EXCEPT ![p] = to]
    BY <1>3 DEF Popped, MallocPopped, CreatePopped, OpenPopped, OpenFails, At, Goto, Return, pool
  <2>2. Poppers' = Poppers
    BY <1>t, <2>1 DEF Poppers
  <2> QED BY <1>s, <1>t, <2>1, <2>2
<1>4. ASSUME NEW p \in Proc, User(p) PROVE Counted'
  <2>1. /\ pc[p] = "user" /\ UNCHANGED stackTop
        /\ \/ pc' = pc /\ (calls' = calls \/ calls' = calls + 1)
           \/ pc' = [pc EXCEPT ![p] = "popTest"] /\ calls' = calls + 1
           \/ pc' = [pc EXCEPT ![p] = "pushTest"] /\ calls' = calls + 1
    BY <1>4 DEF User, CallMalloc, CallCreate, Exit, CallOpen, CallClose, CloseMisses, At,
          Called, Goto, pool
  <2>2. CASE pc' = pc /\ (calls' = calls \/ calls' = calls + 1)
    <3>1. Poppers' = Poppers
      BY <2>2 DEF Poppers
    <3> QED BY <1>s, <1>t, <2>1, <2>2, <3>1
  <2>3. CASE pc' = [pc EXCEPT ![p] = "popTest"] /\ calls' = calls + 1
    <3>1. Poppers' = Poppers \cup {p}
      BY <1>t, <2>3 DEF Poppers
    <3> QED BY <2>1, <2>3, <3>1, CountKept
  <2>4. CASE pc' = [pc EXCEPT ![p] = "pushTest"] /\ calls' = calls + 1
    <3>1. Poppers' = Poppers
      BY <1>t, <2>1, <2>4 DEF Poppers
    <3> QED BY <1>s, <1>t, <2>1, <2>4, <3>1
  <2> QED BY <2>1, <2>2, <2>3, <2>4
<1>5. ASSUME NEW p \in Proc, Tick(p) PROVE Counted'
  <2>1. UNCHANGED <<stackTop, pc, calls>>
    BY <1>5 DEF Tick, pool
  <2>2. Poppers' = Poppers
    BY <2>1 DEF Poppers
  <2> QED BY <1>s, <1>t, <2>1, <2>2
<1>6. ASSUME NEW z \in Proc, Destroy(z) PROVE Counted'
  <2>1. UNCHANGED <<pc, calls>> /\ status[z] = "finished"
    BY <1>6 DEF Destroy
  <2>2. stackTop' <= stackTop
    <3>1. \A q \in Proc : pc[q] \notin Window
      BY <1>6, NobodyInside DEF Destroy
    <3>2. PagesOf(z) \in Seq(Page) /\ Len(PagesOf(z)) < stackTop /\ Len(PagesOf(z)) \in Nat
      BY <2>1, <3>1, PagesOfIs, RoomToPush
    <3>3. stackTop \in 0..(NumPages - 1) /\ pageStack \in [Index -> Page]
      BY <1>t, TypeParts, Numbers DEF IInv, Room
    <3> DEFINE all == PushAll([stack |-> pageStack, top |-> stackTop], PagesOf(z))
    <3>4. all.top = stackTop - Len(PagesOf(z))
      BY <3>2, <3>3, PushAllIs
    <3>5. stackTop' = all.top
      BY <1>6 DEF Destroy
    <3> HIDE DEF all
    <3> QED BY <1>t, <3>2, <3>4, <3>5
  <2>3. Poppers' = Poppers
    BY <2>1 DEF Poppers
  <2> QED BY <1>s, <1>t, <2>1, <2>2, <2>3
<1>7. CASE UNCHANGED vars
  <2>1. UNCHANGED <<stackTop, pc, calls>>
    BY <1>7 DEF vars, pool
  <2>2. Poppers' = Poppers
    BY <2>1 DEF Poppers
  <2> QED BY <1>s, <1>t, <2>1, <2>2
<1> QED BY <1>1, <1>2, <1>3, <1>4, <1>5, <1>6, <1>7 DEF Next, Ended

(* With enough pages for the calls one is always left: the hypothesis of   *)
(* the theorems above holds, in particular of the pages and calls of the   *)
(* run.                                                                    *)
THEOREM ThePagesLast ==
  ASSUME TicksSpareStack, EnoughPages
  PROVE  Spec => [](stackTop < NumPages)
<1>1. Init => IInv /\ Counted
  <2> SUFFICES ASSUME Init PROVE Counted
    BY InitInv
  <2>1. stackTop = KernelPages + 1 /\ calls = 0 /\ \A p \in Proc : pc[p] = "user"
    BY DEF Init
  <2>2. Poppers = {}
    BY <2>1 DEF Poppers
  <2>3. Cardinality(Poppers) = 0
    BY <2>2, FS_EmptySet
  <2> QED BY <2>1, <2>3, Numbers DEF Counted
<1>2. IInv /\ Counted /\ [Next]_vars => (IInv /\ Counted)'
  BY CountedIsRoom, NextInv, StepCounts
<1>3. IInv /\ Counted => (stackTop < NumPages)
  BY CountedIsRoom DEF Room
<1> QED BY <1>1, <1>2, <1>3, PTL DEF Spec
=============================================================================

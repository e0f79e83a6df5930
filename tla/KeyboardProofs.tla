--------------------------- MODULE KeyboardProofs ---------------------------
(***************************************************************************)
(* What holds of the keyboard for every size of the buffers, every set of  *)
(* keys and modes: the shift flag, wherever the reader is when a key comes;*)
(* and, as long as keys spare the windows that the README describes, that  *)
(* the lines are counted and both devices are the queues they promise.     *)
(***************************************************************************)
EXTENDS Keyboard, FiniteSetTheorems, SequenceTheorems, TLAPS

(* As long as no shift key repeats, shift is the sum of the codes of those *)
(* held down: the induction hypothesis behind ShiftMeansHeld, which alone  *)
(* says too little when the second of two keys is let go.                  *)
Weight(k) == IF k \in held THEN Code(k) ELSE 0
ShiftIs ==
  /\ held \subseteq {"lshift", "rshift"}
  /\ repeats \in 0..MaxRepeats /\ shift \in 0..255
  /\ repeats = 0 => shift = Weight("lshift") + Weight("rshift")

(* shift starts at zero, with no key held.                                 *)
LEMMA InitSums == Init => ShiftIs
BY SizesAssumption DEF Init, ShiftIs, Weight

(* A key of any kind: the four events of the two keys, a repeat of one, and*)
(* all others.                                                             *)
LEMMA KeySums ==
  ASSUME ShiftIs, NEW k \in Keys, attendKeyboard(k) PROVE ShiftIs'
<1>1. processModifierKey(k)
  BY DEF attendKeyboard
<1>7. CASE k \in held
  <2>1. k \in {"lshift", "rshift"} /\ repeats \in Nat
    BY <1>7 DEF ShiftIs
  <2>2. held' \subseteq {"lshift", "rshift"}
    BY <2>1 DEF attendKeyboard, ShiftIs
  <2>3. repeats' = repeats + 1 /\ repeats < MaxRepeats
    BY <1>7 DEF attendKeyboard
  <2>4. repeats' \in 0..MaxRepeats /\ repeats' # 0
    BY <2>1, <2>3, SizesAssumption
  <2>5. shift' = (shift + Code(k)) % 256
    BY <1>1, <2>1 DEF processModifierKey
  <2>6. shift' \in 0..255
    BY <2>5 DEF ShiftIs, Code
  <2> QED BY <2>2, <2>4, <2>6 DEF ShiftIs
<1>8. SUFFICES ASSUME k \notin held PROVE ShiftIs'
  BY <1>7
<1>9. repeats' = repeats
  BY <1>8 DEF attendKeyboard
<1>2. CASE k = "lshift"
  <2>1. "lshift" \notin held /\ held' = held \cup {"lshift"}
    BY <1>2, <1>8 DEF attendKeyboard
  <2>2. shift' = (shift + 42) % 256
    BY <1>1, <1>2 DEF processModifierKey, Code
  <2> QED BY <1>9, <2>1, <2>2 DEF ShiftIs, Weight, Code
<1>3. CASE k = "rshift"
  <2>1. "rshift" \notin held /\ held' = held \cup {"rshift"}
    BY <1>3, <1>8 DEF attendKeyboard
  <2>2. shift' = (shift + 54) % 256
    BY <1>1, <1>3 DEF processModifierKey, Code
  <2> QED BY <1>9, <2>1, <2>2 DEF ShiftIs, Weight, Code
<1>4. CASE k = "lshiftUp"
  <2>1. "lshift" \in held /\ held' = held \ {"lshift"}
    BY <1>4 DEF attendKeyboard
  <2>2. shift' = (shift - 42) % 256
    BY <1>1, <1>4 DEF processModifierKey, Code
  <2> QED BY <1>9, <2>1, <2>2 DEF ShiftIs, Weight, Code
<1>5. CASE k = "rshiftUp"
  <2>1. "rshift" \in held /\ held' = held \ {"rshift"}
    BY <1>5 DEF attendKeyboard
  <2>2. shift' = (shift - 54) % 256
    BY <1>1, <1>5 DEF processModifierKey, Code
  <2> QED BY <1>9, <2>1, <2>2 DEF ShiftIs, Weight, Code
<1>6. CASE k \notin {"lshift", "rshift", "lshiftUp", "rshiftUp"}
  <2>1. held' = held
    BY <1>6 DEF attendKeyboard
  <2>2. shift' = shift
    BY <1>1, <1>6 DEF processModifierKey
  <2> QED BY <1>9, <2>1, <2>2 DEF ShiftIs, Weight, Code
<1> QED BY <1>2, <1>3, <1>4, <1>5, <1>6

(* Nothing the reading process does touches the keyboard's flags.          *)
LEMMA ReaderKeepsShift == ASSUME Reader PROVE UNCHANGED <<shift, held, repeats>>
<1>1. ASSUME NEW m \in Modes, changeMode(m) PROVE UNCHANGED <<shift, held, repeats>>
  BY <1>1 DEF changeMode
<1>2. ASSUME NEW d \in Device, NEW bytes \in 1..MaxBytes, CallRead(d, bytes)
      PROVE  UNCHANGED <<shift, held, repeats>>
  BY <1>2 DEF CallRead, keyboard
<1>3. CASE Test
  BY <1>3 DEF Test, Goto, keyboard
<1>4. CASE Dequeue
  BY <1>4 DEF Dequeue, Check, DeqLoad, DeqStore, Take, SizeLoad, SizeStore, Wrap, Deliver, Goto, keyboard
<1>5. CASE DataLoad \/ DataStore
  BY <1>5 DEF DataLoad, DataStore, Deliver, Goto, keyboard
<1> QED BY <1>1, <1>2, <1>3, <1>4, <1>5 DEF Reader, stdinDequeueChar, rawDequeueKey

(* No step leaves shift other than the sum of the keys held.               *)
LEMMA StepSums == ShiftIs /\ [Next]_vars => ShiftIs'
<1> SUFFICES ASSUME ShiftIs, [Next]_vars PROVE ShiftIs'
  OBVIOUS
<1>1. CASE Reader
  BY <1>1, ReaderKeepsShift DEF ShiftIs, Weight, Code
<1>2. ASSUME NEW k \in Keys, attendKeyboard(k) PROVE ShiftIs'
  BY <1>2, KeySums
<1>3. CASE UNCHANGED vars
  BY <1>3 DEF vars, keyboard, ShiftIs, Weight, Code
<1> QED BY <1>1, <1>2, <1>3 DEF Next

(* Until a shift key is held long enough to repeat, characters are shifted *)
(* exactly while one is held, in whatever order the two are pressed and let*)
(* go and the modes change in between (keyboard.c:57-81).                  *)
THEOREM ShiftFollowsKeys == Spec => []ShiftMeansHeld
<1>1. ShiftIs => ShiftMeansHeld
  <2> SUFFICES ASSUME ShiftIs, repeats = 0 PROVE shift # 0 <=> held # {}
    BY DEF ShiftMeansHeld
  <2>1. CASE held = {}
    BY <2>1 DEF ShiftIs, Weight
  <2>2. CASE "lshift" \in held \/ "rshift" \in held
    BY <2>2 DEF ShiftIs, Weight, Code
  <2> QED BY <2>1, <2>2 DEF ShiftIs
<1> QED BY <1>1, InitSums, StepSums, PTL DEF Spec

-----------------------------------------------------------------------------
(* Where a buffer of n slots ends that has its first item at first and     *)
(* size items: slot number first + size, modulo n.                         *)
EndsAt(e, x, n) == e \in 0..(n - 1) /\ (e = x \/ e = x - n \/ e = x - n - n)
Aligned(b, first, n) ==
  b.size \in 0..n /\ first \in 0..n /\ EndsAt(b.enqIdx, first + b.size, n)

(* The slot of the i-th item.                                              *)
Slot(i, first, n) == IF first + i <= n THEN first + i - 1 ELSE first + i - 1 - n

(* The slots of the items are in the buffer; none of them is the next one  *)
(* to be filled, which is where item size + 1 belongs.                     *)
LEMMA SlotInside ==
  ASSUME NEW n \in Nat \ {0}, NEW first \in 0..n, NEW i \in 1..n
  PROVE  Slot(i, first, n) \in 0..(n - 1)
BY DEF Slot
LEMMA SlotAtEnd ==
  ASSUME NEW n \in Nat \ {0}, NEW e \in Int, NEW size \in 0..(n - 1), NEW first \in 0..n,
         EndsAt(e, first + size, n), NEW f, f = IF e + 1 = n THEN 0 ELSE e + 1
  PROVE  Slot(size + 1, first, n) = e /\ EndsAt(f, first + (size + 1), n)
<1>1. Slot(size + 1, first, n) = e
  BY DEF EndsAt, Slot
<1>2. EndsAt(f, first + (size + 1), n)
  BY DEF EndsAt
<1> QED BY <1>1, <1>2
LEMMA SlotNotAtEnd ==
  ASSUME NEW n \in Nat \ {0}, NEW e \in Int, NEW size \in 0..(n - 1), NEW first \in 0..n,
         EndsAt(e, first + size, n), NEW i \in 1..size
  PROVE  Slot(i, first, n) # e
BY DEF EndsAt, Slot

(* What is held is a sequence as long as the buffer counts.                *)
LEMMA HeldIs ==
  ASSUME NEW n \in Nat \ {0}, NEW X, NEW b, NEW first, Aligned(b, first, n),
         b.buffer \in [0..(n - 1) -> X]
  PROVE  /\ Held(b, first, n) = [i \in 1..b.size |-> b.buffer[Slot(i, first, n)]]
         /\ Held(b, first, n) \in Seq(X) /\ Len(Held(b, first, n)) = b.size
         /\ b.size > 0 /\ first < n => Held(b, first, n)[1] = b.buffer[first]
<1>1. PICK z \in 0..n : z = b.size
  BY DEF Aligned
<1>2. first \in 0..n
  BY DEF Aligned
<1>3. Held(b, first, n) = [i \in 1..z |-> b.buffer[Slot(i, first, n)]]
  BY <1>1 DEF Held, Slot
<1>4. \A i \in 1..z : Slot(i, first, n) \in 0..(n - 1)
  <2>1. ASSUME NEW i \in 1..z PROVE Slot(i, first, n) \in 0..(n - 1)
    <3>1. i \in 1..n
      BY <1>1
    <3> QED BY <1>2, <3>1, SlotInside
  <2> QED BY <2>1
<1>5. Held(b, first, n) \in [1..z -> X]
  BY <1>3, <1>4
<1>6. Held(b, first, n) \in Seq(X) /\ Len(Held(b, first, n)) = z
  BY <1>1, <1>5
<1>7. first < n => Slot(1, first, n) = first
  BY <1>2 DEF Slot
<1>8. z > 0 /\ first < n => Held(b, first, n)[1] = b.buffer[first]
  BY <1>1, <1>3, <1>7
<1> QED BY <1>1, <1>3, <1>6, <1>8

(* enq puts an item behind those held.                                     *)
Fills(b, c, n, x) ==
  /\ b.size # n /\ c.size = b.size + 1 /\ c.buffer = [b.buffer EXCEPT ![b.enqIdx] = x]
  /\ c.enqIdx = IF b.enqIdx + 1 = n THEN 0 ELSE b.enqIdx + 1
LEMMA HeldPut ==
  ASSUME NEW n \in Nat \ {0}, NEW X, NEW b, NEW c, NEW first, NEW x \in X, Aligned(b, first, n),
         b.buffer \in [0..(n - 1) -> X], Fills(b, c, n, x)
  PROVE  /\ Held(c, first, n) = Append(Held(b, first, n), x) /\ Aligned(c, first, n)
         /\ c.buffer \in [0..(n - 1) -> X]
         /\ b.size > 0 /\ first < n => c.buffer[first] = b.buffer[first]
<1>0. \A d, f : Aligned(d, f, n) /\ d.buffer \in [0..(n - 1) -> X] =>
         /\ Held(d, f, n) = [i \in 1..d.size |-> d.buffer[Slot(i, f, n)]]
         /\ Held(d, f, n) \in Seq(X) /\ Len(Held(d, f, n)) = d.size
  BY HeldIs
<1> USE DEF Fills
<1>1. PICK z \in 0..(n - 1) : z = b.size
  BY DEF Aligned
<1>2. PICK e \in 0..(n - 1) : e = b.enqIdx
  BY DEF Aligned, EndsAt
<1>3. first \in 0..n /\ EndsAt(e, first + z, n)
  BY <1>1, <1>2 DEF Aligned
<1>4. Slot(z + 1, first, n) = e /\ EndsAt(c.enqIdx, first + (z + 1), n)
  <2>1. e \in Int /\ c.enqIdx = IF e + 1 = n THEN 0 ELSE e + 1
    BY <1>2
  <2> QED BY <1>1, <1>3, <2>1, SlotAtEnd
<1>5. Aligned(c, first, n)
  <2>1. c.size \in 0..n /\ c.size = z + 1
    BY <1>1
  <2> QED BY <1>3, <1>4, <2>1 DEF Aligned
<1>6. c.buffer \in [0..(n - 1) -> X] /\ c.buffer[e] = x
      /\ \A j \in 0..(n - 1) : j # e => c.buffer[j] = b.buffer[j]
  BY <1>2
<1>7. \A i \in 1..z : Slot(i, first, n) \in 0..(n - 1) /\ Slot(i, first, n) # e
  <2>1. \A i \in 1..z : Slot(i, first, n) \in 0..(n - 1)
    <3>1. ASSUME NEW i \in 1..z PROVE Slot(i, first, n) \in 0..(n - 1)
      <4>1. i \in 1..n
        BY <1>1
      <4> QED BY <1>3, <4>1, SlotInside
    <3> QED BY <3>1
  <2>2. \A i \in 1..z : Slot(i, first, n) # e
    <3>1. e \in Int
      BY <1>2
    <3> QED BY <1>1, <1>3, <3>1, SlotNotAtEnd
  <2> QED BY <2>1, <2>2
<1>8. /\ Held(b, first, n) = [i \in 1..z |-> b.buffer[Slot(i, first, n)]]
      /\ Held(b, first, n) \in Seq(X) /\ Len(Held(b, first, n)) = z
  BY <1>1, HeldIs
<1>9. /\ Held(c, first, n) = [i \in 1..(z + 1) |-> c.buffer[Slot(i, first, n)]]
      /\ Held(c, first, n) \in Seq(X) /\ Len(Held(c, first, n)) = z + 1
  <2>1. c.size = z + 1 /\ c.buffer \in [0..(n - 1) -> X]
    BY <1>1, <1>6
  <2>2. /\ Held(c, first, n) = [i \in 1..c.size |-> c.buffer[Slot(i, first, n)]]
        /\ Held(c, first, n) \in Seq(X) /\ Len(Held(c, first, n)) = c.size
    BY <1>0, <1>5, <2>1
  <2> QED BY <2>1, <2>2
<1>a. \A i \in 1..(z + 1) : Held(c, first, n)[i] = Append(Held(b, first, n), x)[i]
  <2>1. ASSUME NEW i \in 1..z PROVE Held(c, first, n)[i] = Append(Held(b, first, n), x)[i]
    <3>1. Held(c, first, n)[i] = b.buffer[Slot(i, first, n)]
      BY <1>1, <1>6, <1>7, <1>9
    <3>2. Append(Held(b, first, n), x)[i] = b.buffer[Slot(i, first, n)]
      BY <1>1, <1>8
    <3> QED BY <3>1, <3>2
  <2>2. Held(c, first, n)[z + 1] = Append(Held(b, first, n), x)[z + 1]
    <3>1. Held(c, first, n)[z + 1] = x
      BY <1>1, <1>4, <1>6, <1>9
    <3>2. Append(Held(b, first, n), x)[z + 1] = x
      BY <1>1, <1>8
    <3> QED BY <3>1, <3>2
  <2>3. \A i \in 1..(z + 1) : i \in 1..z \/ i = z + 1
    BY <1>1
  <2> QED BY <2>1, <2>2, <2>3
<1>b. Append(Held(b, first, n), x) \in Seq(X) /\ Len(Append(Held(b, first, n), x)) = z + 1
  BY <1>8
<1>c. Held(c, first, n) = Append(Held(b, first, n), x)
  <2> DEFINE h == Held(c, first, n)
             t == Append(Held(b, first, n), x)
  <2>1. h \in Seq(X) /\ t \in Seq(X) /\ Len(h) = Len(t) /\ \A i \in 1..Len(h) : h[i] = t[i]
    BY <1>9, <1>a, <1>b
  <2> HIDE DEF h, t
  <2>2. h = t
    BY <2>1, SeqEqual
  <2> QED BY <2>2 DEF h, t
<1>d. b.size > 0 /\ first < n => c.buffer[first] = b.buffer[first]
  <2> SUFFICES ASSUME z > 0, first < n PROVE c.buffer[first] = b.buffer[first]
    BY <1>1
  <2>1. Slot(1, first, n) = first /\ 1 \in 1..z
    BY <1>1, <1>3 DEF Slot
  <2> QED BY <1>6, <1>7, <2>1
<1> QED BY <1>5, <1>6, <1>c, <1>d

(* Advancing the first slot takes the first item away.                     *)
LEMMA HeldGet ==
  ASSUME NEW n \in Nat \ {0}, NEW X, NEW b, NEW c, NEW first, Aligned(b, first, n),
         b.buffer \in [0..(n - 1) -> X], b.size # 0, first < n,
         c.buffer = b.buffer, c.size = b.size - 1, c.enqIdx = b.enqIdx
  PROVE  /\ Held(b, first, n) # <<>> /\ Head(Held(b, first, n)) = b.buffer[first]
         /\ Held(c, first + 1, n) = Tail(Held(b, first, n)) /\ Aligned(c, first + 1, n)
<1>0. \A d, f : Aligned(d, f, n) /\ d.buffer \in [0..(n - 1) -> X] =>
         /\ Held(d, f, n) = [i \in 1..d.size |-> d.buffer[Slot(i, f, n)]]
         /\ Held(d, f, n) \in Seq(X) /\ Len(Held(d, f, n)) = d.size
  BY HeldIs
<1>1. PICK z \in 1..n : z = b.size
  BY DEF Aligned
<1>2. first \in 0..(n - 1) /\ EndsAt(b.enqIdx, first + z, n)
  BY <1>1 DEF Aligned
<1>3. Aligned(c, first + 1, n)
  <2>1. (first + 1) + (z - 1) = first + z /\ z - 1 \in 0..n /\ first + 1 \in 0..n
    BY <1>1, <1>2
  <2> QED BY <1>1, <1>2, <2>1 DEF Aligned
<1>4. /\ Held(b, first, n) = [i \in 1..z |-> b.buffer[Slot(i, first, n)]]
      /\ Held(b, first, n) \in Seq(X) /\ Len(Held(b, first, n)) = z
  <2>1. /\ Held(b, first, n) = [i \in 1..b.size |-> b.buffer[Slot(i, first, n)]]
        /\ Held(b, first, n) \in Seq(X) /\ Len(Held(b, first, n)) = b.size
    BY HeldIs
  <2> QED BY <1>1, <2>1
<1>h. Held(b, first, n)[1] = b.buffer[first]
  <2>1. Slot(1, first, n) = first /\ 1 \in 1..z
    BY <1>1, <1>2 DEF Slot
  <2> QED BY <1>4, <2>1
<1>5. /\ Held(c, first + 1, n) = [i \in 1..(z - 1) |-> b.buffer[Slot(i, first + 1, n)]]
      /\ Held(c, first + 1, n) \in Seq(X) /\ Len(Held(c, first + 1, n)) = z - 1
  <2>1. c.size = z - 1 /\ c.buffer = b.buffer
    BY <1>1
  <2>2. /\ Held(c, first + 1, n) = [i \in 1..c.size |-> c.buffer[Slot(i, first + 1, n)]]
        /\ Held(c, first + 1, n) \in Seq(X) /\ Len(Held(c, first + 1, n)) = c.size
    BY <1>0, <1>3, <2>1
  <2> QED BY <2>1, <2>2
<1>6. /\ Tail(Held(b, first, n)) \in Seq(X) /\ Len(Tail(Held(b, first, n))) = z - 1
      /\ Held(b, first, n) # <<>> /\ Head(Held(b, first, n)) = b.buffer[first]
  BY <1>1, <1>4, <1>h
<1>7. \A i \in 1..(z - 1) : Held(c, first + 1, n)[i] = Tail(Held(b, first, n))[i]
  <2> SUFFICES ASSUME NEW i \in 1..(z - 1)
               PROVE  Held(c, first + 1, n)[i] = Tail(Held(b, first, n))[i]
    OBVIOUS
  <2>1. Tail(Held(b, first, n))[i] = Held(b, first, n)[i + 1]
    BY <1>1, <1>4
  <2>2. i + 1 \in 1..z /\ Slot(i + 1, first, n) = Slot(i, first + 1, n)
    BY <1>1, <1>2 DEF Slot
  <2> QED BY <1>4, <1>5, <2>1, <2>2
<1>8. Held(c, first + 1, n) = Tail(Held(b, first, n))
  BY <1>1, <1>5, <1>6, <1>7
<1> QED BY <1>3, <1>6, <1>8

(* An index past the last slot stands for the first one.                   *)
LEMMA HeldWraps ==
  ASSUME NEW n \in Nat \ {0}, NEW b, Aligned(b, n, n)
  PROVE  Held(b, 0, n) = Held(b, n, n) /\ Aligned(b, 0, n)
<1>1. PICK z \in 0..n : z = b.size
  BY DEF Aligned
<1>2. EndsAt(b.enqIdx, 0 + z, n)
  BY <1>1 DEF Aligned, EndsAt
<1>3. Aligned(b, 0, n)
  BY <1>1, <1>2 DEF Aligned
<1>4. \A i \in 1..z : (IF 0 + i <= n THEN 0 + i - 1 ELSE 0 + i - 1 - n)
                      = (IF n + i <= n THEN n + i - 1 ELSE n + i - 1 - n)
  BY <1>1
<1> QED BY <1>1, <1>3, <1>4 DEF Held

(* The number of times that an item is in a sequence, and how it changes.  *)
Where(s, x) == {i \in DOMAIN s : s[i] = x}
Times(s, x) == Cardinality(Where(s, x))

(* It is a natural number, at most the length, and positive when the item  *)
(* is there.                                                               *)
LEMMA TimesIs ==
  ASSUME NEW X, NEW s \in Seq(X), NEW x
  PROVE  /\ IsFiniteSet(Where(s, x)) /\ Times(s, x) \in Nat /\ Times(s, x) <= Len(s)
         /\ Times(s, x) > 0 <=> \E i \in 1..Len(s) : s[i] = x
<1>1. IsFiniteSet(1..Len(s)) /\ Cardinality(1..Len(s)) = Len(s)
  <2>1. Len(s) \in Nat
    OBVIOUS
  <2> QED BY <2>1, FS_Interval
<1>2. Where(s, x) \subseteq 1..Len(s)
  BY DEF Where
<1>3. IsFiniteSet(Where(s, x)) /\ Cardinality(Where(s, x)) <= Len(s)
  BY <1>1, <1>2, FS_Subset
<1>4. Cardinality(Where(s, x)) \in Nat
  BY <1>3, FS_CardinalityType
<1>5. Cardinality(Where(s, x)) = 0 <=> Where(s, x) = {}
  BY <1>3, FS_EmptySet
<1>6. Where(s, x) # {} <=> \E i \in 1..Len(s) : s[i] = x
  BY DEF Where
<1> QED BY <1>3, <1>4, <1>5, <1>6 DEF Times

(* An item put at the end is there once more.                              *)
LEMMA TimesPut ==
  ASSUME NEW X, NEW s \in Seq(X), NEW y \in X, NEW x
  PROVE  Times(Append(s, y), x) = Times(s, x) + IF y = x THEN 1 ELSE 0
<1>1. Append(s, y) \in Seq(X) /\ Len(Append(s, y)) = Len(s) + 1
  OBVIOUS
<1>2. \A i \in 1..Len(s) : Append(s, y)[i] = s[i]
  OBVIOUS
<1>3. Append(s, y)[Len(s) + 1] = y
  OBVIOUS
<1>4. Where(Append(s, y), x) = Where(s, x) \cup IF y = x THEN {Len(s) + 1} ELSE {}
  <2>1. DOMAIN Append(s, y) = 1..(Len(s) + 1) /\ DOMAIN s = 1..Len(s)
    BY <1>1
  <2> QED BY <1>2, <1>3, <2>1 DEF Where
<1>5. Len(s) + 1 \notin Where(s, x)
  BY DEF Where
<1>6. IsFiniteSet(Where(s, x))
  BY TimesIs
<1>7. Cardinality(Where(s, x) \cup {Len(s) + 1}) = Cardinality(Where(s, x)) + 1
  BY <1>5, <1>6, FS_AddElement
<1>8. Cardinality(Where(s, x)) \in Nat
  BY <1>6, FS_CardinalityType
<1>9. CASE y = x
  BY <1>4, <1>7, <1>8, <1>9 DEF Times
<1>a. CASE y # x
  <2>1. Where(Append(s, y), x) = Where(s, x)
    BY <1>4, <1>a
  <2> QED BY <1>8, <1>a, <2>1 DEF Times
<1> QED BY <1>9, <1>a

(* An item taken from the front is there once less.                        *)
LEMMA TimesGet ==
  ASSUME NEW X, NEW s \in Seq(X), s # <<>>, NEW x
  PROVE  Times(s, x) = Times(Tail(s), x) + IF Head(s) = x THEN 1 ELSE 0
<1>1. /\ Tail(s) \in Seq(X) /\ Len(Tail(s)) = Len(s) - 1 /\ Len(s) \in Nat \ {0}
      /\ Head(s) = s[1]
  OBVIOUS
<1>2. \A i \in 1..(Len(s) - 1) : Tail(s)[i] = s[i + 1]
  OBVIOUS
<1> DEFINE W == Where(s, x) \ {1}
           V == Where(Tail(s), x)
           f == [i \in V |-> i + 1]
<1>3. V = {i \in 1..(Len(s) - 1) : s[i + 1] = x}
  BY <1>1, <1>2 DEF Where
<1>4. W = {i \in 2..Len(s) : s[i] = x}
  BY <1>1 DEF Where
<1>5. f \in Bijection(V, W)
  <2>1. f \in [V -> W]
    BY <1>1, <1>3, <1>4
  <2>2. \A i, j \in V : f[i] = f[j] => i = j
    BY <1>1, <1>3
  <2>3. ASSUME NEW w \in W PROVE \E v \in V : f[v] = w
    <3>1. w - 1 \in V /\ (w - 1) + 1 = w
      BY <1>1, <1>3, <1>4
    <3> QED BY <3>1
  <2> QED BY <2>1, <2>2, <2>3 DEF Bijection, Injection, Surjection, IsInjective
<1>6. IsFiniteSet(V) /\ IsFiniteSet(Where(s, x))
  BY <1>1, TimesIs
<1>7. Cardinality(W) = Cardinality(V)
  <2> HIDE DEF V, W, f
  <2>1. ExistsBijection(V, W)
    BY <1>5 DEF ExistsBijection
  <2> QED BY <1>6, <2>1, FS_Bijection
<1>8. Cardinality(W) = IF 1 \in Where(s, x) THEN Cardinality(Where(s, x)) - 1
                                            ELSE Cardinality(Where(s, x))
  BY <1>6, FS_RemoveElement
<1>9. 1 \in Where(s, x) <=> Head(s) = x
  BY <1>1 DEF Where
<1>a. Cardinality(Where(s, x)) \in Nat
  BY <1>6, FS_CardinalityType
<1> QED BY <1>7, <1>8, <1>9, <1>a DEF Times
-----------------------------------------------------------------------------
(* The windows in which the README says that a key does harm: between load *)
(* and store of a counter, any key that is counted; during a dequeue, a    *)
(* backspace, which moves the reader's end of the buffer.                  *)
KeysSpareCounters == KeyPoints \cap {"sizeStore", "dataStore"} = {}
ErasesSpareReader == ErasePoints \subseteq {"user", "test", "dataLoad"}

(* Either device, what is in it, and the slot its contents begin at.       *)
Dev(d)   == IF d = "stdin" THEN stdin ELSE raw
Item(d)  == IF d = "stdin" THEN Character ELSE ScanCode
Busy     == {"take", "sizeLoad", "sizeStore"}
First(d) == IF call.device = d /\ pc \in Busy THEN call.index ELSE Dev(d).deqIdx

(* The types; hasData is any number as far as they go.                     *)
StdinType ==
  [buffer : [0..(StdinSize - 1) -> Character], size : 0..StdinSize,
   enqIdx : 0..(StdinSize - 1), deqIdx : 0..StdinSize, hasData : Int]
RawType ==
  [buffer : [0..(RawSize - 1) -> ScanCode], size : 0..RawSize,
   enqIdx : 0..(RawSize - 1), deqIdx : 0..RawSize]
CallType ==
  [device : Device, left : Int, index : Int, value : Int, byte : Character \cup ScanCode]
BuffersTyped == stdin \in StdinType /\ raw \in RawType
ReaderTyped ==
  /\ call \in CallType /\ pc \in Point
  /\ taken \in [Device -> Character \cup ScanCode]
KeyboardTyped == keyboardMode \in Mode /\ caps \in {0, 1} /\ num \in {0, 1}

(* Both buffers are circular, and an index that is not wrapped yet is that *)
(* of the reader between its increment and its wrap.                       *)
Circular ==
  \A d \in Device :
    /\ Aligned(Dev(d), First(d), Size(d))
    /\ Dev(d).deqIdx = Size(d) => call.device = d /\ pc \in Busy \cup {"wrap"}

(* What the reader knows inside a dequeue: that there is a byte, where it  *)
(* is and which, and the counter it has loaded.                            *)
Knows ==
  /\ pc \in {"deqLoad", "deqStore"} \cup Busy => Buffer.size # 0
  /\ pc = "deqStore" => call.index = Buffer.deqIdx
  /\ pc \in Busy => Buffer.deqIdx = call.index + 1
  /\ pc \in {"sizeLoad", "sizeStore"} => call.byte = Buffer.buffer[call.index]
  /\ pc = "sizeStore" => call.value = Buffer.size
  /\ pc \in {"dataLoad", "dataStore"} => call.device = "stdin" /\ call.byte = Newline
  /\ pc = "dataStore" => call.value = stdin.hasData
(* A line to read lasts from the test up to the moment a byte is taken out.*)
LineStays ==
  call.device = "stdin" /\ pc \in {"check", "deqLoad", "deqStore"} \cup Busy
    => stdin.hasData # 0

(* The ends of lines in the buffer and in the reader's hand are counted    *)
(* (HasDataCounts), and a full buffer has one (FullCanBeRead).             *)
InHand ==
  IF pc \in {"wrap", "dataLoad", "dataStore"} /\ call.device = "stdin" /\ call.byte = Newline
  THEN 1 ELSE 0
Counted ==
  /\ stdin.hasData = Times(Contents("stdin"), Newline) + InHand
  /\ stdin.size = StdinSize => Times(Contents("stdin"), Newline) # 0

(* The inductive invariant. LinesAreCounted is not inductive: what the     *)
(* store of a counter leaves depends on the value the reader has loaded,   *)
(* and what the store of a size takes out on where its index stands.       *)
IInv ==
  /\ BuffersTyped /\ ReaderTyped /\ KeyboardTyped /\ ShiftIs
  /\ Circular /\ Knows /\ LineStays /\ Counted

(* The sizes are positive, and there are two devices.                      *)
LEMMA Basics ==
  /\ StdinSize \in Nat \ {0} /\ RawSize \in Nat \ {0}
  /\ \A d \in Device : Size(d) \in Nat \ {0} /\ d \in {"stdin", "raw"}
  /\ Size("stdin") = StdinSize /\ Size("raw") = RawSize
  /\ Dev("stdin") = stdin /\ Dev("raw") = raw
  /\ Item("stdin") = Character /\ Item("raw") = ScanCode
  /\ "stdin" \in Device /\ "raw" \in Device /\ "stdin" # "raw"
BY SizesAssumption DEF Size, Device, Dev, Item

(* The same of the devices after a step.                                   *)
LEMMA BasicsNext == Dev("stdin")' = stdin' /\ Dev("raw")' = raw'
BY DEF Dev

(* Contents, in terms of the slot it begins at.                            *)
LEMMA ContentsIs ==
  ASSUME NEW d \in Device
  PROVE  /\ Contents(d) = Held(Dev(d), First(d), Size(d))
         /\ Contents(d)' = Held(Dev(d)', First(d)', Size(d))
BY DEF Contents, Dev, First, Busy

(* The fields of either device.                                            *)
LEMMA DevTyped ==
  ASSUME BuffersTyped, NEW d \in Device
  PROVE  /\ Dev(d).buffer \in [0..(Size(d) - 1) -> Item(d)]
         /\ Dev(d).size \in 0..Size(d) /\ Dev(d).deqIdx \in 0..Size(d)
         /\ Dev(d).enqIdx \in 0..(Size(d) - 1)
<1>1. CASE d = "stdin"
  BY <1>1, Basics DEF BuffersTyped, StdinType
<1>2. CASE d = "raw"
  BY <1>2, Basics DEF BuffersTyped, RawType
<1> QED BY <1>1, <1>2, Basics

(* What is in a device is a sequence of its items, as long as its size.    *)
LEMMA ContentsTyped ==
  ASSUME BuffersTyped, Circular, NEW d \in Device
  PROVE  Contents(d) \in Seq(Item(d)) /\ Len(Contents(d)) = Dev(d).size
<1>1. Aligned(Dev(d), First(d), Size(d)) /\ Dev(d).buffer \in [0..(Size(d) - 1) -> Item(d)]
  BY DevTyped DEF Circular
<1>2. Size(d) \in Nat \ {0}
  BY Basics
<1>3. /\ Held(Dev(d), First(d), Size(d)) \in Seq(Item(d))
      /\ Len(Held(Dev(d), First(d), Size(d))) = Dev(d).size
  <2> DEFINE n == Size(d)
             b == Dev(d)
             f == First(d)
             X == Item(d)
  <2>1. n \in Nat \ {0} /\ Aligned(b, f, n) /\ b.buffer \in [0..(n - 1) -> X]
    BY <1>1, <1>2
  <2> HIDE DEF n, b, f, X
  <2>2. Held(b, f, n) \in Seq(X) /\ Len(Held(b, f, n)) = b.size
    BY <2>1, HeldIs
  <2> QED BY <2>2 DEF n, b, f, X
<1> QED BY <1>3, ContentsIs

(* The types make the caller's device one of the two.                      *)
LEMMA Caller ==
  ASSUME IInv
  PROVE  /\ call.device \in Device /\ call \in CallType /\ pc \in Point
         /\ Buffer = Dev(call.device)
BY DEF IInv, ReaderTyped, CallType, Buffer, Dev

(* What a device holds does not change when neither its bytes nor where    *)
(* they begin and end do.                                                  *)
SameBytes(d) ==
  /\ Dev(d).buffer' = Dev(d).buffer /\ Dev(d).size' = Dev(d).size
  /\ Dev(d).enqIdx' = Dev(d).enqIdx /\ First(d)' = First(d)
LEMMA StillHolds ==
  ASSUME IInv, NEW d \in Device, SameBytes(d)
  PROVE  Contents(d)' = Contents(d) /\ Aligned(Dev(d), First(d), Size(d))'
<1>1. Aligned(Dev(d), First(d), Size(d))
  BY DEF IInv, Circular
<1>2. Size(d)' = Size(d)
  BY DEF Size
<1>3. Aligned(Dev(d), First(d), Size(d))'
  BY <1>1, <1>2 DEF Aligned, SameBytes
<1>4. Held(Dev(d)', First(d)', Size(d)) = Held(Dev(d), First(d), Size(d))
  BY DEF Held, SameBytes
<1> QED BY <1>3, <1>4, ContentsIs

(* Holding the same, and the ends of lines in hand being as many, the      *)
(* counts still agree.                                                     *)
LEMMA StillCounted ==
  ASSUME IInv, Contents("stdin")' = Contents("stdin"), InHand' = InHand,
         stdin.hasData' = stdin.hasData, stdin.size' = stdin.size
  PROVE  Counted'
BY DEF IInv, Counted

(* A step of the reader that changes no buffer: what it has to respect.    *)
OnlyReads ==
  /\ UNCHANGED <<buffers, keyboard, taken>> /\ call' \in CallType /\ pc' \in Point
  /\ \A d \in Device : First(d)' = First(d)
  /\ \A d \in Device : Dev(d).deqIdx = Size(d) => call.device' = d /\ pc' \in Busy \cup {"wrap"}
  /\ Knows' /\ LineStays' /\ InHand' = InHand
Unchanged == \A d \in Device : Contents(d)' = Contents(d) /\ taken'[d] = taken[d]
LEMMA ReadingKeeps ==
  ASSUME IInv, OnlyReads
  PROVE  IInv' /\ Unchanged
<1>1. stdin' = stdin /\ raw' = raw /\ taken' = taken
  BY DEF OnlyReads, buffers
<1>2. BuffersTyped' /\ ReaderTyped'
  BY <1>1 DEF IInv, BuffersTyped, ReaderTyped, OnlyReads
<1>3. KeyboardTyped' /\ ShiftIs'
  BY DEF IInv, KeyboardTyped, ShiftIs, Weight, Code, OnlyReads, keyboard
<1>4. \A d \in Device : Dev(d)' = Dev(d) /\ Size(d)' = Size(d)
  BY <1>1 DEF Dev, Size
<1>5. \A d \in Device : SameBytes(d)
  BY <1>4 DEF SameBytes, OnlyReads
<1>6. \A d \in Device : Contents(d)' = Contents(d) /\ Aligned(Dev(d), First(d), Size(d))'
  BY <1>5, StillHolds
<1>7. Circular'
  BY <1>4, <1>6 DEF Circular, OnlyReads
<1>8. Counted'
  BY <1>1, <1>6, Basics, StillCounted DEF OnlyReads
<1> QED BY <1>1, <1>2, <1>3, <1>6, <1>7, <1>8 DEF IInv, OnlyReads, Unchanged

(* The steps that only read.                                               *)
LEMMA ChangeModeKeeps ==
  ASSUME IInv, NEW m \in Modes, changeMode(m)
  PROVE  IInv' /\ Unchanged
<1>1. /\ UNCHANGED <<stdin, raw, call, pc, taken, caps, num, shift, held, repeats>>
      /\ keyboardMode' = m /\ m \in Mode
  BY KeysAssumption DEF changeMode, buffers
<1>2. BuffersTyped' /\ ReaderTyped' /\ KeyboardTyped' /\ ShiftIs'
  BY <1>1 DEF IInv, BuffersTyped, ReaderTyped, KeyboardTyped, ShiftIs, Weight, Code
<1>3. \A d \in Device : Dev(d)' = Dev(d) /\ First(d)' = First(d) /\ Size(d)' = Size(d)
  BY <1>1 DEF Dev, First, Size
<1>4. \A d \in Device : Contents(d)' = Contents(d)
  BY <1>3, ContentsIs
<1>5. Circular'
  BY <1>1, <1>3 DEF IInv, Circular
<1>6. Knows' /\ LineStays' /\ InHand' = InHand
  BY <1>1 DEF IInv, Knows, LineStays, InHand, Buffer
<1>7. Counted'
  BY <1>1, <1>4, <1>6, Basics, StillCounted
<1> QED BY <1>1, <1>2, <1>4, <1>5, <1>6, <1>7 DEF IInv, Unchanged

(* Outside the dequeue every index is wrapped.                             *)
LEMMA Wrapped ==
  ASSUME IInv, pc \notin Busy \cup {"wrap"}, NEW d \in Device
  PROVE  Dev(d).deqIdx # Size(d) /\ First(d) = Dev(d).deqIdx
BY DEF IInv, Circular, First

LEMMA CallReadKeeps ==
  ASSUME IInv, NEW d \in Device, NEW bytes \in 1..MaxBytes, CallRead(d, bytes)
  PROVE  IInv' /\ Unchanged
<1>1. /\ UNCHANGED <<buffers, keyboard, taken>> /\ pc = "user" /\ pc' = "test"
      /\ call' = [NoCall EXCEPT !.device = d, !.left = bytes]
  BY DEF CallRead
<1>2. call' \in CallType
  <2>1. Newline \in Character /\ bytes \in Int /\ "stdin" \in Device
    BY SizesAssumption DEF Newline, Character, Symbols, Device
  <2>2. NoCall \in CallType
    BY <2>1 DEF NoCall, CallType
  <2> QED BY <1>1, <2>1, <2>2 DEF CallType
<1>3. stdin' = stdin /\ raw' = raw
  BY <1>1 DEF buffers
<1>4. \A e \in Device : Dev(e)' = Dev(e)
  BY <1>3 DEF Dev
<1>5. OnlyReads
  <2>1. \A e \in Device : Dev(e).deqIdx # Size(e) /\ First(e) = Dev(e).deqIdx
    BY <1>1, Wrapped DEF Busy
  <2>2. \A e \in Device : First(e)' = First(e)
    BY <1>1, <1>4, <2>1 DEF First, Busy
  <2>3. Knows' /\ LineStays' /\ InHand' = InHand
    BY <1>1 DEF Knows, LineStays, InHand, Busy
  <2> QED BY <1>1, <1>2, <2>1, <2>2, <2>3 DEF OnlyReads, Point
<1> QED BY <1>5, ReadingKeeps

LEMMA TestKeeps ==
  ASSUME IInv, Test
  PROVE  IInv' /\ Unchanged
<1>1. /\ UNCHANGED <<buffers, keyboard, taken, call>> /\ pc = "test" /\ pc' = "check"
      /\ call.device = "stdin" => stdin.hasData # 0
  BY DEF Test, Goto, stdinIsEmpty
<1>2. stdin' = stdin /\ raw' = raw
  BY <1>1 DEF buffers
<1>3. \A e \in Device : Dev(e)' = Dev(e)
  BY <1>2 DEF Dev
<1>4. OnlyReads
  <2>1. \A e \in Device : Dev(e).deqIdx # Size(e) /\ First(e) = Dev(e).deqIdx
    BY <1>1, Wrapped DEF Busy
  <2>2. \A e \in Device : First(e)' = First(e)
    BY <1>1, <1>3, <2>1 DEF First, Busy
  <2>3. Knows' /\ LineStays' /\ InHand' = InHand
    BY <1>1, <1>2 DEF Knows, LineStays, InHand, Busy
  <2> QED BY <1>1, <2>1, <2>2, <2>3, Caller DEF OnlyReads, Point
<1> QED BY <1>4, ReadingKeeps

LEMMA CheckKeeps ==
  ASSUME IInv, Check
  PROVE  IInv' /\ Unchanged
<1>1. /\ UNCHANGED <<buffers, keyboard, taken>> /\ pc = "check"
      /\ \/ pc' = "user" /\ call' = NoCall
         \/ pc' = "deqLoad" /\ call' = call /\ Buffer.size # 0
  BY DEF Check, Goto
<1>2. stdin' = stdin /\ raw' = raw
  BY <1>1 DEF buffers
<1>3. \A e \in Device : Dev(e)' = Dev(e)
  BY <1>2 DEF Dev
<1>4. NoCall \in CallType
  BY DEF NoCall, CallType, Newline, Character, Symbols, Device
<1>5. OnlyReads
  <2>1. \A e \in Device : Dev(e).deqIdx # Size(e) /\ First(e) = Dev(e).deqIdx
    BY <1>1, Wrapped DEF Busy
  <2>2. \A e \in Device : First(e)' = First(e)
    BY <1>1, <1>3, <2>1 DEF First, Busy
  <2>3. InHand' = InHand
    BY <1>1 DEF InHand
  <2>4. LineStays'
    BY <1>1, <1>2 DEF IInv, LineStays, Busy
  <2>5. Knows'
    BY <1>1, <1>2 DEF Knows, Busy, Buffer
  <2>6. call' \in CallType /\ pc' \in Point
    BY <1>1, <1>4, Caller DEF Point
  <2> QED BY <1>1, <2>1, <2>2, <2>3, <2>4, <2>5, <2>6 DEF OnlyReads
<1> QED BY <1>5, ReadingKeeps

LEMMA DeqLoadKeeps ==
  ASSUME IInv, DeqLoad
  PROVE  IInv' /\ Unchanged
<1>1. /\ UNCHANGED <<buffers, keyboard, taken>> /\ pc = "deqLoad" /\ pc' = "deqStore"
      /\ call' = [call EXCEPT !.index = Buffer.deqIdx]
  BY DEF DeqLoad, Goto
<1>2. stdin' = stdin /\ raw' = raw
  BY <1>1 DEF buffers
<1>3. \A e \in Device : Dev(e)' = Dev(e)
  BY <1>2 DEF Dev
<1>4. /\ call' \in CallType /\ call'.device = call.device /\ call'.index = Buffer.deqIdx
      /\ call.device' = call.device /\ call.index' = Buffer.deqIdx
  <2>1. Buffer.deqIdx \in Int
    BY Caller, DevTyped, Basics DEF IInv
  <2> QED BY <1>1, <2>1, Caller DEF CallType
<1>5. Buffer' = Buffer
  BY <1>2, <1>4 DEF Buffer
<1>6. OnlyReads
  <2>1. \A e \in Device : Dev(e).deqIdx # Size(e) /\ First(e) = Dev(e).deqIdx
    BY <1>1, Wrapped DEF Busy
  <2>2. \A e \in Device : First(e)' = First(e)
    BY <1>1, <1>3, <2>1 DEF First, Busy
  <2>3. InHand' = InHand
    BY <1>1 DEF InHand
  <2>4. LineStays'
    BY <1>1, <1>2, <1>4 DEF IInv, LineStays, Busy
  <2>5. Knows'
    BY <1>1, <1>4, <1>5 DEF IInv, Knows, Busy
  <2> QED BY <1>1, <1>4, <2>1, <2>2, <2>3, <2>4, <2>5 DEF OnlyReads, Point
<1> QED BY <1>6, ReadingKeeps

LEMMA TakeKeeps ==
  ASSUME IInv, Take
  PROVE  IInv' /\ Unchanged
<1>1. /\ UNCHANGED <<buffers, keyboard, taken>> /\ pc = "take" /\ pc' = "sizeLoad"
      /\ call' = [call EXCEPT !.byte = Buffer.buffer[call.index]]
  BY DEF Take, Goto
<1>2. stdin' = stdin /\ raw' = raw
  BY <1>1 DEF buffers
<1>3. \A e \in Device : Dev(e)' = Dev(e)
  BY <1>2 DEF Dev
<1>4. /\ call' \in CallType /\ call.device' = call.device /\ call.index' = call.index
      /\ call.byte' = Buffer.buffer[call.index]
  <2>1. Buffer.buffer[call.index] \in Character \cup ScanCode
    <3>1. call.index \in 0..(Size(call.device) - 1)
      <4> DEFINE d == call.device
      <4>1. Dev(d).deqIdx \in 0..Size(d) /\ Dev(d).deqIdx = call.index + 1 /\ call.index \in Int
        BY <1>1, Caller, DevTyped DEF IInv, Knows, Busy, CallType
      <4>2. Aligned(Dev(d), First(d), Size(d)) /\ First(d) = call.index
        BY <1>1, Caller DEF IInv, Circular, First, Busy
      <4>3. call.index \in 0..Size(d) /\ Size(d) \in Nat
        BY <4>2, Caller, Basics DEF Aligned
      <4> QED BY <4>1, <4>3
    <3>2. Buffer.buffer \in [0..(Size(call.device) - 1) -> Item(call.device)]
      BY Caller, DevTyped DEF IInv
    <3> QED BY <3>1, <3>2, Caller, Basics DEF Item
  <2> QED BY <1>1, <2>1, Caller DEF CallType
<1>5. Buffer' = Buffer
  BY <1>2, <1>4 DEF Buffer
<1>6. OnlyReads
  <2>1. \A e \in Device : First(e)' = First(e)
    BY <1>1, <1>3, <1>4 DEF First, Busy
  <2>2. \A e \in Device : Dev(e).deqIdx = Size(e) => call.device' = e /\ pc' \in Busy \cup {"wrap"}
    BY <1>1, <1>4 DEF IInv, Circular, Busy
  <2>3. InHand' = InHand
    BY <1>1 DEF InHand
  <2>4. LineStays'
    BY <1>1, <1>2, <1>4 DEF IInv, LineStays, Busy
  <2>5. Knows'
    BY <1>1, <1>4, <1>5 DEF IInv, Knows, Busy
  <2> QED BY <1>1, <1>4, <2>1, <2>2, <2>3, <2>4, <2>5 DEF OnlyReads, Point
<1> QED BY <1>6, ReadingKeeps

LEMMA SizeLoadKeeps ==
  ASSUME IInv, SizeLoad
  PROVE  IInv' /\ Unchanged
<1>1. /\ UNCHANGED <<buffers, keyboard, taken>> /\ pc = "sizeLoad" /\ pc' = "sizeStore"
      /\ call' = [call EXCEPT !.value = Buffer.size]
  BY DEF SizeLoad, Goto
<1>2. stdin' = stdin /\ raw' = raw
  BY <1>1 DEF buffers
<1>3. \A e \in Device : Dev(e)' = Dev(e)
  BY <1>2 DEF Dev
<1>4. /\ call' \in CallType /\ call.device' = call.device /\ call.index' = call.index
      /\ call.byte' = call.byte /\ call.value' = Buffer.size
  <2>1. Buffer.size \in Int
    BY Caller, DevTyped, Basics DEF IInv
  <2> QED BY <1>1, <2>1, Caller DEF CallType
<1>5. Buffer' = Buffer
  BY <1>2, <1>4 DEF Buffer
<1>6. OnlyReads
  <2>1. \A e \in Device : First(e)' = First(e)
    BY <1>1, <1>3, <1>4 DEF First, Busy
  <2>2. \A e \in Device : Dev(e).deqIdx = Size(e) => call.device' = e /\ pc' \in Busy \cup {"wrap"}
    BY <1>1, <1>4 DEF IInv, Circular, Busy
  <2>3. InHand' = InHand
    BY <1>1 DEF InHand
  <2>4. LineStays'
    BY <1>1, <1>2, <1>4 DEF IInv, LineStays, Busy
  <2>5. Knows'
    BY <1>1, <1>4, <1>5 DEF IInv, Knows, Busy
  <2> QED BY <1>1, <1>4, <2>1, <2>2, <2>3, <2>4, <2>5 DEF OnlyReads, Point
<1> QED BY <1>6, ReadingKeeps

LEMMA DataLoadKeeps ==
  ASSUME IInv, DataLoad
  PROVE  IInv' /\ Unchanged
<1>1. /\ UNCHANGED <<buffers, keyboard, taken>> /\ pc = "dataLoad" /\ pc' = "dataStore"
      /\ call' = [call EXCEPT !.value = stdin.hasData]
  BY DEF DataLoad, Goto
<1>2. stdin' = stdin /\ raw' = raw
  BY <1>1 DEF buffers
<1>3. \A e \in Device : Dev(e)' = Dev(e)
  BY <1>2 DEF Dev
<1>4. /\ call' \in CallType /\ call.device' = call.device /\ call.byte' = call.byte
      /\ call.value' = stdin.hasData
  <2>1. stdin.hasData \in Int
    BY DEF IInv, BuffersTyped, StdinType
  <2> QED BY <1>1, <2>1, Caller DEF CallType
<1>5. OnlyReads
  <2>1. \A e \in Device : Dev(e).deqIdx # Size(e) /\ First(e) = Dev(e).deqIdx
    BY <1>1, Wrapped DEF Busy
  <2>2. \A e \in Device : First(e)' = First(e)
    BY <1>1, <1>3, <2>1 DEF First, Busy
  <2>3. InHand' = InHand
    BY <1>1, <1>4 DEF InHand
  <2>4. LineStays'
    BY <1>1 DEF LineStays, Busy
  <2>5. Knows'
    BY <1>1, <1>2, <1>4 DEF IInv, Knows, Busy
  <2> QED BY <1>1, <1>4, <2>1, <2>2, <2>3, <2>4, <2>5 DEF OnlyReads, Point
<1> QED BY <1>5, ReadingKeeps

(* Storing a field of the caller's buffer: what becomes of either device.  *)
LEMMA StoreIs ==
  ASSUME IInv, NEW b, Becomes(b), NEW v \in 0..Size(call.device),
         \/ b = [Buffer EXCEPT !.deqIdx = v]
         \/ b = [Buffer EXCEPT !.size = v]
  PROVE  /\ BuffersTyped'
         /\ \A e \in Device : Dev(e)' = IF e = call.device THEN b ELSE Dev(e)
         /\ b.buffer = Buffer.buffer /\ b.enqIdx = Buffer.enqIdx
         /\ b.size \in {Buffer.size, v} /\ b.deqIdx \in {Buffer.deqIdx, v}
         /\ b = [Buffer EXCEPT !.deqIdx = v] => b.deqIdx = v /\ b.size = Buffer.size
         /\ b = [Buffer EXCEPT !.size = v] => b.size = v /\ b.deqIdx = Buffer.deqIdx
         /\ stdin'.hasData = stdin.hasData
<1>1. CASE call.device = "stdin"
  <2>1. stdin' = b /\ raw' = raw /\ Buffer = stdin /\ v \in 0..StdinSize
    BY <1>1, Basics DEF Becomes, Buffer
  <2>2. stdin \in StdinType /\ raw \in RawType
    BY DEF IInv, BuffersTyped
  <2>3. b \in StdinType
    BY <2>1, <2>2 DEF StdinType
  <2>4. /\ b.buffer = Buffer.buffer /\ b.enqIdx = Buffer.enqIdx
        /\ b.size \in {Buffer.size, v} /\ b.deqIdx \in {Buffer.deqIdx, v}
        /\ b = [Buffer EXCEPT !.deqIdx = v] => b.deqIdx = v /\ b.size = Buffer.size
        /\ b = [Buffer EXCEPT !.size = v] => b.size = v /\ b.deqIdx = Buffer.deqIdx
        /\ b.hasData = stdin.hasData
    BY <2>1, <2>2 DEF StdinType
  <2>5. \A e \in Device : Dev(e)' = IF e = call.device THEN b ELSE Dev(e)
    BY <1>1, <2>1, BasicsNext, Basics
  <2> QED BY <2>1, <2>2, <2>3, <2>4, <2>5 DEF BuffersTyped
<1>2. CASE call.device = "raw"
  <2>1. raw' = b /\ stdin' = stdin /\ Buffer = raw /\ v \in 0..RawSize
    BY <1>2, Basics DEF Becomes, Buffer
  <2>2. stdin \in StdinType /\ raw \in RawType
    BY DEF IInv, BuffersTyped
  <2>3. b \in RawType
    BY <2>1, <2>2 DEF RawType
  <2>4. /\ b.buffer = Buffer.buffer /\ b.enqIdx = Buffer.enqIdx
        /\ b.size \in {Buffer.size, v} /\ b.deqIdx \in {Buffer.deqIdx, v}
        /\ b = [Buffer EXCEPT !.deqIdx = v] => b.deqIdx = v /\ b.size = Buffer.size
        /\ b = [Buffer EXCEPT !.size = v] => b.size = v /\ b.deqIdx = Buffer.deqIdx
    BY <2>1, <2>2 DEF RawType
  <2>5. \A e \in Device : Dev(e)' = IF e = call.device THEN b ELSE Dev(e)
    BY <1>2, <2>1, BasicsNext, Basics
  <2> QED BY <2>1, <2>2, <2>3, <2>4, <2>5 DEF BuffersTyped
<1> QED BY <1>1, <1>2, Caller, Basics

(* While the reader is busy its index is that of a slot that is filled,    *)
(* and its device's own index one more.                                    *)
LEMMA BusyAt ==
  ASSUME IInv, pc \in Busy, NEW d, d = call.device
  PROVE  /\ First(d) = call.index /\ call.index \in 0..(Size(d) - 1)
         /\ Dev(d).deqIdx = call.index + 1 /\ Dev(d).size # 0
<1>1. /\ Dev(d).deqIdx \in 0..Size(d) /\ Dev(d).deqIdx = call.index + 1 /\ call.index \in Int
      /\ Dev(d).size # 0
  BY Caller, DevTyped DEF IInv, Knows, CallType
<1>2. Aligned(Dev(d), First(d), Size(d)) /\ First(d) = call.index
  BY Caller DEF IInv, Circular, First
<1>3. call.index \in 0..Size(d) /\ Size(d) \in Nat
  BY <1>2, Caller, Basics DEF Aligned
<1> QED BY <1>1, <1>2, <1>3

(* The index is advanced, but still says where the byte is that is read.   *)
LEMMA DeqStoreKeeps ==
  ASSUME IInv, DeqStore
  PROVE  IInv' /\ Unchanged
<1>0. PICK d \in Device : d = call.device
  BY Caller
<1> DEFINE b == [Buffer EXCEPT !.deqIdx = call.index + 1]
<1>1. /\ pc = "deqStore" /\ pc' = "take" /\ UNCHANGED <<keyboard, call, taken>> /\ Becomes(b)
  BY DEF DeqStore, Goto
<1>2. Buffer = Dev(d) /\ Size(d) \in Nat \ {0}
  BY <1>0, Caller, Basics
<1>3. /\ call.index = Dev(d).deqIdx /\ Dev(d).size # 0 /\ First(d) = call.index
      /\ call.index \in 0..(Size(d) - 1)
  <2>1. call.index = Dev(d).deqIdx /\ Dev(d).size # 0
    BY <1>0, <1>1, <1>2 DEF IInv, Knows
  <2>2. Dev(d).deqIdx # Size(d) /\ First(d) = Dev(d).deqIdx
    BY <1>0, <1>1, <1>2, Wrapped DEF Busy
  <2>3. Dev(d).deqIdx \in 0..Size(d)
    BY <1>2, DevTyped DEF IInv
  <2> QED BY <1>2, <2>1, <2>2, <2>3
<1>4. call.index + 1 \in 0..Size(d)
  BY <1>2, <1>3
<1> HIDE DEF b
<1>5. /\ BuffersTyped' /\ \A e \in Device : Dev(e)' = IF e = d THEN b ELSE Dev(e)
      /\ b.buffer = Buffer.buffer /\ b.enqIdx = Buffer.enqIdx /\ b.size = Buffer.size
      /\ b.deqIdx = call.index + 1 /\ stdin'.hasData = stdin.hasData
  <2>1. b = [Buffer EXCEPT !.deqIdx = call.index + 1]
    BY DEF b
  <2> QED BY <1>0, <1>1, <1>4, <2>1, StoreIs
<1>6. ReaderTyped' /\ KeyboardTyped' /\ ShiftIs'
  BY <1>1 DEF IInv, ReaderTyped, KeyboardTyped, ShiftIs, Weight, Code, keyboard, Point
<1>7. \A e \in Device : First(e)' = First(e) /\ Size(e)' = Size(e)
  <2>1. First(d)' = First(d)
    BY <1>0, <1>1, <1>2, <1>3 DEF First, Busy
  <2>2. ASSUME NEW e \in Device, e # d PROVE First(e)' = First(e)
    BY <1>0, <1>1, <1>5, <2>2 DEF First, Busy
  <2> QED BY <2>1, <2>2 DEF Size
<1>8. \A e \in Device : SameBytes(e)
  BY <1>2, <1>5, <1>7 DEF SameBytes
<1>9. \A e \in Device : Contents(e)' = Contents(e) /\ Aligned(Dev(e), First(e), Size(e))'
  BY <1>8, StillHolds
<1>a. Circular'
  <2> SUFFICES ASSUME NEW e \in Device, Dev(e)'.deqIdx = Size(e)
               PROVE  call.device' = e /\ pc' \in Busy \cup {"wrap"}
    BY <1>7, <1>9 DEF Circular
  <2>1. CASE e = d
    BY <1>0, <1>1, <2>1 DEF Busy
  <2>2. CASE e # d
    BY <1>0, <1>1, <1>5, <2>2 DEF IInv, Circular, Busy
  <2> QED BY <2>1, <2>2
<1>b. Buffer' = b
  BY <1>0, <1>1, <1>2, <1>5, Basics DEF Buffer, Dev
<1>c. Knows'
  BY <1>0, <1>1, <1>2, <1>3, <1>5, <1>b DEF Knows, Busy
<1>d. LineStays' /\ InHand' = InHand
  BY <1>0, <1>1, <1>5 DEF IInv, LineStays, InHand, Busy
<1>e. stdin'.size = stdin.size
  BY <1>2, <1>5, Basics, BasicsNext
<1>f. Counted'
  BY <1>5, <1>9, <1>d, <1>e, Basics, StillCounted
<1> QED BY <1>0, <1>1, <1>5, <1>6, <1>9, <1>a, <1>c, <1>d, <1>f DEF IInv, Unchanged

(* Storing the size takes the byte out.                                    *)
Took(d) ==
  /\ Contents(d) # <<>> /\ Contents(d)' = Tail(Contents(d)) /\ taken'[d] = Head(Contents(d))
  /\ \A e \in Device \ {d} : Contents(e)' = Contents(e) /\ taken'[e] = taken[e]
  /\ d = "stdin" => \E i \in 1..Len(Contents(d)) : Contents(d)[i] = Newline
LEMMA SizeStoreKeeps ==
  ASSUME IInv, SizeStore
  PROVE  IInv' /\ \E d \in Device : d = call.device /\ Took(d)
<1>0. PICK d \in Device : d = call.device
  BY Caller
<1> DEFINE b == [Buffer EXCEPT !.size = call.value - 1]
<1>1. /\ pc = "sizeStore" /\ pc' = "wrap" /\ UNCHANGED <<keyboard, call>> /\ Becomes(b)
      /\ taken' = [taken EXCEPT ![call.device] = call.byte]
  BY DEF SizeStore, Goto
<1>2. Buffer = Dev(d) /\ Size(d) \in Nat \ {0} /\ Size(d)' = Size(d)
  BY <1>0, Caller, Basics DEF Size
<1>3. /\ First(d) = call.index /\ call.index \in 0..(Size(d) - 1)
      /\ Dev(d).deqIdx = call.index + 1 /\ Dev(d).size # 0
  BY <1>0, <1>1, BusyAt DEF Busy
<1>4. call.value = Dev(d).size /\ call.byte = Dev(d).buffer[call.index]
  BY <1>1, <1>2 DEF IInv, Knows
<1>5. Dev(d).size \in 1..Size(d) /\ call.value - 1 \in 0..Size(d)
  <2>1. Dev(d).size \in 0..Size(d)
    BY DevTyped DEF IInv
  <2> QED BY <1>2, <1>3, <1>4, <2>1
<1> HIDE DEF b
<1>6. /\ BuffersTyped' /\ \A e \in Device : Dev(e)' = IF e = d THEN b ELSE Dev(e)
      /\ b.buffer = Buffer.buffer /\ b.enqIdx = Buffer.enqIdx /\ b.deqIdx = Buffer.deqIdx
      /\ b.size = call.value - 1 /\ stdin'.hasData = stdin.hasData
  <2>1. b = [Buffer EXCEPT !.size = call.value - 1]
    BY DEF b
  <2> QED BY <1>0, <1>1, <1>5, <2>1, StoreIs
<1>7. ReaderTyped' /\ KeyboardTyped' /\ ShiftIs'
  BY <1>1 DEF IInv, ReaderTyped, KeyboardTyped, ShiftIs, Weight, Code, keyboard, Point, CallType
<1>8. First(d)' = call.index + 1
  BY <1>1, <1>2, <1>3, <1>6 DEF First, Busy
<1>9. /\ Contents(d) # <<>> /\ Contents(d)' = Tail(Contents(d)) /\ Head(Contents(d)) = call.byte
      /\ Aligned(Dev(d), First(d), Size(d))'
  <2>1. Aligned(Dev(d), First(d), Size(d)) /\ Dev(d).buffer \in [0..(Size(d) - 1) -> Item(d)]
    BY DevTyped DEF IInv, Circular
  <2> DEFINE n == Size(d)
             f == call.index
             a == Dev(d)
             X == Item(d)
  <2>2. /\ n \in Nat \ {0} /\ Aligned(a, f, n) /\ a.buffer \in [0..(n - 1) -> X] /\ a.size # 0
        /\ f < n /\ b.buffer = a.buffer /\ b.size = a.size - 1 /\ b.enqIdx = a.enqIdx
    BY <1>2, <1>3, <1>4, <1>6, <2>1
  <2> HIDE DEF n, f, a, X
  <2>3. /\ Held(a, f, n) # <<>> /\ Head(Held(a, f, n)) = a.buffer[f]
        /\ Held(b, f + 1, n) = Tail(Held(a, f, n)) /\ Aligned(b, f + 1, n)
    BY <2>2, HeldGet
  <2>4. Contents(d) = Held(a, f, n) /\ Contents(d)' = Held(b, f + 1, n)
    BY <1>3, <1>6, <1>8, ContentsIs DEF n, f, a
  <2>5. Aligned(Dev(d), First(d), Size(d))'
    BY <1>2, <1>6, <1>8, <2>3 DEF n, f
  <2> QED BY <1>4, <2>3, <2>4, <2>5 DEF a, f
<1>10. \A e \in Device \ {d} : Contents(e)' = Contents(e) /\ Aligned(Dev(e), First(e), Size(e))'
  <2> SUFFICES ASSUME NEW e \in Device, e # d
               PROVE  Contents(e)' = Contents(e) /\ Aligned(Dev(e), First(e), Size(e))'
    OBVIOUS
  <2>1. Dev(e)' = Dev(e) /\ First(e)' = First(e)
    BY <1>0, <1>1, <1>6 DEF First
  <2>2. SameBytes(e)
    BY <2>1 DEF SameBytes
  <2> QED BY <2>2, StillHolds
<1>11. Circular'
  <2> SUFFICES ASSUME NEW e \in Device, Dev(e)'.deqIdx = Size(e)
               PROVE  call.device' = e /\ pc' \in Busy \cup {"wrap"}
    BY <1>9, <1>10 DEF Circular, Size
  <2>1. CASE e = d
    BY <1>0, <1>1, <2>1 DEF Busy
  <2>2. CASE e # d
    BY <1>0, <1>1, <1>6, <2>2 DEF IInv, Circular, Busy
  <2> QED BY <2>1, <2>2
<1>12. Knows' /\ LineStays'
  BY <1>1 DEF Knows, LineStays, Busy
<1>13. \A e \in Device : taken'[e] = IF e = d THEN call.byte ELSE taken[e]
  BY <1>0, <1>1 DEF IInv, ReaderTyped
<1>14. CASE d = "stdin"
  <2>1. InHand = 0 /\ InHand' = IF call.byte = Newline THEN 1 ELSE 0
    BY <1>0, <1>1, <1>14 DEF InHand
  <2>2. stdin.hasData = Times(Contents(d), Newline) + 0 /\ stdin.hasData # 0
    BY <1>0, <1>1, <1>14, <2>1 DEF IInv, Counted, LineStays, Busy
  <2>3. Contents(d) \in Seq(Character) /\ Contents(d) # <<>>
    BY <1>9, <1>14, ContentsTyped, Basics DEF IInv
  <2>4. /\ Times(Contents(d), Newline) = Times(Tail(Contents(d)), Newline)
                                          + IF call.byte = Newline THEN 1 ELSE 0
        /\ Times(Contents(d), Newline) \in Nat
        /\ Times(Contents(d), Newline) > 0 <=> \E i \in 1..Len(Contents(d)) : Contents(d)[i] = Newline
    <3>1. Times(Contents(d), Newline) = Times(Tail(Contents(d)), Newline)
                                          + IF Head(Contents(d)) = Newline THEN 1 ELSE 0
      BY <2>3, TimesGet
    <3>2. /\ Times(Contents(d), Newline) \in Nat
          /\ Times(Contents(d), Newline) > 0
               <=> \E i \in 1..Len(Contents(d)) : Contents(d)[i] = Newline
      BY <2>3, TimesIs
    <3> QED BY <1>9, <3>1, <3>2
  <2>5. \E i \in 1..Len(Contents(d)) : Contents(d)[i] = Newline
    BY <2>2, <2>4
  <2>6. stdin'.size # StdinSize
    BY <1>4, <1>5, <1>6, <1>14, Basics, BasicsNext
  <2>7. Counted'
    <3>1. stdin'.hasData = Times(Contents("stdin")', Newline) + InHand'
      <4>1. Tail(Contents(d)) \in Seq(Character)
        BY <2>3
      <4>2. Times(Tail(Contents(d)), Newline) \in Nat
        BY <4>1, TimesIs
      <4>3. Times(Tail(Contents(d)), Newline) + InHand' = Times(Contents(d), Newline) + 0
        BY <2>1, <2>4, <4>2
      <4> QED BY <1>6, <1>9, <1>14, <2>2, <4>3
    <3> QED BY <2>6, <3>1 DEF Counted
  <2> QED BY <1>0, <1>6, <1>7, <1>9, <1>10, <1>11, <1>12, <1>13, <1>14, <2>5, <2>7 DEF IInv, Took
<1>15. CASE d = "raw"
  <2>1. InHand' = InHand
    BY <1>0, <1>1, <1>15, Basics DEF InHand
  <2>2. stdin'.size = stdin.size /\ Contents("stdin")' = Contents("stdin")
    BY <1>6, <1>10, <1>15, Basics, BasicsNext
  <2>3. Counted'
    BY <1>6, <2>1, <2>2, StillCounted
  <2> QED BY <1>0, <1>6, <1>7, <1>9, <1>10, <1>11, <1>12, <1>13, <1>15, <2>3, Basics DEF IInv, Took
<1> QED BY <1>14, <1>15, Basics

(* The end of a byte, for the reader.                                      *)
LEMMA DeliverIs ==
  ASSUME IInv, Deliver(call)
  PROVE  UNCHANGED keyboard /\ pc' \in {"user", "test"} /\ call' \in CallType
<1>1. NoCall \in CallType
  BY DEF NoCall, CallType, Newline, Character, Symbols, Device
<1>2. [NoCall EXCEPT !.device = call.device, !.left = call.left - 1] \in CallType
  <2>1. call.device \in Device /\ call.left - 1 \in Int
    BY Caller DEF CallType
  <2> QED BY <1>1, <2>1 DEF CallType
<1> QED BY <1>1, <1>2 DEF Deliver, Goto

(* Wrapping the index changes nothing of what is held.                     *)
LEMMA WrapKeeps ==
  ASSUME IInv, Wrap
  PROVE  IInv' /\ Unchanged
<1>0. PICK d \in Device : d = call.device
  BY Caller
<1> DEFINE v == IF Buffer.deqIdx = Size(d) THEN 0 ELSE Buffer.deqIdx
           b == [Buffer EXCEPT !.deqIdx = v]
<1>1. /\ pc = "wrap" /\ UNCHANGED taken /\ Becomes(b)
      /\ IF call.device = "stdin" /\ call.byte = Newline
         THEN pc' = "dataLoad" /\ UNCHANGED <<call, keyboard>> ELSE Deliver(call)
  BY <1>0 DEF Wrap, Goto
<1>2. Buffer = Dev(d) /\ Size(d) \in Nat \ {0} /\ Size(d)' = Size(d)
  BY <1>0, Caller, Basics DEF Size
<1>3. Dev(d).deqIdx \in 0..Size(d) /\ First(d) = Dev(d).deqIdx /\ v \in 0..(Size(d) - 1)
  <2>1. Dev(d).deqIdx \in 0..Size(d)
    BY DevTyped DEF IInv
  <2>2. First(d) = Dev(d).deqIdx
    BY <1>1 DEF First, Busy
  <2>3. v \in 0..(Size(d) - 1)
    BY <1>2, <2>1
  <2> QED BY <2>1, <2>2, <2>3
<1>v. v = IF First(d) = Size(d) THEN 0 ELSE First(d)
  BY <1>2, <1>3
<1> HIDE DEF v
<1>4. v \in 0..Size(d) /\ v # Size(d)
  BY <1>2, <1>3
<1> HIDE DEF b
<1>5. /\ BuffersTyped' /\ \A e \in Device : Dev(e)' = IF e = d THEN b ELSE Dev(e)
      /\ b.buffer = Buffer.buffer /\ b.enqIdx = Buffer.enqIdx /\ b.size = Buffer.size
      /\ b.deqIdx = v /\ stdin'.hasData = stdin.hasData
  <2>1. b = [Buffer EXCEPT !.deqIdx = v]
    BY DEF b
  <2> QED BY <1>0, <1>1, <1>4, <2>1, StoreIs
<1>6. /\ UNCHANGED keyboard /\ call' \in CallType
      /\ \/ pc' = "dataLoad" /\ call' = call /\ call.device = "stdin" /\ call.byte = Newline
         \/ pc' \in {"user", "test"} /\ ~(call.device = "stdin" /\ call.byte = Newline)
  BY <1>1, DeliverIs, Caller
<1>7. ReaderTyped' /\ KeyboardTyped' /\ ShiftIs'
  BY <1>1, <1>6 DEF IInv, ReaderTyped, KeyboardTyped, ShiftIs, Weight, Code, keyboard, Point
<1>8. Contents(d)' = Contents(d) /\ Aligned(Dev(d), First(d), Size(d))'
  <2>1. First(d)' = v
    BY <1>5, <1>6 DEF First, Busy
  <2>2. Aligned(Dev(d), First(d), Size(d))
    BY DEF IInv, Circular
  <2>3. CASE First(d) = Size(d)
    <3> DEFINE n == Size(d)
               a == Dev(d)
    <3>1. n \in Nat \ {0} /\ Aligned(a, n, n)
      BY <1>2, <2>2, <2>3
    <3> HIDE DEF n, a
    <3>2. Held(a, 0, n) = Held(a, n, n) /\ Aligned(a, 0, n)
      BY <3>1, HeldWraps
    <3>3. Held(b, 0, n) = Held(a, 0, n) /\ Aligned(b, 0, n)
      BY <1>2, <1>5, <3>2 DEF Held, Aligned, a
    <3>4. v = 0
      BY <1>v, <2>3
    <3>5. Contents(d) = Held(a, n, n) /\ Contents(d)' = Held(b, 0, n)
      BY <1>5, <2>1, <2>3, <3>4, ContentsIs DEF a, n
    <3>6. Aligned(Dev(d), First(d), Size(d))'
      BY <1>2, <1>5, <2>1, <3>3, <3>4 DEF n
    <3> QED BY <3>2, <3>3, <3>5, <3>6
  <2>4. CASE First(d) # Size(d)
    <3>1. SameBytes(d)
      BY <1>2, <1>5, <1>v, <2>1, <2>4 DEF SameBytes
    <3> QED BY <3>1, StillHolds
  <2> QED BY <2>3, <2>4
<1>9. \A e \in Device \ {d} : Contents(e)' = Contents(e) /\ Aligned(Dev(e), First(e), Size(e))'
  <2> SUFFICES ASSUME NEW e \in Device, e # d
               PROVE  Contents(e)' = Contents(e) /\ Aligned(Dev(e), First(e), Size(e))'
    OBVIOUS
  <2>1. Dev(e)' = Dev(e) /\ First(e)' = First(e)
    BY <1>0, <1>1, <1>5, <1>6 DEF First, Busy
  <2>2. SameBytes(e)
    BY <2>1 DEF SameBytes
  <2> QED BY <2>2, StillHolds
<1>10. Circular'
  <2> SUFFICES ASSUME NEW e \in Device PROVE Dev(e)'.deqIdx # Size(e)
    BY <1>8, <1>9 DEF Circular, Size
  <2>1. CASE e = d
    BY <1>4, <1>5, <2>1
  <2>2. CASE e # d
    BY <1>0, <1>1, <1>5, <2>2 DEF IInv, Circular, Busy
  <2> QED BY <2>1, <2>2
<1>11. Knows'
  BY <1>6 DEF Knows, Busy
<1>12. LineStays'
  BY <1>6 DEF LineStays, Busy
<1>13. InHand' = InHand
  BY <1>1, <1>6 DEF InHand
<1>14. stdin'.size = stdin.size
  BY <1>2, <1>5, Basics, BasicsNext
<1>15. Counted'
  BY <1>5, <1>8, <1>9, <1>13, <1>14, Basics, StillCounted
<1> QED BY <1>1, <1>5, <1>7, <1>8, <1>9, <1>10, <1>11, <1>12, <1>15 DEF IInv, Unchanged

(* The end of a line leaves the count when the reader has it in hand.      *)
LEMMA DataStoreKeeps ==
  ASSUME IInv, DataStore
  PROVE  IInv' /\ Unchanged
<1>1. /\ pc = "dataStore" /\ stdin' = [stdin EXCEPT !.hasData = call.value - 1]
      /\ Deliver(call) /\ UNCHANGED <<raw, taken>>
  BY DEF DataStore
<1>2. UNCHANGED keyboard /\ pc' \in {"user", "test"} /\ call' \in CallType
  BY <1>1, DeliverIs
<1>3. call.value = stdin.hasData /\ call.device = "stdin" /\ call.byte = Newline
  BY <1>1 DEF IInv, Knows
<1>4. stdin \in StdinType /\ raw \in RawType
  BY DEF IInv, BuffersTyped
<1>5. /\ stdin' \in StdinType /\ stdin'.hasData = stdin.hasData - 1
      /\ stdin'.buffer = stdin.buffer /\ stdin'.size = stdin.size
      /\ stdin'.enqIdx = stdin.enqIdx /\ stdin'.deqIdx = stdin.deqIdx
  BY <1>1, <1>3, <1>4 DEF StdinType
<1>6. BuffersTyped' /\ ReaderTyped' /\ KeyboardTyped' /\ ShiftIs'
  BY <1>1, <1>2, <1>4, <1>5
     DEF IInv, BuffersTyped, ReaderTyped, KeyboardTyped, ShiftIs, Weight, Code, keyboard, Point
<1>7. /\ \A e \in Device : Dev(e).deqIdx # Size(e) /\ First(e) = Dev(e).deqIdx
      /\ \A e \in Device : Dev(e)'.deqIdx = Dev(e).deqIdx
  <2>1. \A e \in Device : Dev(e).deqIdx # Size(e) /\ First(e) = Dev(e).deqIdx
    BY <1>1, Wrapped DEF Busy
  <2>2. Dev("stdin")'.deqIdx = Dev("stdin").deqIdx /\ Dev("raw")'.deqIdx = Dev("raw").deqIdx
    BY <1>1, <1>5, Basics, BasicsNext
  <2> QED BY <2>1, <2>2, Basics
<1>8. \A e \in Device : SameBytes(e)
  <2>1. \A e \in Device : First(e)' = First(e)
    BY <1>2, <1>7 DEF First, Busy
  <2>2. SameBytes("stdin")
    BY <1>5, <2>1, Basics, BasicsNext DEF SameBytes
  <2>3. SameBytes("raw")
    BY <1>1, <2>1, Basics, BasicsNext DEF SameBytes
  <2> QED BY <2>2, <2>3, Basics
<1>9. \A e \in Device : Contents(e)' = Contents(e) /\ Aligned(Dev(e), First(e), Size(e))'
  BY <1>8, StillHolds
<1>10. Circular'
  BY <1>7, <1>9 DEF Circular, Size
<1>11. Knows' /\ LineStays'
  BY <1>2 DEF Knows, LineStays, Busy
<1>12. Counted'
  <2>1. InHand = 1 /\ InHand' = 0
    BY <1>1, <1>2, <1>3 DEF InHand
  <2>2. stdin.hasData = Times(Contents("stdin"), Newline) + 1 /\ stdin.hasData \in Int
    BY <1>4, <2>1 DEF IInv, Counted, StdinType
  <2>3. Times(Contents("stdin"), Newline) \in Nat
    BY ContentsTyped, TimesIs, Basics DEF IInv
  <2>4. stdin'.hasData = Times(Contents("stdin")', Newline) + InHand'
    BY <1>5, <1>9, <2>1, <2>2, <2>3, Basics
  <2> QED BY <1>5, <1>9, <2>4, Basics DEF IInv, Counted
<1> QED BY <1>1, <1>6, <1>9, <1>10, <1>11, <1>12 DEF IInv, Unchanged

(* Whatever a key does to the flags, their types stay; and it leaves the   *)
(* reader where it is.                                                     *)
LEMMA KeyTyped ==
  ASSUME IInv, NEW k \in Keys, attendKeyboard(k)
  PROVE  /\ KeyboardTyped' /\ ShiftIs' /\ ReaderTyped'
         /\ UNCHANGED <<pc, call, taken, keyboardMode>>
         /\ pc \in KeyPoints /\ (k = "backspace" => pc \in ErasePoints)
<1>1. /\ UNCHANGED <<pc, call, taken, keyboardMode>> /\ processModifierKey(k)
      /\ pc \in KeyPoints /\ (k = "backspace" => pc \in ErasePoints)
  BY PointsAssumption DEF attendKeyboard
<1>2. caps' \in {0, 1} /\ num' \in {0, 1}
  BY <1>1 DEF processModifierKey, IInv, KeyboardTyped
<1>3. ShiftIs'
  BY KeySums DEF IInv
<1> QED BY <1>1, <1>2, <1>3 DEF IInv, KeyboardTyped, ReaderTyped

(* A key that changes no buffer.                                           *)
LEMMA OtherKeyKeeps ==
  ASSUME IInv, NEW k \in Keys, attendKeyboard(k), stdin' = stdin, raw' = raw
  PROVE  IInv' /\ Unchanged
<1>1. /\ KeyboardTyped' /\ ShiftIs' /\ ReaderTyped' /\ UNCHANGED <<pc, call, taken>>
  BY KeyTyped
<1>2. \A d \in Device : Dev(d)' = Dev(d) /\ First(d)' = First(d) /\ Size(d)' = Size(d)
  BY <1>1 DEF Dev, First, Size
<1>3. \A d \in Device : Contents(d)' = Contents(d)
  BY <1>2, ContentsIs
<1>4. Circular'
  BY <1>1, <1>2 DEF IInv, Circular
<1>5. Knows' /\ LineStays' /\ InHand' = InHand
  BY <1>1 DEF IInv, Knows, LineStays, InHand, Buffer
<1>6. Counted'
  BY <1>3, <1>5, Basics, StillCounted
<1> QED BY <1>1, <1>3, <1>4, <1>5, <1>6 DEF IInv, BuffersTyped, Unchanged

(* What is put in a device that is not full goes to its end, and does not  *)
(* disturb the reader.                                                     *)
Puts(d, x) ==
  /\ Dev(d).size # Size(d)
  /\ Contents(d)' = Append(Contents(d), x)
  /\ \A e \in Device \ {d} : Contents(e)' = Contents(e)
  /\ \A e \in Device : taken'[e] = taken[e]
Enqueues(d, x) ==
  /\ Dev(d).size # Size(d)
  /\ Dev(d).buffer' = [Dev(d).buffer EXCEPT ![Dev(d).enqIdx] = x]
  /\ Dev(d).size' = Dev(d).size + 1 /\ Dev(d).enqIdx' = Next1(d, Dev(d).enqIdx)
  /\ Dev(d).deqIdx' = Dev(d).deqIdx
  /\ \A e \in Device \ {d} : Dev(e)' = Dev(e)
  /\ stdin.hasData # 0 => stdin'.hasData # 0
LEMMA PutKeeps ==
  ASSUME IInv, KeysSpareCounters, NEW k \in Keys, attendKeyboard(k),
         NEW d \in Device, NEW x \in Item(d), Enqueues(d, x)
  PROVE  Puts(d, x) /\ Circular' /\ LineStays' /\ Knows' /\ InHand' = InHand
<1>1. UNCHANGED <<pc, call, taken>> /\ pc \in KeyPoints
  BY KeyTyped
<1>2. pc \notin {"sizeStore", "dataStore"}
  BY <1>1 DEF KeysSpareCounters
<1>3. /\ \A e \in Device : First(e)' = First(e) /\ Size(e)' = Size(e)
      /\ \A e \in Device : Dev(e)'.deqIdx = Dev(e).deqIdx
  <2>1. \A e \in Device : Dev(e)'.deqIdx = Dev(e).deqIdx
    BY DEF Enqueues
  <2> QED BY <1>1, <2>1 DEF First, Size
<1>4. /\ Contents(d)' = Append(Contents(d), x) /\ Aligned(Dev(d), First(d), Size(d))'
      /\ Dev(d).size # 0 /\ First(d) < Size(d) => Dev(d)'.buffer[First(d)] = Dev(d).buffer[First(d)]
  <2>1. Aligned(Dev(d), First(d), Size(d)) /\ Dev(d).buffer \in [0..(Size(d) - 1) -> Item(d)]
        /\ Size(d) \in Nat \ {0} /\ Dev(d).size \in 0..Size(d)
    BY DevTyped, Basics DEF IInv, Circular
  <2>e. PICK c : c = Dev(d)'
    OBVIOUS
  <2> DEFINE n == Size(d)
             f == First(d)
             a == Dev(d)
             X == Item(d)
  <2>2. /\ n \in Nat \ {0} /\ Aligned(a, f, n) /\ a.buffer \in [0..(n - 1) -> X]
        /\ Fills(a, c, n, x) /\ x \in X
    BY <2>1, <2>e DEF Fills, Next1, Enqueues
  <2>h. Contents(d) = Held(a, f, n) /\ Contents(d)' = Held(c, f, n)
    BY <2>e, <1>3, ContentsIs
  <2>n. a.size # 0 => a.size > 0
    BY <2>1
  <2> HIDE DEF n, f, a, X
  <2>3. /\ Held(c, f, n) = Append(Held(a, f, n), x) /\ Aligned(c, f, n)
        /\ a.size > 0 /\ f < n => c.buffer[f] = a.buffer[f]
    BY <2>2, HeldPut
  <2>4. Aligned(Dev(d), First(d), Size(d))'
    BY <1>3, <2>3, <2>e DEF n, f
  <2> QED BY <2>3, <2>4, <2>h, <2>n, <2>e DEF n, f, a
<1>5. \A e \in Device \ {d} : Contents(e)' = Contents(e) /\ Aligned(Dev(e), First(e), Size(e))'
  <2> SUFFICES ASSUME NEW e \in Device, e # d
               PROVE  Contents(e)' = Contents(e) /\ Aligned(Dev(e), First(e), Size(e))'
    OBVIOUS
  <2>1. SameBytes(e)
    BY <1>3 DEF SameBytes, Enqueues
  <2> QED BY <2>1, StillHolds
<1>6. Puts(d, x)
  BY <1>1, <1>4, <1>5 DEF Puts, Enqueues
<1>7. Circular'
  <2> SUFFICES ASSUME NEW e \in Device, Dev(e)'.deqIdx = Size(e)
               PROVE  call.device' = e /\ pc' \in Busy \cup {"wrap"}
    BY <1>3, <1>4, <1>5 DEF Circular
  <2>1. Dev(e).deqIdx = Size(e)
    BY <1>3
  <2> QED BY <1>1, <2>1 DEF IInv, Circular
<1>8. InHand' = InHand /\ LineStays'
  BY <1>1 DEF InHand, IInv, LineStays, Enqueues
<1>9. Knows'
  <2>0. PICK c \in Device : c = call.device
    BY Caller
  <2>1. Buffer = Dev(c) /\ Buffer' = Dev(c)' /\ call' = call
    BY <2>0, <1>1 DEF Buffer, Dev
  <2>2. Dev(c)'.deqIdx = Dev(c).deqIdx
    BY <1>3
  <2>3. Dev(c).size # 0 => Dev(c)'.size # 0
    <3>1. Dev(c).size \in 0..Size(c) /\ Size(c) \in Nat
      BY DevTyped, Basics DEF IInv
    <3> QED BY <3>1 DEF Enqueues
  <2>4. pc = "sizeLoad" => Dev(c)'.buffer[call.index] = Dev(c).buffer[call.index]
    <3> SUFFICES ASSUME pc = "sizeLoad" PROVE Dev(c)'.buffer[call.index] = Dev(c).buffer[call.index]
      OBVIOUS
    <3>1. First(c) = call.index /\ call.index < Size(c) /\ Dev(c).size # 0
      BY <2>0, BusyAt, Basics DEF Busy
    <3>2. CASE c = d
      BY <1>4, <3>1, <3>2
    <3>3. CASE c # d
      BY <3>3 DEF Enqueues
    <3> QED BY <3>2, <3>3
  <2> QED BY <1>1, <1>2, <2>1, <2>2, <2>3, <2>4 DEF IInv, Knows, Busy
<1> QED BY <1>6, <1>7, <1>8, <1>9

(* A raw key is put behind the others.                                     *)
LEMMA RawKeyKeeps ==
  ASSUME IInv, KeysSpareCounters, NEW k \in Keys, attendKeyboard(k),
         raw.size # RawSize, stdin' = stdin, raw' = enq("raw", raw, k)
  PROVE  IInv' /\ Puts("raw", k)
<1>1. /\ KeyboardTyped' /\ ShiftIs' /\ ReaderTyped'
  BY KeyTyped
<1>2. k \in ScanCode /\ raw \in RawType /\ stdin \in StdinType /\ RawSize \in Nat \ {0}
  BY KeysAssumption, Basics DEF IInv, BuffersTyped
<1>3. /\ raw'.buffer = [raw.buffer EXCEPT ![raw.enqIdx] = k] /\ raw'.size = raw.size + 1
      /\ raw'.enqIdx = Next1("raw", raw.enqIdx) /\ raw'.deqIdx = raw.deqIdx
      /\ raw' \in RawType
  <2>1. raw.size + 1 \in 0..RawSize
    BY <1>2 DEF RawType
  <2>2. Next1("raw", raw.enqIdx) \in 0..(RawSize - 1)
    BY <1>2, Basics DEF RawType, Next1
  <2> HIDE DEF Next1
  <2> QED BY <1>2, <2>1, <2>2 DEF RawType, enq
<1>4. Enqueues("raw", k)
  BY <1>3, Basics, BasicsNext DEF Enqueues
<1>5. Puts("raw", k) /\ Circular' /\ LineStays' /\ Knows' /\ InHand' = InHand
  BY <1>2, <1>4, Basics, PutKeeps
<1>6. Counted'
  BY <1>5, Basics, StillCounted DEF Puts
<1> QED BY <1>1, <1>2, <1>3, <1>5, <1>6 DEF IInv, BuffersTyped

(* A character typed is put behind the others, as the end of a line if it  *)
(* fills the buffer.                                                       *)
LEMMA TypedKeyKeeps ==
  ASSUME IInv, KeysSpareCounters, NEW k \in Keys, attendKeyboard(k), NEW c \in Character,
         stdin.size # StdinSize, raw' = raw, stdin' = stdinEnqueueChar(c)
  PROVE  IInv' /\ Puts("stdin", IF stdin.size + 1 = StdinSize THEN Newline ELSE c)
<1> DEFINE x == IF stdin.size + 1 = StdinSize THEN Newline ELSE c
<1>1. /\ KeyboardTyped' /\ ShiftIs' /\ ReaderTyped'
  BY KeyTyped
<1>2. raw \in RawType /\ stdin \in StdinType /\ StdinSize \in Nat \ {0} /\ x \in Character
  <2>1. Newline \in Character
    BY DEF Newline, Character, Symbols
  <2> QED BY <2>1, Basics DEF IInv, BuffersTyped
<1>3. stdin' = [enq("stdin", stdin, x) EXCEPT !.hasData = IF x = Newline THEN @ + 1 ELSE @]
  BY DEF stdinEnqueueChar
<1> HIDE DEF x
<1>4. /\ stdin'.buffer = [stdin.buffer EXCEPT ![stdin.enqIdx] = x] /\ stdin'.size = stdin.size + 1
      /\ stdin'.enqIdx = Next1("stdin", stdin.enqIdx) /\ stdin'.deqIdx = stdin.deqIdx
      /\ stdin'.hasData = stdin.hasData + IF x = Newline THEN 1 ELSE 0
      /\ stdin' \in StdinType
  <2>1. stdin.size + 1 \in 0..StdinSize
    BY <1>2 DEF StdinType
  <2>2. Next1("stdin", stdin.enqIdx) \in 0..(StdinSize - 1)
    BY <1>2, Basics DEF StdinType, Next1
  <2> HIDE DEF Next1
  <2>3. /\ enq("stdin", stdin, x) \in StdinType
        /\ enq("stdin", stdin, x).buffer = [stdin.buffer EXCEPT ![stdin.enqIdx] = x]
        /\ enq("stdin", stdin, x).size = stdin.size + 1
        /\ enq("stdin", stdin, x).enqIdx = Next1("stdin", stdin.enqIdx)
        /\ enq("stdin", stdin, x).deqIdx = stdin.deqIdx
        /\ enq("stdin", stdin, x).hasData = stdin.hasData
    BY <1>2, <2>1, <2>2 DEF StdinType, enq
  <2> HIDE DEF enq
  <2>4. stdin.hasData \in Int
    BY <1>2 DEF StdinType
  <2> QED BY <1>3, <2>3, <2>4 DEF StdinType
<1>5. stdin.hasData \in Nat /\ InHand \in {0, 1}
  <2>1. Times(Contents("stdin"), Newline) \in Nat
    BY ContentsTyped, TimesIs, Basics DEF IInv
  <2> QED BY <2>1 DEF IInv, Counted, InHand
<1>6. Enqueues("stdin", x)
  BY <1>4, <1>5, Basics, BasicsNext DEF Enqueues
<1>7. Puts("stdin", x) /\ Circular' /\ LineStays' /\ Knows' /\ InHand' = InHand
  BY <1>2, <1>6, Basics, PutKeeps
<1>8. Counted'
  <2>1. Contents("stdin") \in Seq(Character)
    BY ContentsTyped, Basics DEF IInv
  <2>2. Contents("stdin")' = Append(Contents("stdin"), x)
    BY <1>7 DEF Puts
  <2>3. /\ Times(Contents("stdin")', Newline)
             = Times(Contents("stdin"), Newline) + IF x = Newline THEN 1 ELSE 0
        /\ Times(Contents("stdin"), Newline) \in Nat
    <3>1. Times(Append(Contents("stdin"), x), Newline)
             = Times(Contents("stdin"), Newline) + IF x = Newline THEN 1 ELSE 0
      BY <1>2, <2>1, TimesPut
    <3> QED BY <2>1, <2>2, <3>1, TimesIs
  <2>4. stdin'.hasData = Times(Contents("stdin")', Newline) + InHand'
    BY <1>4, <1>5, <1>7, <2>3 DEF IInv, Counted
  <2>5. stdin'.size = StdinSize => x = Newline
    BY <1>4 DEF x
  <2> QED BY <2>3, <2>4, <2>5 DEF Counted
<1> QED BY <1>1, <1>2, <1>4, <1>7, <1>8 DEF IInv, BuffersTyped, x

(* A backspace takes away what was typed first.                            *)
Erases ==
  /\ Contents("stdin") # <<>> /\ Contents("stdin")' = Tail(Contents("stdin"))
  /\ Contents("raw")' = Contents("raw") /\ \A e \in Device : taken'[e] = taken[e]
LEMMA EraseKeeps ==
  ASSUME IInv, ErasesSpareReader, attendKeyboard("backspace"), "backspace" \in Keys,
         stdin.size # 0, raw' = raw, stdin' = stdinErase
  PROVE  IInv' /\ Erases
<1> DEFINE f == stdin.deqIdx
           x == stdin.buffer[f]
<1>1. /\ KeyboardTyped' /\ ShiftIs' /\ ReaderTyped' /\ UNCHANGED <<pc, call, taken>>
      /\ pc \in {"user", "test", "dataLoad"}
  BY KeyTyped DEF ErasesSpareReader
<1>2. raw \in RawType /\ stdin \in StdinType /\ StdinSize \in Nat \ {0}
  BY Basics DEF IInv, BuffersTyped
<1>3. \A e \in Device : Dev(e).deqIdx # Size(e) /\ First(e) = Dev(e).deqIdx
  BY <1>1, Wrapped DEF Busy
<1>4. f \in 0..(StdinSize - 1) /\ First("stdin") = f
  <2>1. f \in 0..StdinSize /\ f # StdinSize
    BY <1>2, <1>3, Basics DEF StdinType
  <2> QED BY <1>2, <1>3, <2>1, Basics
<1>5. /\ stdin'.size = stdin.size - 1 /\ stdin'.deqIdx = Next1("stdin", f)
      /\ stdin'.buffer = stdin.buffer /\ stdin'.enqIdx = stdin.enqIdx
      /\ stdin'.hasData = stdin.hasData - (IF x = Newline THEN 1 ELSE 0)
      /\ stdin' \in StdinType
  <2>1. stdin.size - 1 \in 0..StdinSize /\ stdin.hasData \in Int
    BY <1>2 DEF StdinType
  <2>2. Next1("stdin", f) \in 0..StdinSize
    BY <1>2, <1>4, Basics DEF Next1
  <2> HIDE DEF Next1
  <2>3. stdin' = [stdin EXCEPT !.size = stdin.size - 1, !.deqIdx = Next1("stdin", f),
                  !.hasData = IF x = Newline THEN stdin.hasData - 1 ELSE stdin.hasData]
    BY DEF stdinErase
  <2>4. (IF x = Newline THEN stdin.hasData - 1 ELSE stdin.hasData)
        = stdin.hasData - (IF x = Newline THEN 1 ELSE 0)
    BY <2>1
  <2>5. stdin.hasData - (IF x = Newline THEN 1 ELSE 0) \in Int
    BY <2>1
  <2> HIDE DEF x, f
  <2> QED BY <1>2, <2>1, <2>2, <2>3, <2>4, <2>5 DEF StdinType
<1>6. /\ Contents("stdin") # <<>> /\ Head(Contents("stdin")) = x
      /\ Contents("stdin")' = Tail(Contents("stdin"))
      /\ Aligned(stdin', First("stdin")', StdinSize)
  <2>e. PICK b : b = stdin'
    OBVIOUS
  <2> DEFINE n == StdinSize
             a == stdin
             g == stdin.deqIdx
             c == [a EXCEPT !.size = a.size - 1]
  <2>1. Aligned(a, g, n) /\ a.buffer \in [0..(n - 1) -> Character]
    BY <1>2, <1>4, Basics DEF IInv, Circular, StdinType
  <2>2. /\ c.buffer = a.buffer /\ c.size = a.size - 1 /\ c.enqIdx = a.enqIdx
        /\ n \in Nat \ {0} /\ a.size # 0 /\ g < n
    BY <1>2, <1>4 DEF StdinType
  <2>3. b.buffer = a.buffer /\ b.size = a.size - 1 /\ b.enqIdx = a.enqIdx
    BY <1>5, <2>e
  <2>4. First("stdin")' = IF g + 1 = n THEN 0 ELSE g + 1
    BY <1>1, <1>5, Basics, BasicsNext DEF First, Busy, Next1
  <2>5. Contents("stdin") = Held(a, g, n) /\ Contents("stdin")' = Held(b, First("stdin")', n)
    BY <1>4, <2>e, Basics, BasicsNext, ContentsIs
  <2>6. x = a.buffer[g]
    OBVIOUS
  <2> HIDE DEF n, a, g, c, x, f
  <2>7. /\ Held(a, g, n) # <<>> /\ Head(Held(a, g, n)) = a.buffer[g]
        /\ Held(b, g + 1, n) = Tail(Held(a, g, n)) /\ Aligned(b, g + 1, n)
    BY <2>1, <2>2, <2>3, HeldGet
  <2>8. CASE g + 1 = n
    <3>1. Held(b, 0, n) = Held(b, n, n) /\ Aligned(b, 0, n)
      BY <2>2, <2>7, <2>8, HeldWraps
    <3> QED BY <2>4, <2>5, <2>6, <2>7, <2>8, <2>e, <3>1 DEF n
  <2>9. CASE g + 1 # n
    BY <2>4, <2>5, <2>6, <2>7, <2>9, <2>e DEF n
  <2> QED BY <2>8, <2>9
<1>7. Contents("raw")' = Contents("raw") /\ Aligned(Dev("raw"), First("raw"), Size("raw"))'
  <2>1. SameBytes("raw")
    BY <1>1, Basics, BasicsNext DEF SameBytes, First
  <2> QED BY <2>1, Basics, StillHolds
<1>8. Circular'
  <2>1. stdin'.deqIdx # StdinSize
    BY <1>2, <1>4, <1>5, Basics DEF Next1
  <2>2. raw'.deqIdx # RawSize
    BY <1>3, Basics
  <2>3. Aligned(Dev("stdin"), First("stdin"), Size("stdin"))'
    BY <1>6, Basics, BasicsNext DEF Size
  <2> QED BY <1>7, <2>1, <2>2, <2>3, Basics, BasicsNext DEF Circular, Size
<1>9. Knows' /\ LineStays' /\ InHand' = InHand
  BY <1>1 DEF IInv, Knows, LineStays, InHand, Busy
<1>10. Counted'
  <2>1. Contents("stdin") \in Seq(Character) /\ Tail(Contents("stdin")) \in Seq(Character)
    BY <1>6, ContentsTyped, Basics DEF IInv
  <2>2. /\ Times(Contents("stdin"), Newline)
             = Times(Contents("stdin")', Newline) + IF x = Newline THEN 1 ELSE 0
        /\ Times(Contents("stdin")', Newline) \in Nat
    BY <1>6, <2>1, TimesGet, TimesIs
  <2>3. InHand \in {0, 1} /\ stdin.hasData = Times(Contents("stdin"), Newline) + InHand
    BY DEF IInv, Counted, InHand
  <2> HIDE DEF x
  <2>4. stdin'.hasData = Times(Contents("stdin")', Newline) + InHand'
    BY <1>5, <1>9, <2>2, <2>3
  <2>5. stdin'.size # StdinSize
    BY <1>2, <1>5 DEF StdinType
  <2> QED BY <2>4, <2>5 DEF Counted
<1> QED BY <1>1, <1>2, <1>5, <1>6, <1>7, <1>8, <1>9, <1>10 DEF IInv, BuffersTyped, Erases

(* The initial state.                                                      *)
LEMMA InitInv ==
  ASSUME Init
  PROVE  IInv /\ \A d \in Device : Contents(d) = <<>>
<1>1. Newline \in Character /\ "other" \in ScanCode /\ "stdin" \in Device
  BY DEF Newline, Character, Symbols, ScanCode, Device
<1>2. BuffersTyped
  <2>1. [i \in 0..(StdinSize - 1) |-> Newline] \in [0..(StdinSize - 1) -> Character]
    BY <1>1
  <2>2. [i \in 0..(RawSize - 1) |-> "other"] \in [0..(RawSize - 1) -> ScanCode]
    BY <1>1
  <2>3. 0 \in 0..StdinSize /\ 0 \in 0..(StdinSize - 1) /\ 0 \in 0..RawSize /\ 0 \in 0..(RawSize - 1)
    BY Basics
  <2> QED BY <2>1, <2>2, <2>3 DEF Init, BuffersTyped, StdinType, RawType
<1>3. ReaderTyped
  <2>1. NoCall \in CallType
    BY <1>1 DEF NoCall, CallType
  <2>2. pc \in Point
    BY DEF Init, Point
  <2>3. taken \in [Device -> Character \cup ScanCode]
    BY <1>1 DEF Init
  <2> QED BY <2>1, <2>2, <2>3 DEF Init, ReaderTyped
<1>4. KeyboardTyped /\ ShiftIs
  BY InitSums DEF Init, KeyboardTyped, Mode
<1>5. \A d \in Device : Dev(d).size = 0 /\ Dev(d).enqIdx = 0 /\ Dev(d).deqIdx = 0 /\ First(d) = 0
  BY Basics DEF Init, First, Busy, Dev
<1>6. Circular
  <2> SUFFICES ASSUME NEW d \in Device
               PROVE  Aligned(Dev(d), First(d), Size(d)) /\ Dev(d).deqIdx # Size(d)
    BY DEF Circular
  <2> DEFINE n == Size(d)
  <2>1. n \in Nat \ {0}
    BY Basics
  <2> HIDE DEF n
  <2>2. 0 \in 0..n /\ EndsAt(0, 0 + 0, n) /\ 0 # n
    BY <2>1 DEF EndsAt
  <2> QED BY <1>5, <2>2 DEF Aligned, n
<1>7. \A d \in Device : Contents(d) = <<>>
  <2> SUFFICES ASSUME NEW d \in Device PROVE Contents(d) = <<>>
    OBVIOUS
  <2>1. Contents(d) \in Seq(Item(d)) /\ Len(Contents(d)) = 0
    BY <1>2, <1>5, <1>6, ContentsTyped
  <2> QED BY <2>1
<1>8. Knows /\ LineStays
  BY DEF Init, Knows, LineStays, Busy
<1>9. Counted
  <2>1. Where(Contents("stdin"), Newline) = {}
    BY <1>7, Basics DEF Where
  <2>2. Times(Contents("stdin"), Newline) = 0
    BY <2>1, FS_EmptySet DEF Times
  <2> QED BY <2>2, Basics DEF Init, Counted, InHand
<1> QED BY <1>2, <1>3, <1>4, <1>6, <1>7, <1>8, <1>9 DEF IInv

(* What a key does: nothing to be read changes, or it is put behind, or it *)
(* erases.                                                                 *)
Types(c) == Puts("stdin", IF stdin.size + 1 = StdinSize THEN Newline ELSE c)
LEMMA KeyKeeps ==
  ASSUME IInv, KeysSpareCounters, ErasesSpareReader, NEW k \in Keys, attendKeyboard(k)
  PROVE  IInv' /\ (Unchanged \/ Puts("raw", k) \/ Erases \/ \E c \in Character : Types(c))
<1>1. CASE keyboardMode # "TTY"
  <2>1. stdin' = stdin /\ raw' = IF raw.size = RawSize THEN raw ELSE enq("raw", raw, k)
    BY <1>1 DEF attendKeyboard, rawEnqueueKey
  <2>2. CASE raw.size = RawSize
    BY <2>1, <2>2, OtherKeyKeeps
  <2>3. CASE raw.size # RawSize
    BY <2>1, <2>3, RawKeyKeeps
  <2> QED BY <2>2, <2>3
<1>2. CASE keyboardMode = "TTY"
  <2>1. raw' = raw /\ stdin' = ttySTDINAddElement(k)
    BY <1>2 DEF attendKeyboard
  <2>2. CASE k \notin Letters \cup Numbers \cup Symbols
    <3>0. Decode(k) # Backspace
      BY <2>2 DEF Decode, Backspace, Symbols
    <3>1. stdin' = stdin
      BY <2>1, <2>2, <3>0 DEF ttySTDINAddElement
    <3> QED BY <2>1, <3>1, OtherKeyKeeps
  <2>3. CASE k \in Letters \cup Numbers \cup Symbols /\ Decode(k) = Backspace
    <3>1. k = "backspace"
      BY <2>3 DEF Decode, Backspace
    <3>2. stdin' = stdinErase
      BY <2>1, <2>3 DEF ttySTDINAddElement
    <3>3. CASE stdin.size = 0
      <4>1. stdin' = stdin
        BY <3>2, <3>3 DEF stdinErase
      <4> QED BY <2>1, <4>1, OtherKeyKeeps
    <3>4. CASE stdin.size # 0
      <4>1. attendKeyboard("backspace") /\ "backspace" \in Keys
        BY <3>1
      <4> QED BY <2>1, <3>2, <3>4, <4>1, EraseKeeps
    <3> QED BY <3>3, <3>4
  <2>4. CASE k \in Letters \cup Numbers \cup Symbols /\ Decode(k) # Backspace
    <3>1. Decode(k) \in Character
      <4>1. Decode(k).shifted \in BOOLEAN /\ Decode(k).key = k
        BY DEF Decode
      <4> QED BY <2>4, <4>1 DEF Decode, Character
    <3>2. stdin' = stdinEnqueueChar(Decode(k))
      BY <2>1, <2>4 DEF ttySTDINAddElement
    <3>3. CASE stdin.size = StdinSize
      <4>1. stdin' = stdin
        BY <3>2, <3>3 DEF stdinEnqueueChar
      <4> QED BY <2>1, <4>1, OtherKeyKeeps
    <3>4. CASE stdin.size # StdinSize
      <4>1. IInv' /\ Types(Decode(k))
        BY <2>1, <3>1, <3>2, <3>4, TypedKeyKeeps DEF Types
      <4> QED BY <3>1, <4>1
    <3> QED BY <3>3, <3>4
  <2> QED BY <2>2, <2>3, <2>4
<1> QED BY <1>1, <1>2

(* Every step keeps the invariant, and is one of five for those who read.  *)
Event ==
  \/ Unchanged \/ Erases
  \/ \E d \in Device : Took(d)
  \/ \E k \in ScanCode : Puts("raw", k)
  \/ \E c \in Character : Types(c)
LEMMA StepInv ==
  ASSUME IInv, KeysSpareCounters, ErasesSpareReader, [Next]_vars
  PROVE  IInv' /\ Event
<1>1. ASSUME NEW m \in Modes, changeMode(m) PROVE IInv' /\ Event
  BY <1>1, ChangeModeKeeps DEF Event
<1>2. ASSUME NEW d \in Device, NEW bytes \in 1..MaxBytes, CallRead(d, bytes) PROVE IInv' /\ Event
  BY <1>2, CallReadKeeps DEF Event
<1>3. CASE Test
  BY <1>3, TestKeeps DEF Event
<1>4. CASE Dequeue
  BY <1>4, CheckKeeps, DeqLoadKeeps, DeqStoreKeeps, TakeKeeps, SizeLoadKeeps, SizeStoreKeeps, WrapKeeps
     DEF Dequeue, Event
<1>5. CASE DataLoad \/ DataStore
  BY <1>5, DataLoadKeeps, DataStoreKeeps DEF Event
<1>6. ASSUME NEW k \in Keys, attendKeyboard(k) PROVE IInv' /\ Event
  BY <1>6, KeyKeeps, KeysAssumption DEF Event
<1>7. CASE UNCHANGED vars
  <2>1. UNCHANGED <<stdin, raw, keyboardMode, caps, num, shift, held, repeats, pc, call, taken>>
    BY <1>7 DEF vars, buffers, keyboard
  <2>2. BuffersTyped' /\ ReaderTyped' /\ KeyboardTyped' /\ ShiftIs'
    BY <2>1 DEF IInv, BuffersTyped, ReaderTyped, KeyboardTyped, ShiftIs, Weight, Code
  <2>3. \A d \in Device : Dev(d)' = Dev(d) /\ First(d)' = First(d) /\ Size(d)' = Size(d)
    BY <2>1 DEF Dev, First, Size
  <2>4. \A d \in Device : Contents(d)' = Contents(d)
    BY <2>3, ContentsIs
  <2>5. Circular'
    BY <2>1, <2>3 DEF IInv, Circular
  <2>6. Knows' /\ LineStays' /\ InHand' = InHand
    BY <2>1 DEF IInv, Knows, LineStays, InHand, Buffer
  <2>7. Counted'
    BY <2>1, <2>4, <2>6, Basics, StillCounted
  <2> QED BY <2>1, <2>2, <2>4, <2>5, <2>6, <2>7 DEF IInv, Unchanged, Event
<1> QED BY <1>1, <1>2, <1>3, <1>4, <1>5, <1>6, <1>7
        DEF Next, Reader, stdinDequeueChar, rawDequeueKey

(* If no key comes between a load and the store of a counter of the reader,*)
(* and no backspace while it dequeues, the indices stay in the buffers,    *)
(* stdinHasData is the number of ends of lines, and a full buffer can be   *)
(* read, whatever was typed, erased and read before (tty.c:322-360), for   *)
(* buffers of every size.                                                  *)
THEOREM TheLinesAreCounted ==
  ASSUME KeysSpareCounters, ErasesSpareReader
  PROVE  Spec => []LinesAreCounted
<1>1. IInv => LinesAreCounted
  <2> SUFFICES ASSUME IInv PROVE TypeOK /\ HasDataCounts /\ FullCanBeRead
    BY DEF LinesAreCounted
  <2>1. /\ Contents("stdin") \in Seq(Character) /\ Len(Contents("stdin")) = stdin.size
        /\ stdin \in StdinType /\ raw \in RawType /\ StdinSize \in Nat
    BY ContentsTyped, Basics DEF IInv, BuffersTyped
  <2>2. /\ Times(Contents("stdin"), Newline) \in Nat
        /\ Times(Contents("stdin"), Newline) <= stdin.size
        /\ Times(Contents("stdin"), Newline) > 0
             <=> \E i \in 1..stdin.size : Contents("stdin")[i] = Newline
    BY <2>1, TimesIs
  <2>3. InHand \in {0, 1} /\ stdin.hasData = Times(Contents("stdin"), Newline) + InHand
    BY DEF IInv, Counted, InHand
  <2>4. HasDataCounts
    BY <2>3 DEF HasDataCounts, InHand, Times, Where
  <2>5. FullCanBeRead
    BY <2>1, <2>2 DEF IInv, Counted, FullCanBeRead
  <2>6. stdin.size \in 0..StdinSize
    BY <2>1 DEF StdinType
  <2>7. stdin.hasData \in 0..(StdinSize + 1)
    BY <2>1, <2>2, <2>3, <2>6
  <2>8. stdin \in [buffer : [0..(StdinSize - 1) -> Character], size : 0..StdinSize,
                   enqIdx : 0..(StdinSize - 1), deqIdx : 0..StdinSize, hasData : 0..(StdinSize + 1)]
    BY <2>1, <2>7 DEF StdinType
  <2>9. /\ shift \in 0..255 /\ held \subseteq {"lshift", "rshift"}
        /\ repeats \in 0..MaxRepeats
    BY DEF IInv, ShiftIs
  <2>10. \A d \in Device : LET b == IF d = "stdin" THEN stdin ELSE raw IN
           b.deqIdx = Size(d) => /\ call.device = d
                                 /\ pc \in {"take", "sizeLoad", "sizeStore", "wrap"}
    BY DEF IInv, Circular, Dev, Busy
  <2> QED BY <2>1, <2>4, <2>5, <2>8, <2>9, <2>10
          DEF TypeOK, IInv, ReaderTyped, KeyboardTyped, RawType
<1>2. KeysSpareCounters /\ ErasesSpareReader
  OBVIOUS
<1>3. IInv /\ [Next]_vars => IInv'
  BY <1>2, StepInv
<1> QED BY <1>1, <1>3, InitInv, PTL DEF Spec

(* Under the same two hypotheses, and with one reader, the standard input  *)
(* is a queue of lines: what is typed is read in that order, each character*)
(* once, and none without the end of its line to follow (tty.c:322-360,    *)
(* scheduler.c:401-426).  A key between the load and the store of the size *)
(* is lost from the count: the hypotheses leave that case out.             *)
THEOREM StdinIsLineQueue ==
  ASSUME KeysSpareCounters, ErasesSpareReader
  PROVE  Spec => ImplementsLineQueue
<1>1. Init => Lines!Init
  BY InitInv, Basics DEF Lines!Init
<1>2. ASSUME IInv, [Next]_vars PROVE IInv' /\ [Lines!Next]_(Lines!vars)
  <2>1. IInv' /\ Event
    BY <1>2, StepInv
  <2>2. /\ Contents("stdin") \in Seq(Character) /\ Len(Contents("stdin")) = stdin.size
        /\ stdin.size \in 0..StdinSize /\ StdinSize \in Nat
    BY <1>2, ContentsTyped, DevTyped, Basics DEF IInv
  <2>3. CASE Unchanged \/ Took("raw") \/ \E k \in ScanCode : Puts("raw", k)
    BY <2>1, <2>3, Basics DEF Unchanged, Took, Puts, Lines!vars
  <2>4. CASE Erases
    BY <2>1, <2>4, Basics DEF Erases, Lines!Next, Lines!Erase
  <2>5. CASE Took("stdin")
    BY <2>1, <2>5 DEF Took, Lines!Next, Lines!Take, Lines!HasLine
  <2>6. ASSUME NEW c \in Character, Types(c) PROVE Lines!Type(c)
    <3>1. /\ stdin.size # StdinSize /\ taken'["stdin"] = taken["stdin"]
          /\ Contents("stdin")' = Append(Contents("stdin"),
               IF stdin.size + 1 = StdinSize THEN Newline ELSE c)
      BY <2>6, Basics DEF Types, Puts
    <3>2. stdin.size < StdinSize
      BY <2>2, <3>1
    <3> QED BY <2>2, <3>1, <3>2 DEF Lines!Type
  <2> QED BY <2>1, <2>3, <2>4, <2>5, <2>6, Basics DEF Event, Lines!Next
<1>3. IInv /\ [Next]_vars => IInv' /\ [Lines!Next]_(Lines!vars)
  BY <1>2
<1> QED BY <1>1, <1>3, InitInv, PTL DEF Spec, ImplementsLineQueue, Lines!Spec

(* With one reader, and no key between the load and the store of the size, *)
(* the raw keys are a bounded FIFO, of any size: read in the order they    *)
(* came, and dropped only when the buffer is full (rawKeys.c:78-103).      *)
THEOREM RawKeysAreQueue ==
  ASSUME KeysSpareCounters, ErasesSpareReader
  PROVE  Spec => RawKeysAreFIFO
<1>1. Init => Raw!Init
  BY InitInv, Basics DEF Raw!Init
<1>2. ASSUME IInv, [Next]_vars PROVE IInv' /\ [Raw!Next]_(Raw!vars)
  <2>1. IInv' /\ Event
    BY <1>2, StepInv
  <2>2. /\ Contents("raw") \in Seq(ScanCode) /\ Len(Contents("raw")) = raw.size
        /\ raw.size \in 0..RawSize /\ RawSize \in Nat
    BY <1>2, ContentsTyped, DevTyped, Basics DEF IInv
  <2>3. CASE Unchanged \/ Took("stdin") \/ Erases \/ \E c \in Character : Types(c)
    BY <2>1, <2>3, Basics DEF Unchanged, Took, Puts, Types, Erases, Raw!vars
  <2>4. CASE Took("raw")
    BY <2>1, <2>4 DEF Took, Raw!Next, Raw!Get
  <2>5. ASSUME NEW k \in ScanCode, Puts("raw", k) PROVE Raw!Put(k)
    <3>1. /\ raw.size # RawSize /\ taken'["raw"] = taken["raw"]
          /\ Contents("raw")' = Append(Contents("raw"), k)
      BY <2>5, Basics DEF Puts
    <3>2. raw.size < RawSize
      BY <2>2, <3>1
    <3> QED BY <2>2, <3>1, <3>2 DEF Raw!Put
  <2> QED BY <2>1, <2>3, <2>4, <2>5, Basics DEF Event, Raw!Next
<1>3. IInv /\ [Next]_vars => IInv' /\ [Raw!Next]_(Raw!vars)
  BY <1>2
<1> QED BY <1>1, <1>3, InitInv, PTL DEF Spec, RawKeysAreFIFO, Raw!Spec
=============================================================================

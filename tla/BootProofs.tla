----------------------------- MODULE BootProofs -----------------------------
(***************************************************************************)
(* What holds from the files of the build to the first process, for every  *)
(* size of the kernel, the modules and the pages, every layout in which    *)
(* they do not overlap, and all arguments, songs, images and numbers: the  *)
(* modules arrive and both BSS are clear, the first process finds its      *)
(* arguments, the programs read and paint what the tools wrote, and the    *)
(* library agrees with its meaning.                                        *)
(*                                                                         *)
(* Most of it is about loops.  A loop of the code is a recursive function  *)
(* or a fold; that its equation has a solution, and what each step adds, is*)
(* shown by induction over sets (NatIsInductive), from a function that     *)
(* gives the values of all steps.                                          *)
(***************************************************************************)
EXTENDS Boot, WellFoundedInduction, FiniteSetTheorems, SequenceTheorems, TLAPS

(* A set of naturals that is not empty has a least element.                *)
LEMMA LeastNat == \A S \in SUBSET Nat : S # {} => \E m \in S : \A n \in S : m <= n
<1> SUFFICES ASSUME NEW S \in SUBSET Nat, S # {} PROVE \E m \in S : \A n \in S : m <= n
  OBVIOUS
<1>1. PICK m \in S : \A n \in S : ~ (<<n, m>> \in OpToRel(<, Nat))
  BY NatLessThanWellFounded, WFMin
<1>2. \A n \in S : ~(n < m)
  BY <1>1 DEF OpToRel
<1> QED BY <1>2

(* A set that holds 0 and the successor of each natural in it holds every  *)
(* natural: induction, over sets.                                          *)
LEMMA NatIsInductive ==
  ASSUME NEW S, 0 \in S, \A n \in S \cap Nat : n + 1 \in S
  PROVE  Nat \subseteq S
<1> SUFFICES ASSUME Nat \ S # {} PROVE FALSE
  OBVIOUS
<1>1. PICK m \in Nat \ S : \A n \in Nat \ S : m <= n
  BY LeastNat
<1>2. m # 0 /\ m - 1 \in Nat /\ m - 1 \in S
  BY <1>1
<1>3. (m - 1) + 1 = m /\ m \notin S
  BY <1>1
<1> QED BY <1>2, <1>3

-----------------------------------------------------------------------------
(* FlattenSeq: what a sequence of sequences is, put one behind the other.  *)
Prefix(s, n) == [i \in 1 .. n |-> s[i]]

LEMMA PrefixIs ==
  ASSUME NEW S, NEW s \in Seq(S), NEW n \in 0 .. Len(s)
  PROVE  Prefix(s, n) \in Seq(S) /\ Len(Prefix(s, n)) = n /\ \A i \in 1 .. n : Prefix(s, n)[i] = s[i]
<1>1. Prefix(s, n) \in [1 .. n -> S] /\ n \in Nat
  BY DEF Prefix
<1> QED BY <1>1 DEF Prefix

LEMMA WholePrefix ==
  ASSUME NEW S, NEW s \in Seq(S)
  PROVE  Prefix(s, Len(s)) = s
BY DEF Prefix

LEMMA ConcatIs ==
  ASSUME NEW S, NEW a \in Seq(S), NEW b \in Seq(S)
  PROVE  /\ a \o b \in Seq(S) /\ Len(a \o b) = Len(a) + Len(b) /\ Len(a) \in Nat /\ Len(b) \in Nat
         /\ \A i \in 1 .. Len(a) : (a \o b)[i] = a[i]
         /\ \A i \in 1 .. Len(b) : (a \o b)[Len(a) + i] = b[i]
<1>1. Len(a) \in Nat /\ Len(b) \in Nat /\ a \o b \in Seq(S) /\ Len(a \o b) = Len(a) + Len(b)
  OBVIOUS
<1>2. ASSUME NEW i \in 1 .. Len(a) PROVE (a \o b)[i] = a[i]
  OBVIOUS
<1>3. ASSUME NEW i \in 1 .. Len(b) PROVE (a \o b)[Len(a) + i] = b[i]
  <2>1. Len(a) + i \in 1 .. Len(a) + Len(b) /\ ~(Len(a) + i <= Len(a)) /\ (Len(a) + i) - Len(a) = i
    BY <1>1
  <2> QED BY <2>1
<1> QED BY <1>1, <1>2, <1>3

(* The recursion of FlattenSeq has a solution on every sequence.           *)
Flattens(f, s) == f = [i \in 1 .. Len(s) |-> IF i = 1 THEN s[i] ELSE f[i - 1] \o s[i]]

LEMMA FlattenIsDefined ==
  ASSUME NEW S, NEW s \in Seq(Seq(S))
  PROVE  \E f \in [1 .. Len(s) -> Seq(S)] :
            Flattens(f, s) /\ \A i \in 1 .. Len(s) : f[i] = IF i = 1 THEN s[i] ELSE f[i - 1] \o s[i]
<1> DEFINE Step(f, i) == f[i] = IF i = 1 THEN s[i] ELSE f[i - 1] \o s[i]
           Done == {n \in Nat : n <= Len(s) => \E f \in [1 .. n -> Seq(S)] : \A i \in 1 .. n : Step(f, i)}
<1>1. 0 \in Done
  <2>1. [i \in 1 .. 0 |-> <<>>] \in [1 .. 0 -> Seq(S)] /\ 1 .. 0 = {}
    OBVIOUS
  <2>2. \E f \in [1 .. 0 -> Seq(S)] : \A i \in 1 .. 0 : Step(f, i)
    BY <2>1
  <2> HIDE DEF Step
  <2> QED BY <2>2
<1>2. ASSUME NEW n \in Done \cap Nat PROVE n + 1 \in Done
  <2> SUFFICES ASSUME n + 1 <= Len(s)
               PROVE  \E f \in [1 .. n + 1 -> Seq(S)] : \A i \in 1 .. n + 1 : Step(f, i)
    <3> HIDE DEF Step
    <3>1. n + 1 \in Nat
      OBVIOUS
    <3> QED BY <3>1, Zenon
  <2>1. PICK f \in [1 .. n -> Seq(S)] : \A i \in 1 .. n : Step(f, i)
    OBVIOUS
  <2>2. n + 1 \in 1 .. Len(s) /\ s[n + 1] \in Seq(S)
    OBVIOUS
  <2> DEFINE last == IF n = 0 THEN s[1] ELSE f[n] \o s[n + 1]
             g == [i \in 1 .. n + 1 |-> IF i = n + 1 THEN last ELSE f[i]]
  <2>3. last \in Seq(S)
    <3>1. CASE n = 0
      BY <2>2, <3>1
    <3>2. CASE n # 0
      <4>1. n \in 1 .. n
        BY <3>2
      <4>2. f[n] \in Seq(S)
        BY <2>1, <4>1
      <4> QED BY <2>2, <3>2, <4>2, ConcatProperties
    <3> QED BY <3>1, <3>2
  <2>4. g \in [1 .. n + 1 -> Seq(S)]
    <3> HIDE DEF last
    <3> QED BY <2>1, <2>3
  <2>5. ASSUME NEW i \in 1 .. n + 1 PROVE Step(g, i)
    <3>1. CASE i = n + 1
      BY <3>1
    <3>2. CASE i # n + 1
      <4>1. i \in 1 .. n /\ (i # 1 => i - 1 \in 1 .. n)
        BY <3>2
      <4>2. Step(f, i)
        BY <2>1, <4>1
      <4>3. g[i] = f[i]
        BY <3>2
      <4>4. ASSUME i # 1 PROVE g[i - 1] = f[i - 1]
        <5>1. i - 1 \in 1 .. n + 1 /\ i - 1 # n + 1
          BY <4>4
        <5> QED BY <5>1
      <4> HIDE DEF g
      <4> QED BY <4>2, <4>3, <4>4
    <3> QED BY <3>1, <3>2
  <2> HIDE DEF g, Step
  <2> QED BY <2>4, <2>5
<1>3. Len(s) \in Done
  <2> HIDE DEF Done
  <2>1. Nat \subseteq Done
    BY <1>1, <1>2, NatIsInductive
  <2> QED BY <2>1
<1>4. PICK f \in [1 .. Len(s) -> Seq(S)] : \A i \in 1 .. Len(s) : Step(f, i)
  BY <1>3
<1>5. Flattens(f, s)
  BY <1>4 DEF Flattens
<1> QED BY <1>4, <1>5

(* So it is what FlattenSeq gives, at every prefix.                        *)
LEMMA FlattenIs ==
  ASSUME NEW S, NEW s \in Seq(Seq(S)), NEW f \in [1 .. Len(s) -> Seq(S)],
         \A i \in 1 .. Len(s) : f[i] = IF i = 1 THEN s[i] ELSE f[i - 1] \o s[i]
  PROVE  \A n \in 1 .. Len(s) : FlattenSeq(Prefix(s, n)) = f[n]
<1> SUFFICES ASSUME NEW n \in 1 .. Len(s) PROVE FlattenSeq(Prefix(s, n)) = f[n]
  OBVIOUS
<1> DEFINE p == Prefix(s, n)
           flatten == CHOOSE g : Flattens(g, p)
<1>1. p \in Seq(Seq(S)) /\ Len(p) = n /\ \A i \in 1 .. n : p[i] = s[i]
  BY PrefixIs
<1>2. FlattenSeq(p) = flatten[n]
  BY <1>1 DEF FlattenSeq, Flattens
<1> HIDE DEF p
<1>3. Flattens(flatten, p)
  BY <1>1, FlattenIsDefined
<1> HIDE DEF flatten
<1>4. \A i \in 1 .. n : flatten[i] = IF i = 1 THEN s[i] ELSE flatten[i - 1] \o s[i]
  BY <1>1, <1>3, ZenonT(40) DEF Flattens
<1>5. \A i \in 1 .. n : f[i] = IF i = 1 THEN s[i] ELSE f[i - 1] \o s[i]
  <2>1. 1 .. n \subseteq 1 .. Len(s)
    OBVIOUS
  <2> QED BY <2>1, Zenon
<1> DEFINE Same == {i \in Nat : i + 1 <= n => flatten[i + 1] = f[i + 1]}
<1>6. 0 \in Same
  BY <1>4, <1>5
<1>7. ASSUME NEW i \in Same \cap Nat PROVE i + 1 \in Same
  <2> SUFFICES ASSUME i + 2 <= n PROVE flatten[i + 2] = f[i + 2]
    OBVIOUS
  <2>1. i + 2 \in 1 .. n /\ i + 2 # 1 /\ (i + 2) - 1 = i + 1
    OBVIOUS
  <2>2. flatten[i + 1] = f[i + 1]
    OBVIOUS
  <2>3. flatten[i + 2] = flatten[i + 1] \o s[i + 2]
    BY <1>4, <2>1
  <2>4. f[i + 2] = f[i + 1] \o s[i + 2]
    BY <1>5, <2>1
  <2> QED BY <2>2, <2>3, <2>4
<1>8. n - 1 \in Same
  <2> HIDE DEF Same
  <2>1. Nat \subseteq Same
    BY <1>6, <1>7, NatIsInductive
  <2> QED BY <2>1
<1>9. flatten[n] = f[n]
  BY <1>8
<1> QED BY <1>2, <1>9 DEF p

LEMMA FlattenSteps ==
  ASSUME NEW S, NEW s \in Seq(Seq(S))
  PROVE  /\ FlattenSeq(s) \in Seq(S) /\ FlattenSeq(Prefix(s, Len(s))) = FlattenSeq(s)
         /\ \A n \in 0 .. Len(s) : FlattenSeq(Prefix(s, n)) \in Seq(S)
         /\ FlattenSeq(Prefix(s, 0)) = <<>>
         /\ \A n \in 1 .. Len(s) : FlattenSeq(Prefix(s, n)) = FlattenSeq(Prefix(s, n - 1)) \o s[n]
<1> DEFINE F(n) == FlattenSeq(Prefix(s, n))
<1>1. PICK f \in [1 .. Len(s) -> Seq(S)] : \A i \in 1 .. Len(s) : f[i] = IF i = 1 THEN s[i] ELSE f[i - 1] \o s[i]
  BY FlattenIsDefined
<1>2. \A n \in 1 .. Len(s) : F(n) = f[n]
  BY <1>1, FlattenIs
<1>3. Prefix(s, Len(s)) = s
  BY WholePrefix
<1>4. F(0) = <<>>
  <2>1. Prefix(s, 0) = <<>> /\ Len(Prefix(s, 0)) = 0
    BY DEF Prefix
  <2> QED BY <2>1 DEF FlattenSeq
<1> HIDE DEF F
<1>5. \A n \in 0 .. Len(s) : F(n) \in Seq(S)
  <2> SUFFICES ASSUME NEW n \in 0 .. Len(s) PROVE F(n) \in Seq(S)
    OBVIOUS
  <2>1. CASE n = 0
    <3>1. F(n) = <<>>
      BY <1>4, <2>1, Zenon
    <3>2. <<>> \in Seq(S)
      OBVIOUS
    <3> QED BY <3>1, <3>2
  <2>2. CASE n # 0
    <3>1. n \in 1 .. Len(s)
      BY <2>2
    <3>2. f[n] \in Seq(S)
      BY <1>1, <3>1
    <3> QED BY <1>2, <3>1, <3>2
  <2> QED BY <2>1, <2>2
<1>6. ASSUME NEW n \in 1 .. Len(s) PROVE F(n) = F(n - 1) \o s[n]
  <2>1. F(n) = IF n = 1 THEN s[n] ELSE f[n - 1] \o s[n]
    BY <1>1, <1>2
  <2>2. CASE n = 1
    <3>1. s[1] \in Seq(S) /\ F(0) = <<>>
      BY <1>4, <2>2
    <3>2. <<>> \o s[1] = s[1]
      BY <3>1
    <3> QED BY <2>1, <2>2, <3>1, <3>2
  <2>3. CASE n # 1
    <3>1. n - 1 \in 1 .. Len(s)
      BY <2>3
    <3>2. F(n - 1) = f[n - 1]
      BY <1>2, <3>1
    <3> QED BY <2>1, <2>3, <3>2
  <2> QED BY <2>2, <2>3
<1>7. FlattenSeq(s) \in Seq(S)
  <2>1. Len(s) \in 0 .. Len(s)
    OBVIOUS
  <2> QED BY <1>3, <1>5, <2>1 DEF F
<1> QED BY <1>3, <1>4, <1>5, <1>6, <1>7 DEF F

(* Where the cells of each of them are.                                    *)
Before(s, n) == Len(FlattenSeq(Prefix(s, n)))

LEMMA BeforeIs ==
  ASSUME NEW S, NEW s \in Seq(Seq(S))
  PROVE  /\ Before(s, 0) = 0 /\ Before(s, Len(s)) = Len(FlattenSeq(s))
         /\ \A n \in 0 .. Len(s) : Before(s, n) \in Nat
         /\ \A n \in 1 .. Len(s) : Before(s, n) = Before(s, n - 1) + Len(s[n])
<1>1. /\ FlattenSeq(Prefix(s, Len(s))) = FlattenSeq(s)
      /\ \A n \in 0 .. Len(s) : FlattenSeq(Prefix(s, n)) \in Seq(S)
      /\ FlattenSeq(Prefix(s, 0)) = <<>>
      /\ \A n \in 1 .. Len(s) : FlattenSeq(Prefix(s, n)) = FlattenSeq(Prefix(s, n - 1)) \o s[n]
  BY FlattenSteps
<1>2. ASSUME NEW n \in 1 .. Len(s) PROVE Before(s, n) = Before(s, n - 1) + Len(s[n])
  <2>1. n - 1 \in 0 .. Len(s) /\ s[n] \in Seq(S)
    OBVIOUS
  <2>2. FlattenSeq(Prefix(s, n - 1)) \in Seq(S)
    BY <1>1, <2>1
  <2>3. Len(FlattenSeq(Prefix(s, n - 1)) \o s[n]) = Len(FlattenSeq(Prefix(s, n - 1))) + Len(s[n])
    BY <2>1, <2>2, ConcatProperties
  <2> QED BY <1>1, <2>3 DEF Before
<1>3. \A n \in 0 .. Len(s) : Before(s, n) \in Nat
  BY <1>1, LenProperties DEF Before
<1> QED BY <1>1, <1>2, <1>3 DEF Before

LEMMA FlattenPlaces ==
  ASSUME NEW S, NEW s \in Seq(Seq(S))
  PROVE  \A n \in 1 .. Len(s) :
            /\ Before(s, n - 1) \in Nat /\ Before(s, n) \in Nat
            /\ Before(s, n) = Before(s, n - 1) + Len(s[n]) /\ Before(s, n) <= Len(FlattenSeq(s))
            /\ \A c \in 1 .. Len(s[n]) : FlattenSeq(s)[Before(s, n - 1) + c] = s[n][c]
<1> DEFINE F(n) == FlattenSeq(Prefix(s, n))
           Placed(m, n) == /\ Before(s, n) <= Before(s, m)
                           /\ \A c \in 1 .. Len(s[n]) : F(m)[Before(s, n - 1) + c] = s[n][c]
           Placing == {m \in Nat : m <= Len(s) => \A n \in 1 .. m : Placed(m, n)}
<1>1. /\ F(Len(s)) = FlattenSeq(s) /\ \A n \in 0 .. Len(s) : F(n) \in Seq(S)
      /\ \A n \in 1 .. Len(s) : F(n) = F(n - 1) \o s[n]
  BY FlattenSteps
<1>2. /\ Before(s, Len(s)) = Len(FlattenSeq(s)) /\ \A n \in 0 .. Len(s) : Before(s, n) \in Nat
      /\ \A n \in 1 .. Len(s) : Before(s, n) = Before(s, n - 1) + Len(s[n])
  BY BeforeIs
<1>3. \A n \in 0 .. Len(s) : Len(F(n)) = Before(s, n)
  BY DEF Before
<1> HIDE DEF F
<1>4. 0 \in Placing
  OBVIOUS
<1>5. ASSUME NEW m \in Placing \cap Nat PROVE m + 1 \in Placing
  <2> SUFFICES ASSUME m + 1 <= Len(s), NEW n \in 1 .. m + 1
               PROVE  Placed(m + 1, n)
    <3> HIDE DEF Placed
    <3>1. m + 1 \in Nat
      OBVIOUS
    <3> QED BY <3>1
  <2>1. m \in 0 .. Len(s) /\ m + 1 \in 1 .. Len(s) /\ (m + 1) - 1 = m /\ s[m + 1] \in Seq(S)
    OBVIOUS
  <2>2. /\ F(m + 1) = F(m) \o s[m + 1] /\ F(m) \in Seq(S) /\ Len(F(m)) = Before(s, m)
        /\ Before(s, m + 1) = Before(s, m) + Len(s[m + 1]) /\ Before(s, m) \in Nat
    BY <1>1, <1>2, <1>3, <2>1
  <2>3. /\ \A i \in 1 .. Len(F(m)) : F(m + 1)[i] = F(m)[i]
        /\ \A i \in 1 .. Len(s[m + 1]) : F(m + 1)[Len(F(m)) + i] = s[m + 1][i]
    <3> DEFINE a == F(m)
               b == s[m + 1]
    <3>1. a \in Seq(S) /\ b \in Seq(S)
      BY <2>1, <2>2
    <3>2. F(m + 1) = a \o b
      BY <2>2
    <3> HIDE DEF a, b
    <3>3. /\ \A i \in 1 .. Len(a) : (a \o b)[i] = a[i]
          /\ \A i \in 1 .. Len(b) : (a \o b)[Len(a) + i] = b[i]
      BY <3>1, ConcatIs
    <3>4. /\ \A i \in 1 .. Len(a) : F(m + 1)[i] = a[i]
          /\ \A i \in 1 .. Len(b) : F(m + 1)[Len(a) + i] = b[i]
      BY <3>2, <3>3
    <3> QED BY <3>4 DEF a, b
  <2>4. CASE n = m + 1
    <3>1. ASSUME NEW c \in 1 .. Len(s[n]) PROVE F(m + 1)[Before(s, n - 1) + c] = s[n][c]
      <4>1. c \in 1 .. Len(s[m + 1]) /\ n - 1 = m
        BY <2>4
      <4>2. F(m + 1)[Len(F(m)) + c] = s[m + 1][c]
        BY <2>3, <4>1
      <4> QED BY <2>2, <2>4, <4>1, <4>2
    <3>2. Before(s, n) <= Before(s, m + 1)
      BY <1>2, <2>1, <2>2, <2>4
    <3> QED BY <3>1, <3>2
  <2>5. CASE n # m + 1
    <3>1. n \in 1 .. m /\ n \in 1 .. Len(s) /\ n - 1 \in 0 .. Len(s) /\ n \in 0 .. Len(s) /\ s[n] \in Seq(S)
      BY <2>5
    <3>2. Placed(m, n)
      <4> HIDE DEF Placed
      <4> QED BY <2>1, <3>1
    <3>3. Before(s, n) <= Before(s, m) /\ Before(s, n - 1) \in Nat /\ Before(s, n) \in Nat
          /\ Before(s, n) = Before(s, n - 1) + Len(s[n])
      BY <1>2, <3>1, <3>2
    <3>4. ASSUME NEW c \in 1 .. Len(s[n]) PROVE F(m + 1)[Before(s, n - 1) + c] = s[n][c]
      <4>0. Len(s[n]) \in Nat
        BY <3>1
      <4>1. Before(s, n - 1) + c \in 1 .. Len(F(m))
        <5> HIDE DEF Placing, Placed
        <5> QED BY <2>2, <3>3, <4>0, SMTT(30)
      <4>2. F(m)[Before(s, n - 1) + c] = s[n][c]
        BY <3>2
      <4> QED BY <2>3, <4>1, <4>2
    <3>5. Before(s, n) <= Before(s, m + 1)
      <4> HIDE DEF Placing, Placed
      <4>1. Before(s, m) \in Nat /\ Before(s, m + 1) \in Nat /\ Before(s, m) <= Before(s, m + 1)
        BY <2>1, <2>2
      <4> QED BY <3>3, <4>1
    <3> QED BY <3>4, <3>5
  <2> QED BY <2>4, <2>5
<1>6. Len(s) \in Placing
  <2> HIDE DEF Placing
  <2>1. Nat \subseteq Placing
    BY <1>4, <1>5, NatIsInductive
  <2> QED BY <2>1
<1> SUFFICES ASSUME NEW n \in 1 .. Len(s)
             PROVE  /\ Before(s, n - 1) \in Nat /\ Before(s, n) \in Nat
                    /\ Before(s, n) = Before(s, n - 1) + Len(s[n]) /\ Before(s, n) <= Len(FlattenSeq(s))
                    /\ \A c \in 1 .. Len(s[n]) : FlattenSeq(s)[Before(s, n - 1) + c] = s[n][c]
  OBVIOUS
<1>7. n - 1 \in 0 .. Len(s) /\ n \in 0 .. Len(s)
  OBVIOUS
<1>8. Placed(Len(s), n)
  <2> HIDE DEF Placed
  <2> QED BY <1>6
<1> QED BY <1>1, <1>2, <1>7, <1>8

-----------------------------------------------------------------------------
(* A fold over some of the numbers from 1 to n, which takes them in the    *)
(* order that pick gives: its recursion has a solution, so that the folds  *)
(* of the library are what their equation says.                            *)
FoldInputs(X, base, n, step, pick) ==
    /\ base \in X /\ n \in Nat /\ step \in [1 .. n -> [X -> X]]
    /\ \A s \in SUBSET (1 .. n) : s # {} => pick[s] \in s
Folds(f, X, base, n, step, pick) ==
    /\ f \in [SUBSET (1 .. n) -> X]
    /\ \A s \in SUBSET (1 .. n) : f[s] = IF s = {} THEN base ELSE step[pick[s]][f[s \ {pick[s]}]]

LEMMA FoldIsDefined ==
  ASSUME NEW X, NEW base, NEW n, NEW step, NEW pick, FoldInputs(X, base, n, step, pick)
  PROVE  \E f : Folds(f, X, base, n, step, pick)
<1>a. /\ base \in X /\ n \in Nat /\ step \in [1 .. n -> [X -> X]]
      /\ \A s \in SUBSET (1 .. n) : s # {} => pick[s] \in s
  BY DEF FoldInputs
<1> DEFINE Small(m) == {s \in SUBSET (1 .. n) : Cardinality(s) <= m}
           Follows(f, s) == f[s] = IF s = {} THEN base ELSE step[pick[s]][f[s \ {pick[s]}]]
           Done == {m \in Nat : \E f \in [Small(m) -> X] : \A s \in Small(m) : Follows(f, s)}
<1>0. \A a \in 1 .. n, x \in X : step[a][x] \in X
  BY <1>a
<1>1. \A s \in SUBSET (1 .. n) : IsFiniteSet(s) /\ Cardinality(s) \in Nat /\ Cardinality(s) <= n
  <2>1. IsFiniteSet(1 .. n) /\ Cardinality(1 .. n) = n
    BY <1>a, FS_Interval
  <2>2. ASSUME NEW s \in SUBSET (1 .. n)
        PROVE  IsFiniteSet(s) /\ Cardinality(s) \in Nat /\ Cardinality(s) <= n
    <3>1. IsFiniteSet(s) /\ Cardinality(s) <= Cardinality(1 .. n)
      BY <2>1, FS_Subset
    <3> QED BY <2>1, <3>1, FS_CardinalityType
  <2> QED BY <2>2
<1>2. ASSUME NEW s \in SUBSET (1 .. n), s # {}
      PROVE  /\ pick[s] \in s /\ pick[s] \in 1 .. n /\ s \ {pick[s]} \in SUBSET (1 .. n)
             /\ Cardinality(s \ {pick[s]}) = Cardinality(s) - 1 /\ Cardinality(s) # 0
  <2>1. pick[s] \in s
    BY <1>2, <1>a
  <2>2. Cardinality(s \ {pick[s]}) = Cardinality(s) - 1
    BY <1>1, <2>1, FS_RemoveElement
  <2>3. Cardinality(s) # 0
    BY <1>1, <1>2, FS_EmptySet
  <2> QED BY <2>1, <2>2, <2>3
<1>3. 0 \in Done
  <2>1. \A s \in Small(0) : s = {}
    BY <1>1, FS_EmptySet
  <2> DEFINE f == [s \in Small(0) |-> base]
  <2>2. f \in [Small(0) -> X] /\ \A s \in Small(0) : Follows(f, s)
    BY <1>a, <2>1
  <2> HIDE DEF Small, Follows, f
  <2> QED BY <2>2
<1>4. ASSUME NEW m \in Done \cap Nat PROVE m + 1 \in Done
  <2>1. PICK f \in [Small(m) -> X] : \A s \in Small(m) : Follows(f, s)
    <3> HIDE DEF Small, Follows
    <3> QED OBVIOUS
  <2> DEFINE g == [s \in Small(m + 1) |-> IF s = {} THEN base ELSE step[pick[s]][f[s \ {pick[s]}]]]
  <2>2. ASSUME NEW s \in Small(m + 1), s # {}
        PROVE  s \ {pick[s]} \in Small(m) /\ pick[s] \in 1 .. n
    <3>1. s \in SUBSET (1 .. n) /\ Cardinality(s) <= m + 1
      OBVIOUS
    <3>2. Cardinality(s) \in Nat /\ Cardinality(s) - 1 <= m
      BY <1>1, <3>1
    <3> QED BY <1>2, <2>2, <3>1, <3>2
  <2>3. ASSUME NEW s \in Small(m) PROVE s \in Small(m + 1) /\ g[s] = f[s]
    <3>1. s \in Small(m + 1)
      <4>1. s \in SUBSET (1 .. n) /\ Cardinality(s) <= m
        OBVIOUS
      <4>2. Cardinality(s) <= m + 1
        BY <1>1, <4>1
      <4> QED BY <4>1, <4>2
    <3> QED BY <2>1, <3>1
  <2>4. ASSUME NEW s \in Small(m + 1) PROVE g[s] \in X /\ Follows(g, s)
    <3>1. CASE s = {}
      BY <1>a, <3>1
    <3>2. CASE s # {}
      <4>1. s \ {pick[s]} \in Small(m) /\ pick[s] \in 1 .. n
        BY <2>2, <3>2
      <4>2. f[s \ {pick[s]}] \in X /\ g[s \ {pick[s]}] = f[s \ {pick[s]}]
        <5> HIDE DEF g, Small, Follows
        <5> QED BY <2>3, <4>1
      <4>3. g[s] = step[pick[s]][f[s \ {pick[s]}]]
        <5> HIDE DEF Small
        <5> QED BY <3>2
      <4>4. step[pick[s]][f[s \ {pick[s]}]] \in X
        <5> HIDE DEF g, Small, Follows
        <5> QED BY <1>0, <4>1, <4>2
      <4> HIDE DEF g, Small
      <4> QED BY <3>2, <4>2, <4>3, <4>4
    <3> QED BY <3>1, <3>2
  <2>5. g \in [Small(m + 1) -> X] /\ m + 1 \in Nat
    <3>1. g = [s \in Small(m + 1) |-> g[s]]
      OBVIOUS
    <3>2. \A s \in Small(m + 1) : g[s] \in X
      BY <2>4
    <3> HIDE DEF g, Small, Follows
    <3> QED BY <3>1, <3>2
  <2> HIDE DEF g, Small, Follows
  <2> QED BY <2>4, <2>5
<1>5. n \in Done
  <2> HIDE DEF Done
  <2>1. Nat \subseteq Done
    BY <1>3, <1>4, NatIsInductive
  <2> QED BY <1>a, <2>1
<1>6. PICK f \in [Small(n) -> X] : \A s \in Small(n) : Follows(f, s)
  <2> HIDE DEF Small, Follows
  <2> QED BY <1>5
<1>7. Small(n) = SUBSET (1 .. n)
  BY <1>1
<1> QED
  <2> HIDE DEF Small
  <2> QED BY <1>6, <1>7 DEF Folds

(* FoldLeft takes the greatest number of those that are left, FoldRight the*)
(* least.                                                                  *)
LEMMA MaxIs == \A S \in SUBSET Nat : \A n \in Nat : S # {} /\ S \subseteq 1 .. n => Max(S) \in S /\ \A y \in S : y <= Max(S)
<1> SUFFICES ASSUME NEW S \in SUBSET Nat, NEW n \in Nat, S # {}, S \subseteq 1 .. n
             PROVE  \E x \in S : \A y \in S : x >= y
  BY DEF Max
<1> DEFINE T == {n - y : y \in S}
<1>1. T \in SUBSET Nat /\ T # {}
  <2>1. \A y \in S : y \in Nat /\ y <= n /\ n - y \in Nat
    OBVIOUS
  <2> QED BY <2>1
<1>2. PICK m \in T : \A k \in T : m <= k
  BY <1>1, LeastNat
<1>3. PICK x \in S : m = n - x
  BY <1>2
<1>4. \A y \in S : m <= n - y
  BY <1>2
<1> QED BY <1>3, <1>4

LEMMA MinIs == \A S \in SUBSET Nat : S # {} => Min(S) \in S /\ \A y \in S : Min(S) <= y
BY LeastNat DEF Min
(* memcpy, forward one after the other, between two ranges where the source*)
(* is in front of the destination: what was in the source.                 *)
Moved(copy, D, mem, destination, source, length) ==
    copy = [a \in D |-> IF a \in destination .. destination + length - 1
                        THEN mem[source + (a - destination)] ELSE mem[a]]

LEMMA memcpyIs ==
  ASSUME NEW V, NEW D \in SUBSET Nat, NEW mem \in [D -> V], NEW destination \in Nat, NEW source \in Nat,
         NEW length \in Nat, source + length <= destination, source .. source + length - 1 \subseteq D
  PROVE  Moved(memcpy(mem, destination, source, length), D, mem, destination, source, length)
<1> DEFINE id == [i \in 1 .. length |-> i]
           One(c, i) == [c EXCEPT ![destination + i - 1] = c[source + i - 1]]
           Copies(f) == f = [s \in SUBSET DOMAIN id |->
                               IF s = {} THEN mem ELSE LET x == Max(s) IN One(f[s \ {x}], id[x])]
           iter == CHOOSE f : Copies(f)
           X == [D -> V]
           After(i) == [a \in D |-> IF a \in destination .. destination + i - 1
                                    THEN mem[source + (a - destination)] ELSE mem[a]]
<1>1. memcpy(mem, destination, source, length) = iter[DOMAIN id]
  BY DEF memcpy, FoldLeft, MapThenFoldSet
<1>2. DOMAIN id = 1 .. length /\ \A i \in 1 .. length : id[i] = i
  OBVIOUS
<1>3. \A i \in 1 .. length : destination + i - 1 \in Nat /\ source + i - 1 \in D
  OBVIOUS
<1>4. ASSUME NEW c \in X, NEW i \in 1 .. length PROVE One(c, i) \in X
  BY <1>3
<1> HIDE DEF One
<1>m. mem \in X
  OBVIOUS
<1> HIDE DEF X
<1>5. Copies(iter)
  <2> DEFINE step == [i \in 1 .. length |-> [c \in X |-> One(c, i)]]
             pick == [s \in SUBSET (1 .. length) |-> Max(s)]
  <2>1. step \in [1 .. length -> [X -> X]] /\ \A i \in 1 .. length, c \in X : step[i][c] = One(c, i)
    BY <1>4
  <2>2. \A s \in SUBSET (1 .. length) : s # {} => pick[s] = Max(s) /\ pick[s] \in s
    <3> SUFFICES ASSUME NEW s \in SUBSET (1 .. length), s # {} PROVE Max(s) \in s
      OBVIOUS
    <3>1. s \in SUBSET Nat /\ s \subseteq 1 .. length
      OBVIOUS
    <3> QED BY <3>1, MaxIs
  <2> HIDE DEF step, pick
  <2>f. PICK f : Folds(f, X, mem, length, step, pick)
    <3>1. FoldInputs(X, mem, length, step, pick)
      BY <1>m, <2>1, <2>2 DEF FoldInputs
    <3> QED BY <3>1, FoldIsDefined
  <2>3. /\ f \in [SUBSET (1 .. length) -> X]
        /\ \A s \in SUBSET (1 .. length) : f[s] = IF s = {} THEN mem ELSE step[pick[s]][f[s \ {pick[s]}]]
    BY <2>f DEF Folds
  <2>4. ASSUME NEW s \in SUBSET (1 .. length)
        PROVE  f[s] = IF s = {} THEN mem ELSE One(f[s \ {Max(s)}], id[Max(s)])
    <3>1. CASE s = {}
      BY <2>3, <3>1
    <3>2. CASE s # {}
      <4>1. Max(s) = pick[s] /\ pick[s] \in 1 .. length /\ s \ {pick[s]} \in SUBSET (1 .. length)
        BY <2>2, <3>2
      <4>2. f[s \ {pick[s]}] \in X /\ id[pick[s]] = pick[s]
        BY <1>2, <2>3, <4>1
      <4>3. step[pick[s]][f[s \ {pick[s]}]] = One(f[s \ {pick[s]}], pick[s])
        BY <2>1, <4>1, <4>2
      <4>4. f[s] = step[pick[s]][f[s \ {pick[s]}]]
        BY <2>3, <3>2
      <4> QED BY <3>2, <4>1, <4>2, <4>3, <4>4
    <3> QED BY <3>1, <3>2
  <2> HIDE DEF id
  <2>5. Copies(f)
    BY <1>2, <2>3, <2>4
  <2> HIDE DEF Copies
  <2> QED BY <2>5
<1> HIDE DEF iter, id
<1>6. \A s \in SUBSET (1 .. length) : iter[s] = IF s = {} THEN mem ELSE One(iter[s \ {Max(s)}], id[Max(s)])
  BY <1>2, <1>5
<1>7. ASSUME NEW i \in 1 .. length
      PROVE  Max(1 .. i) = i /\ (1 .. i) \ {i} = 1 .. i - 1 /\ 1 .. i # {} /\ 1 .. i \in SUBSET (1 .. length)
  <2>1. 1 .. i \in SUBSET Nat /\ i \in Nat /\ 1 .. i # {} /\ i \in 1 .. i
    OBVIOUS
  <2>2. Max(1 .. i) \in 1 .. i /\ i <= Max(1 .. i)
    BY <2>1, MaxIs
  <2> QED BY <2>1, <2>2
<1> DEFINE Copied == {i \in Nat : i <= length => iter[1 .. i] = After(i)}
<1>8. 0 \in Copied
  <2>1. After(0) = mem
    OBVIOUS
  <2>2. 1 .. 0 = {} /\ 1 .. 0 \in SUBSET (1 .. length)
    OBVIOUS
  <2> HIDE DEF After
  <2> QED BY <1>6, <2>1, <2>2
<1>9. ASSUME NEW i \in Nat, i + 1 <= length
      PROVE  One(After(i), i + 1) = After(i + 1)
  <2>1. destination + (i + 1) - 1 = destination + i /\ source + (i + 1) - 1 = source + i
    OBVIOUS
  <2>2. source + i \in D /\ source + i < destination /\ source + i \notin destination .. destination + i - 1
    <3>1. i + 1 \in 1 .. length /\ source + (i + 1) - 1 = source + i
      BY <1>9
    <3>2. source + i < destination
      BY <1>9
    <3> QED BY <1>3, <3>1, <3>2
  <2>3. After(i)[source + i] = mem[source + i]
    BY <2>2
  <2>4. ASSUME NEW a \in D
        PROVE  (IF a = destination + i THEN mem[source + i] ELSE After(i)[a]) = After(i + 1)[a]
    <3>1. a \in Nat
      OBVIOUS
    <3>2. CASE a = destination + i
      <4>1. a \in destination .. destination + (i + 1) - 1 /\ a - destination = i
        BY <3>2
      <4> QED BY <3>2, <4>1
    <3>3. CASE a # destination + i
      <4>1. a \in destination .. destination + (i + 1) - 1 <=> a \in destination .. destination + i - 1
        BY <3>1, <3>3
      <4> QED BY <3>3, <4>1
    <3> QED BY <3>2, <3>3
  <2>5. DOMAIN After(i) = D
    OBVIOUS
  <2>6. After(i + 1) = [a \in D |-> After(i + 1)[a]]
    OBVIOUS
  <2> HIDE DEF After
  <2>7. [After(i) EXCEPT ![destination + i] = mem[source + i]] = After(i + 1)
    BY <2>4, <2>5, <2>6
  <2> QED BY <2>1, <2>3, <2>7 DEF One
<1>10. ASSUME NEW i \in Copied \cap Nat PROVE i + 1 \in Copied
  <2> SUFFICES ASSUME i + 1 <= length PROVE iter[1 .. i + 1] = After(i + 1)
    <3> HIDE DEF After
    <3> QED OBVIOUS
  <2>1. iter[1 .. i] = After(i) /\ i + 1 \in 1 .. length /\ (i + 1) - 1 = i
    <3> HIDE DEF After
    <3> QED OBVIOUS
  <2>2. iter[1 .. i + 1] = One(iter[1 .. i], i + 1)
    <3>1. /\ Max(1 .. i + 1) = i + 1 /\ (1 .. i + 1) \ {i + 1} = 1 .. i
          /\ 1 .. i + 1 # {} /\ 1 .. i + 1 \in SUBSET (1 .. length) /\ id[i + 1] = i + 1
      BY <1>2, <1>7, <2>1
    <3> HIDE DEF Copied
    <3> QED BY <1>6, <3>1
  <2> HIDE DEF After
  <2> QED BY <1>9, <2>1, <2>2
<1>11. iter[1 .. length] = After(length)
  <2> HIDE DEF Copied
  <2>1. Nat \subseteq Copied
    BY <1>8, <1>10, NatIsInductive
  <2>2. length \in Copied
    BY <2>1
  <2> HIDE DEF After
  <2> QED BY <2>2 DEF Copied
<1> QED BY <1>1, <1>2, <1>11 DEF Moved

-----------------------------------------------------------------------------
(* ipow: the powers of a base.                                             *)
Powers(g, base, exp) ==
    /\ g \in [0 .. exp -> Nat] /\ g[0] = 1
    /\ \A i \in 1 .. exp : g[i] = g[i - 1] * base

LEMMA ipowIsPower ==
  ASSUME NEW base \in Nat, NEW exp \in Nat
  PROVE  \E g : Powers(g, base, exp) /\ ipow(base, exp) = g[exp]
<1> DEFINE ones == [i \in 1 .. exp |-> 1]
           One(result) == result * base
           Multiplies(f) == f = [s \in SUBSET DOMAIN ones |->
                                   IF s = {} THEN 1 ELSE LET x == Max(s) IN One(f[s \ {x}])]
           iter == CHOOSE f : Multiplies(f)
<1>1. ipow(base, exp) = iter[DOMAIN ones]
  BY DEF ipow, FoldLeft, MapThenFoldSet
<1>2. DOMAIN ones = 1 .. exp
  OBVIOUS
<1>3. ASSUME NEW c \in Nat PROVE One(c) \in Nat
  OBVIOUS
<1> HIDE DEF One, ones
<1>4. Multiplies(iter)
  <2> DEFINE step == [i \in 1 .. exp |-> [c \in Nat |-> One(c)]]
             pick == [s \in SUBSET (1 .. exp) |-> Max(s)]
  <2>1. step \in [1 .. exp -> [Nat -> Nat]] /\ \A i \in 1 .. exp, c \in Nat : step[i][c] = One(c)
    BY <1>3
  <2>2. \A s \in SUBSET (1 .. exp) : s # {} => pick[s] = Max(s) /\ pick[s] \in s
    <3> SUFFICES ASSUME NEW s \in SUBSET (1 .. exp), s # {} PROVE Max(s) \in s
      OBVIOUS
    <3>1. s \in SUBSET Nat /\ s \subseteq 1 .. exp
      OBVIOUS
    <3> QED BY <3>1, MaxIs
  <2> HIDE DEF step, pick
  <2>f. PICK f : Folds(f, Nat, 1, exp, step, pick)
    <3>1. FoldInputs(Nat, 1, exp, step, pick)
      BY <2>1, <2>2 DEF FoldInputs
    <3> QED BY <3>1, FoldIsDefined
  <2>3. /\ f \in [SUBSET (1 .. exp) -> Nat]
        /\ \A s \in SUBSET (1 .. exp) : f[s] = IF s = {} THEN 1 ELSE step[pick[s]][f[s \ {pick[s]}]]
    BY <2>f DEF Folds
  <2>4. ASSUME NEW s \in SUBSET (1 .. exp)
        PROVE  f[s] = IF s = {} THEN 1 ELSE One(f[s \ {Max(s)}])
    <3>1. CASE s = {}
      BY <2>3, <3>1
    <3>2. CASE s # {}
      <4>1. Max(s) = pick[s] /\ pick[s] \in 1 .. exp /\ s \ {pick[s]} \in SUBSET (1 .. exp)
        BY <2>2, <3>2
      <4>2. f[s \ {pick[s]}] \in Nat
        BY <2>3, <4>1
      <4>3. step[pick[s]][f[s \ {pick[s]}]] = One(f[s \ {pick[s]}])
        BY <2>1, <4>1, <4>2
      <4>4. f[s] = step[pick[s]][f[s \ {pick[s]}]]
        BY <2>3, <3>2
      <4> QED BY <3>2, <4>1, <4>3, <4>4
    <3> QED BY <3>1, <3>2
  <2>5. Multiplies(f)
    BY <1>2, <2>3, <2>4
  <2> HIDE DEF Multiplies
  <2> QED BY <2>5
<1> HIDE DEF iter
<1>5. \A s \in SUBSET (1 .. exp) : iter[s] = IF s = {} THEN 1 ELSE One(iter[s \ {Max(s)}])
  BY <1>2, <1>4
<1> DEFINE g == [i \in 0 .. exp |-> iter[1 .. i]]
<1>6. ASSUME NEW i \in 1 .. exp PROVE g[i] = One(g[i - 1])
  <2>1. 1 .. i \in SUBSET Nat /\ i \in Nat /\ 1 .. i # {} /\ i \in 1 .. i /\ 1 .. i \in SUBSET (1 .. exp)
    OBVIOUS
  <2>2. Max(1 .. i) \in 1 .. i /\ i <= Max(1 .. i)
    BY <2>1, MaxIs
  <2>3. Max(1 .. i) = i /\ (1 .. i) \ {i} = 1 .. i - 1
    BY <2>1, <2>2
  <2>4. iter[1 .. i] = One(iter[1 .. i - 1])
    BY <1>5, <2>1, <2>3
  <2> QED BY <2>4
<1>7. g[0] = 1
  <2>1. 1 .. 0 = {} /\ {} \in SUBSET (1 .. exp)
    OBVIOUS
  <2>2. iter[{}] = 1
    BY <1>5, <2>1
  <2> QED BY <2>1, <2>2
<1> HIDE DEF Multiplies
<1>8. DOMAIN g = 0 .. exp /\ g[exp] = iter[1 .. exp] /\ g = [i \in 0 .. exp |-> g[i]]
  OBVIOUS
<1> HIDE DEF g
<1> DEFINE Typed == {i \in Nat : i <= exp => g[i] \in Nat}
<1>9. 0 \in Typed
  BY <1>7
<1>10. ASSUME NEW i \in Typed \cap Nat PROVE i + 1 \in Typed
  <2> SUFFICES ASSUME i + 1 <= exp PROVE g[i + 1] \in Nat
    OBVIOUS
  <2>1. i + 1 \in 1 .. exp /\ (i + 1) - 1 = i /\ g[i] \in Nat
    OBVIOUS
  <2> QED BY <1>3, <1>6, <2>1
<1>11. \A i \in 0 .. exp : g[i] \in Nat
  <2>1. Nat \subseteq Typed
    <3> HIDE DEF Typed
    <3> QED BY <1>9, <1>10, NatIsInductive
  <2> QED BY <2>1
<1>12. Powers(g, base, exp)
  BY <1>6, <1>7, <1>8, <1>11 DEF Powers, One
<1>13. ipow(base, exp) = g[exp]
  BY <1>1, <1>2, <1>8
<1> QED BY <1>12, <1>13

LEMMA ipowIs ==
  ASSUME NEW base \in Nat
  PROVE  /\ \A exp \in Nat : ipow(base, exp) \in Nat
         /\ ipow(base, 0) = 1
         /\ \A exp \in Nat : ipow(base, exp + 1) = ipow(base, exp) * base
<1>1. ASSUME NEW exp \in Nat PROVE ipow(base, exp) \in Nat
  <2>1. PICK g : Powers(g, base, exp) /\ ipow(base, exp) = g[exp]
    BY ipowIsPower
  <2> QED BY <2>1 DEF Powers
<1>2. ipow(base, 0) = 1
  BY ipowIsPower DEF Powers
<1>3. ASSUME NEW exp \in Nat PROVE ipow(base, exp + 1) = ipow(base, exp) * base
  <2>1. PICK g : Powers(g, base, exp) /\ ipow(base, exp) = g[exp]
    BY ipowIsPower
  <2>2. exp + 1 \in Nat
    OBVIOUS
  <2>3. PICK h : Powers(h, base, exp + 1) /\ ipow(base, exp + 1) = h[exp + 1]
    BY <2>2, ipowIsPower
  <2> DEFINE Same == {i \in Nat : i <= exp => g[i] = h[i]}
  <2>4. 0 \in Same
    BY <2>1, <2>3 DEF Powers
  <2>5. ASSUME NEW i \in Same \cap Nat PROVE i + 1 \in Same
    <3> SUFFICES ASSUME i + 1 <= exp PROVE g[i + 1] = h[i + 1]
      OBVIOUS
    <3>1. i + 1 \in 1 .. exp /\ i + 1 \in 1 .. exp + 1 /\ (i + 1) - 1 = i /\ g[i] = h[i]
      OBVIOUS
    <3>2. g[i + 1] = g[i] * base /\ h[i + 1] = h[i] * base
      BY <2>1, <2>3, <3>1 DEF Powers
    <3> QED BY <3>1, <3>2
  <2>6. g[exp] = h[exp]
    <3>1. Nat \subseteq Same
      <4> HIDE DEF Same
      <4> QED BY <2>4, <2>5, NatIsInductive
    <3> QED BY <3>1
  <2>7. h[exp + 1] = h[exp] * base
    <3>1. exp + 1 \in 1 .. exp + 1 /\ (exp + 1) - 1 = exp
      OBVIOUS
    <3> QED BY <2>3, <3>1 DEF Powers
  <2> QED BY <2>1, <2>3, <2>6, <2>7
<1> QED BY <1>1, <1>2, <1>3

-----------------------------------------------------------------------------
(* A word of a string: its characters are the digits to the base 256.      *)
LEMMA DivIs ==
  ASSUME NEW x \in Nat, NEW p \in Nat, NEW q \in Nat, NEW low \in Nat, low < p, x = low + p * q
  PROVE  x \div p = q
OBVIOUS

Digits(g, c, n) ==
    /\ g \in [1 .. n + 1 -> Nat] /\ g[n + 1] = 0
    /\ \A i \in 1 .. n : g[i] = c[i] + 256 * g[i + 1]

LEMMA DigitIs ==
  ASSUME NEW n \in Nat, NEW c \in [1 .. n -> 0 .. 255], NEW g, Digits(g, c, n), NEW m \in 0 .. n - 1
  PROVE  (g[1] \div ipow(256, m)) % 256 = c[m + 1]
<1> DEFINE p(i) == ipow(256, i)
           Low(i) == \E low \in Nat : low < p(i) /\ g[1] = low + p(i) * g[i + 1]
           Split == {i \in Nat : i <= n => Low(i)}
<1>1. p(0) = 1 /\ \A i \in Nat : p(i) \in Nat /\ p(i + 1) = p(i) * 256
  <2>1. 256 \in Nat
    OBVIOUS
  <2>2. /\ \A exp \in Nat : ipow(256, exp) \in Nat
        /\ ipow(256, 0) = 1
        /\ \A exp \in Nat : ipow(256, exp + 1) = ipow(256, exp) * 256
    BY <2>1, ipowIs
  <2> QED BY <2>2, ZenonT(40)
<1>2. /\ \A i \in 1 .. n + 1 : g[i] \in Nat
      /\ \A i \in 1 .. n : g[i] = c[i] + 256 * g[i + 1] /\ c[i] \in 0 .. 255
  BY DEF Digits
<1> HIDE DEF p
<1>3. 0 \in Split
  <2>1. g[1] \in Nat
    BY <1>2
  <2>2. 0 < p(0) /\ g[1] = 0 + p(0) * g[0 + 1]
    <3>0. 1 * g[1] = g[1]
      BY <2>1
    <3>a. p(0) = 1
      BY <1>1
    <3>b. p(0) * g[1] = g[1]
      BY <3>0, <3>a, Zenon
    <3>1. 0 + 1 = 1 /\ p(0) * g[1] = g[1] /\ 0 < p(0)
      BY <3>a, <3>b
    <3>2. g[0 + 1] = g[1]
      BY <3>1
    <3> QED BY <2>1, <3>1, <3>2
  <2> QED BY <2>2
<1>4. ASSUME NEW i \in Split \cap Nat PROVE i + 1 \in Split
  <2> SUFFICES ASSUME i + 1 <= n PROVE Low(i + 1)
    <3> HIDE DEF Low
    <3> QED OBVIOUS
  <2>1. PICK low \in Nat : low < p(i) /\ g[1] = low + p(i) * g[i + 1]
    OBVIOUS
  <2>2. /\ i + 1 \in 1 .. n /\ (i + 1) + 1 \in 1 .. n + 1
        /\ g[i + 1] = c[i + 1] + 256 * g[(i + 1) + 1] /\ c[i + 1] \in 0 .. 255 /\ g[(i + 1) + 1] \in Nat
    BY <1>2
  <2>3. PICK P \in Nat : P = p(i)
    BY <1>1
  <2>4. PICK d \in 0 .. 255 : d = c[i + 1]
    BY <2>2
  <2>5. PICK r \in Nat : r = g[(i + 1) + 1]
    BY <2>2
  <2>6. p(i + 1) = P * 256 /\ low < P /\ g[1] = low + P * (d + 256 * r)
    BY <1>1, <2>1, <2>2, <2>3, <2>4, <2>5
  <2>7. P * (d + 256 * r) = P * d + (P * 256) * r
    OBVIOUS
  <2>8. P * d \in Nat /\ P * d <= P * 255
    OBVIOUS
  <2>9. PICK e \in Nat : e = P * d /\ e <= 255 * P
    BY <2>8
  <2>10. low + e \in Nat /\ low + e < P * 256
    BY <2>6, <2>9
  <2>11. g[1] = (low + e) + (P * 256) * r
    <3>1. PICK z \in Nat : z = (P * 256) * r
      OBVIOUS
    <3> QED BY <2>6, <2>7, <2>9, <3>1
  <2> QED BY <2>5, <2>6, <2>10, <2>11
<1>5. Low(m)
  <2>1. Nat \subseteq Split
    <3> HIDE DEF Split
    <3> QED BY <1>3, <1>4, NatIsInductive
  <2> HIDE DEF Low
  <2> QED BY <2>1
<1>6. g[1] \div p(m) = g[m + 1] /\ g[m + 1] \in Nat
  <2>1. PICK low \in Nat : low < p(m) /\ g[1] = low + p(m) * g[m + 1]
    BY <1>5
  <2>2. p(m) \in Nat /\ g[m + 1] \in Nat /\ g[1] \in Nat
    <3>1. m \in Nat /\ m + 1 \in 1 .. n + 1 /\ 1 \in 1 .. n + 1
      OBVIOUS
    <3> QED BY <1>1, <1>2, <3>1, ZenonT(40)
  <2> QED BY <2>1, <2>2, DivIs
<1>7. g[m + 1] % 256 = c[m + 1]
  <2>1. m + 1 \in 1 .. n /\ (m + 1) + 1 \in 1 .. n + 1
    OBVIOUS
  <2>2. PICK r \in Nat : r = g[(m + 1) + 1]
    BY <1>2, <2>1
  <2>3. PICK d \in 0 .. 255 : d = c[m + 1]
    BY <1>2, <2>1
  <2>4. g[m + 1] = d + 256 * r
    BY <1>2, <2>1, <2>2, <2>3
  <2>5. (d + 256 * r) % 256 = d
    OBVIOUS
  <2> QED BY <2>3, <2>4, <2>5
<1> QED BY <1>6, <1>7 DEF p

CharsOf(s, w) == [k \in 1 .. WordSize |-> At(s, (w - 1) * WordSize + k)]

LEMMA WordIs ==
  ASSUME NEW s \in Seq(1 .. 255), NEW w \in Nat \ {0}
  PROVE  /\ CharsOf(s, w) \in [1 .. WordSize -> 0 .. 255]
         /\ \E g : Digits(g, CharsOf(s, w), WordSize) /\ Word(s, w) = g[1]
<1> DEFINE n == WordSize
           c == CharsOf(s, w)
           id == [k \in 1 .. WordSize |-> k]
           One(k, word) == At(s, (w - 1) * WordSize + k) + 256 * word
           Builds(f) == f = [t \in SUBSET DOMAIN id |->
                               IF t = {} THEN 0 ELSE LET x == Min(t) IN One(id[x], f[t \ {x}])]
           iter == CHOOSE f : Builds(f)
<1>0. n \in Nat /\ n > 0
  BY CellsAssumption
<1>1. Word(s, w) = iter[DOMAIN id]
  BY DEF Word, FoldRight, MapThenFoldSet
<1>2. DOMAIN id = 1 .. n /\ \A i \in 1 .. n : id[i] = i
  OBVIOUS
<1>3. ASSUME NEW k \in 1 .. n PROVE c[k] = At(s, (w - 1) * WordSize + k) /\ c[k] \in 0 .. 255
  <2>1. PICK i \in Nat : i = (w - 1) * WordSize + k /\ i > 0
    <3>1. (w - 1) * WordSize \in Nat
      BY <1>0
    <3> QED BY <3>1, <1>0
  <2>2. At(s, i) \in 0 .. 255
    <3>1. CASE i <= Len(s)
      <4>1. i \in 1 .. Len(s)
        BY <2>1, <3>1
      <4>2. s[i] \in 1 .. 255
        BY <4>1, ElementOfSeq
      <4> QED BY <3>1, <4>2 DEF At
    <3>2. CASE ~(i <= Len(s))
      BY <3>2 DEF At, NUL
    <3> QED BY <3>1, <3>2
  <2> QED BY <2>1, <2>2 DEF CharsOf
<1>4. c \in [1 .. n -> 0 .. 255]
  BY <1>3 DEF CharsOf
<1> HIDE DEF c
<1>5. ASSUME NEW k \in 1 .. n, NEW word \in Nat
      PROVE  One(k, word) = c[k] + 256 * word /\ One(k, word) \in Nat
  <2>1. c[k] = At(s, (w - 1) * WordSize + k) /\ c[k] \in 0 .. 255
    BY <1>3
  <2>2. One(k, word) = c[k] + 256 * word
    BY <2>1, Zenon
  <2>3. \A d \in 0 .. 255 : d + 256 * word \in Nat
    OBVIOUS
  <2> HIDE DEF One
  <2> QED BY <2>1, <2>2, <2>3
<1> HIDE DEF One, n
<1>6. Builds(iter)
  <2> DEFINE step == [i \in 1 .. n |-> [word \in Nat |-> One(i, word)]]
             pick == [t \in SUBSET (1 .. n) |-> Min(t)]
  <2>1. step \in [1 .. n -> [Nat -> Nat]] /\ \A i \in 1 .. n, word \in Nat : step[i][word] = One(i, word)
    BY <1>5
  <2>2. \A t \in SUBSET (1 .. n) : t # {} => pick[t] = Min(t) /\ pick[t] \in t
    <3> SUFFICES ASSUME NEW t \in SUBSET (1 .. n), t # {} PROVE Min(t) \in t
      OBVIOUS
    <3>1. t \in SUBSET Nat
      BY <1>0
    <3> QED BY <3>1, MinIs
  <2> HIDE DEF step, pick
  <2>f. PICK f : Folds(f, Nat, 0, n, step, pick)
    <3>1. FoldInputs(Nat, 0, n, step, pick)
      BY <1>0, <2>1, <2>2 DEF FoldInputs
    <3> QED BY <3>1, FoldIsDefined
  <2>3. /\ f \in [SUBSET (1 .. n) -> Nat]
        /\ \A t \in SUBSET (1 .. n) : f[t] = IF t = {} THEN 0 ELSE step[pick[t]][f[t \ {pick[t]}]]
    BY <2>f DEF Folds
  <2>4. ASSUME NEW t \in SUBSET (1 .. n)
        PROVE  f[t] = IF t = {} THEN 0 ELSE One(id[Min(t)], f[t \ {Min(t)}])
    <3>1. CASE t = {}
      BY <2>3, <3>1
    <3>2. CASE t # {}
      <4>1. Min(t) = pick[t] /\ pick[t] \in 1 .. n /\ t \ {pick[t]} \in SUBSET (1 .. n)
        BY <2>2, <3>2
      <4>2. f[t \ {pick[t]}] \in Nat /\ id[pick[t]] = pick[t]
        BY <1>2, <2>3, <4>1
      <4>3. step[pick[t]][f[t \ {pick[t]}]] = One(pick[t], f[t \ {pick[t]}])
        BY <2>1, <4>1, <4>2
      <4>4. f[t] = step[pick[t]][f[t \ {pick[t]}]]
        BY <2>3, <3>2
      <4> QED BY <3>2, <4>1, <4>2, <4>3, <4>4
    <3> QED BY <3>1, <3>2
  <2> HIDE DEF id
  <2>5. Builds(f)
    BY <1>2, <2>3, <2>4
  <2> HIDE DEF Builds
  <2> QED BY <2>5
<1> HIDE DEF iter, id
<1>7. \A t \in SUBSET (1 .. n) : iter[t] = IF t = {} THEN 0 ELSE One(id[Min(t)], iter[t \ {Min(t)}])
  BY <1>2, <1>6
<1> DEFINE g == [i \in 1 .. n + 1 |-> iter[i .. n]]
<1>8. ASSUME NEW i \in 1 .. n PROVE g[i] = One(i, g[i + 1])
  <2>1. i .. n \in SUBSET Nat /\ i \in i .. n /\ i .. n \in SUBSET (1 .. n) /\ i + 1 \in 1 .. n + 1 /\ i \in 1 .. n + 1
    BY <1>0
  <2>2. Min(i .. n) \in i .. n /\ Min(i .. n) <= i
    BY <2>1, MinIs
  <2>3. Min(i .. n) = i /\ (i .. n) \ {i} = i + 1 .. n /\ i .. n # {}
    BY <1>0, <2>1, <2>2
  <2>4. iter[i .. n] = One(i, iter[i + 1 .. n])
    BY <1>2, <1>7, <2>1, <2>3
  <2> QED BY <2>1, <2>4
<1>9. g[n + 1] = 0 /\ g[1] = iter[1 .. n] /\ g = [i \in 1 .. n + 1 |-> g[i]]
  <2>1. n + 1 .. n = {} /\ {} \in SUBSET (1 .. n) /\ n + 1 \in 1 .. n + 1 /\ 1 \in 1 .. n + 1
    BY <1>0
  <2>2. iter[{}] = 0
    BY <1>7, <2>1
  <2> QED BY <2>1, <2>2
<1> HIDE DEF g, Builds
<1> DEFINE Typed == {i \in Nat : i <= n => g[n + 1 - i] \in Nat}
<1>10. 0 \in Typed
  <2>1. n + 1 - 0 = n + 1
    BY <1>0
  <2> QED BY <1>9, <2>1
<1>11. ASSUME NEW i \in Typed \cap Nat PROVE i + 1 \in Typed
  <2> SUFFICES ASSUME i + 1 <= n PROVE g[n + 1 - (i + 1)] \in Nat
    OBVIOUS
  <2>1. PICK j \in 1 .. n : j = n + 1 - (i + 1) /\ j + 1 = n + 1 - i
    BY <1>0
  <2>2. g[j + 1] \in Nat
    BY <1>0, <2>1
  <2> QED BY <1>5, <1>8, <2>1, <2>2, ZenonT(40)
<1>12. ASSUME NEW i \in 1 .. n + 1 PROVE g[i] \in Nat
  <2>1. Nat \subseteq Typed
    <3> HIDE DEF Typed
    <3> QED BY <1>10, <1>11, NatIsInductive
  <2>2. n + 1 - i \in Nat /\ n + 1 - i <= n /\ n + 1 - (n + 1 - i) = i
    BY <1>0
  <2> QED BY <2>1, <2>2
<1>13. Digits(g, c, n)
  <2>1. ASSUME NEW i \in 1 .. n PROVE g[i] = c[i] + 256 * g[i + 1]
    <3>1. i + 1 \in 1 .. n + 1
      BY <1>0
    <3>2. g[i + 1] \in Nat
      BY <1>12, <3>1
    <3> QED BY <1>5, <1>8, <3>2, ZenonT(40)
  <2> QED BY <1>9, <1>12, <2>1 DEF Digits
<1> QED BY <1>1, <1>2, <1>4, <1>9, <1>13 DEF n, c

(* So the characters are found again, and a word is a cell.                *)
LEMMA CharsAreFound ==
  ASSUME NEW s \in Seq(1 .. 255), NEW w \in Nat \ {0}
  PROVE  /\ Word(s, w) \in Nat
         /\ \A m \in 0 .. WordSize - 1 : (Word(s, w) \div ipow(256, m)) % 256 = At(s, (w - 1) * WordSize + (m + 1))
<1>1. WordSize \in Nat /\ WordSize > 0
  BY CellsAssumption
<1>2. PICK g : Digits(g, CharsOf(s, w), WordSize) /\ Word(s, w) = g[1]
  BY WordIs
<1>3. CharsOf(s, w) \in [1 .. WordSize -> 0 .. 255]
  BY WordIs
<1>4. g[1] \in Nat
  BY <1>1, <1>2 DEF Digits
<1>5. ASSUME NEW m \in 0 .. WordSize - 1
      PROVE  (g[1] \div ipow(256, m)) % 256 = At(s, (w - 1) * WordSize + (m + 1))
  <2>1. (g[1] \div ipow(256, m)) % 256 = CharsOf(s, w)[m + 1]
    BY <1>1, <1>2, <1>3, DigitIs, SMTT(30)
  <2>2. m + 1 \in 1 .. WordSize
    BY <1>1
  <2> QED BY <2>1, <2>2 DEF CharsOf
<1> QED BY <1>2, <1>4, <1>5

LEMMA DivModIs ==
  ASSUME NEW x \in Nat, NEW n \in Nat, n > 0
  PROVE  /\ x \div n \in Nat /\ x % n \in 0 .. n - 1 /\ x = (x \div n) * n + (x % n)
         /\ \A y \in Nat : x <= y => x \div n <= y \div n
         /\ (x + n) \div n = x \div n + 1
<1>1. PICK q \in Nat, r \in 0 .. n - 1 : x = n * q + r
  <2>1. x \div n \in Nat /\ x % n \in 0 .. n - 1 /\ x = n * (x \div n) + (x % n)
    OBVIOUS
  <2> QED BY <2>1
<1>2. x \div n = q
  BY <1>1, DivIs
<1>3. x % n = r
  BY <1>1
<1>4. ASSUME NEW y \in Nat, x <= y PROVE q <= y \div n
  <2>1. PICK p \in Nat, t \in 0 .. n - 1 : y = n * p + t
    <3>1. y \div n \in Nat /\ y % n \in 0 .. n - 1 /\ y = n * (y \div n) + (y % n)
      OBVIOUS
    <3> QED BY <3>1
  <2>2. y \div n = p
    BY <2>1, DivIs
  <2>3. ~(q >= p + 1)
    <3> SUFFICES ASSUME q >= p + 1 PROVE FALSE
      OBVIOUS
    <3>1. n * q >= n * (p + 1)
      OBVIOUS
    <3>2. n * (p + 1) = n * p + n
      OBVIOUS
    <3> QED BY <1>1, <1>4, <2>1, <3>1, <3>2
  <2> QED BY <2>2, <2>3
<1>5. (x + n) \div n = q + 1
  <2>1. n * (q + 1) = n * q + n
    OBVIOUS
  <2>2. x + n = r + n * (q + 1) /\ q + 1 \in Nat /\ x + n \in Nat /\ r \in Nat /\ r < n
    BY <1>1, <2>1
  <2> QED BY <2>2, DivIs
<1>6. n * q = q * n
  OBVIOUS
<1> QED BY <1>1, <1>2, <1>3, <1>4, <1>5, <1>6

LEMMA WordsIs ==
  ASSUME NEW s \in Seq(1 .. 255)
  PROVE  Words(s) \in Nat \ {0} /\ \A i \in 1 .. Len(s) + 1 : (i - 1) \div WordSize < Words(s)
<1>1. WordSize \in Nat /\ WordSize > 0
  BY CellsAssumption
<1>2. Len(s) \in Nat
  OBVIOUS
<1>3. Words(s) = Len(s) \div WordSize + 1
  <2>1. Len(s) + 1 + WordSize - 1 = Len(s) + WordSize
    BY <1>1, <1>2
  <2>2. (Len(s) + WordSize) \div WordSize = Len(s) \div WordSize + 1
    BY <1>1, <1>2, DivModIs
  <2> QED BY <2>1, <2>2 DEF Words, strlen
<1>4. Len(s) \div WordSize \in Nat
  BY <1>1, <1>2, DivModIs
<1>5. ASSUME NEW i \in 1 .. Len(s) + 1 PROVE (i - 1) \div WordSize < Words(s)
  <2>1. i - 1 \in Nat /\ i - 1 <= Len(s)
    BY <1>2
  <2>2. (i - 1) \div WordSize <= Len(s) \div WordSize /\ (i - 1) \div WordSize \in Nat
    BY <1>1, <1>2, <2>1, DivModIs
  <2> QED BY <1>3, <1>4, <2>2
<1> QED BY <1>3, <1>4, <1>5

(* A string whose words are in memory is found there, with its NUL.        *)
LEMMA StringIsFound ==
  ASSUME NEW s \in Seq(1 .. 255), NEW a \in Nat, \A w \in 1 .. Words(s) : memory[a + w - 1] = Word(s, w)
  PROVE  StringIsAt(a, s)
<1>1. WordSize \in Nat /\ WordSize > 0 /\ Len(s) \in Nat
  BY CellsAssumption
<1>2. ASSUME NEW i \in 1 .. Len(s) + 1 PROVE CharFrom(a, i) = At(s, i)
  <2> DEFINE q == (i - 1) \div WordSize
             m == (i - 1) % WordSize
  <2>1. i - 1 \in Nat
    BY <1>1
  <2>2. q \in Nat /\ m \in 0 .. WordSize - 1 /\ i - 1 = q * WordSize + m
    BY <1>1, <2>1, DivModIs
  <2>3. q + 1 \in 1 .. Words(s)
    BY <2>2, WordsIs
  <2> HIDE DEF q, m
  <2>4. memory[a + q] = Word(s, q + 1)
    <3>1. a + (q + 1) - 1 = a + q
      BY <2>2
    <3> QED BY <2>3, <3>1
  <2>5. (Word(s, q + 1) \div ipow(256, m)) % 256 = At(s, ((q + 1) - 1) * WordSize + (m + 1))
    <3>1. q + 1 \in Nat \ {0}
      BY <2>2
    <3> QED BY <2>2, <3>1, CharsAreFound
  <2>6. ((q + 1) - 1) * WordSize + (m + 1) = i
    <3>1. (q + 1) - 1 = q
      BY <2>2
    <3>2. PICK z \in Nat : z = q * WordSize
      BY <1>1, <2>2
    <3>3. i - 1 = z + m
      BY <2>2, <3>2
    <3>4. z + (m + 1) = i
      BY <1>1, <2>2, <3>2, <3>3
    <3> QED BY <3>1, <3>2, <3>4
  <2>7. CharFrom(a, i) = (memory[a + q] \div ipow(256, m)) % 256
    BY DEF CharFrom, q, m
  <2> QED BY <2>4, <2>5, <2>6, <2>7
<1>3. \A i \in DOMAIN s : CharFrom(a, i) = s[i]
  BY <1>1, <1>2 DEF At
<1>4. CharFrom(a, Len(s) + 1) = NUL
  BY <1>1, <1>2 DEF At
<1> QED BY <1>3, <1>4 DEF StringIsAt

-----------------------------------------------------------------------------
(* The files of the build.                                                 *)
LEMMA EvenPieces ==
  ASSUME NEW S, NEW s \in Seq(Seq(S)), NEW k \in Nat, \A i \in 1 .. Len(s) : Len(s[i]) = k
  PROVE  \A n \in 0 .. Len(s) : Before(s, n) = k * n
<1> DEFINE Even == {n \in Nat : n <= Len(s) => Before(s, n) = k * n}
<1>1. Before(s, 0) = 0 /\ \A n \in 1 .. Len(s) : Before(s, n) = Before(s, n - 1) + Len(s[n])
  BY BeforeIs
<1>2. 0 \in Even
  <2>1. k * 0 = 0
    OBVIOUS
  <2> QED BY <1>1, <2>1
<1>3. ASSUME NEW n \in Even \cap Nat PROVE n + 1 \in Even
  <2> SUFFICES ASSUME n + 1 <= Len(s) PROVE Before(s, n + 1) = k * (n + 1)
    OBVIOUS
  <2>1. n + 1 \in 1 .. Len(s) /\ (n + 1) - 1 = n /\ Before(s, n) = k * n
    OBVIOUS
  <2>2. Before(s, n + 1) = Before(s, n) + k
    BY <1>1, <2>1
  <2>3. k * (n + 1) = k * n + k
    OBVIOUS
  <2> QED BY <2>1, <2>2, <2>3
<1>4. Nat \subseteq Even
  <2> HIDE DEF Even
  <2> QED BY <1>2, <1>3, NatIsInductive
<1> QED BY <1>4

NotePieces(song) == [n \in DOMAIN song |-> <<song[n].freq, song[n].duration>>]
SongPieces(book) == [s \in DOMAIN book |-> <<Len(book[s])>> \o FlattenSeq(NotePieces(book[s]))]

LEMMA FrequencyIs == \A f \in Frequencies : f \in Nat /\ (f # 0 => 31 <= f /\ f <= 4978)
BY DEF Frequencies

LEMMA NoteIs ==
  ASSUME NEW t \in Note
  PROVE  t.freq \in Nat /\ t.duration \in Nat /\ (t.freq # 0 => 31 <= t.freq /\ t.freq <= 4978)
<1>1. t.freq \in Frequencies /\ t.duration \in Nat
  BY DEF Note
<1> QED BY <1>1, FrequencyIs

(* A song is a cell and two for every note.                                *)
LEMMA NotesAre ==
  ASSUME NEW song \in Seq(Note)
  PROVE  /\ FlattenSeq(NotePieces(song)) \in Seq(Nat) /\ Len(FlattenSeq(NotePieces(song))) = 2 * Len(song)
         /\ \A n \in 1 .. Len(song) : /\ FlattenSeq(NotePieces(song))[2 * n - 1] = song[n].freq
                                      /\ FlattenSeq(NotePieces(song))[2 * n] = song[n].duration
<1> DEFINE p == NotePieces(song)
<1>1. \A n \in 1 .. Len(song) : song[n] \in Note /\ song[n].freq \in Nat /\ song[n].duration \in Nat
  <2> SUFFICES ASSUME NEW n \in 1 .. Len(song) PROVE song[n] \in Note /\ song[n].freq \in Nat /\ song[n].duration \in Nat
    OBVIOUS
  <2>1. song[n] \in Note
    BY ElementOfSeq
  <2> QED BY <2>1, NoteIs
<1>2. \A n \in 1 .. Len(song) : p[n] = <<song[n].freq, song[n].duration>> /\ p[n] \in Seq(Nat) /\ Len(p[n]) = 2
  BY <1>1 DEF NotePieces
<1>3. p \in Seq(Seq(Nat)) /\ Len(p) = Len(song)
  <2>1. p = [n \in 1 .. Len(song) |-> p[n]] /\ Len(song) \in Nat
    BY DEF NotePieces
  <2> HIDE DEF p
  <2>2. p \in [1 .. Len(song) -> Seq(Nat)]
    BY <1>2, <2>1
  <2> QED BY <2>1, <2>2
<1> HIDE DEF p
<1>4. \A n \in 0 .. Len(p) : Before(p, n) = 2 * n
  BY <1>2, <1>3, EvenPieces
<1>5. FlattenSeq(p) \in Seq(Nat) /\ Len(FlattenSeq(p)) = 2 * Len(song)
  <2>1. FlattenSeq(p) \in Seq(Nat)
    BY <1>3, FlattenSteps
  <2>2. Before(p, Len(p)) = Len(FlattenSeq(p))
    BY <1>3, BeforeIs
  <2>3. Len(p) \in 0 .. Len(p)
    BY <1>3
  <2> QED BY <1>3, <1>4, <2>1, <2>2, <2>3
<1>6. ASSUME NEW n \in 1 .. Len(song)
      PROVE  FlattenSeq(p)[2 * n - 1] = song[n].freq /\ FlattenSeq(p)[2 * n] = song[n].duration
  <2>1. \A c \in 1 .. Len(p[n]) : FlattenSeq(p)[Before(p, n - 1) + c] = p[n][c]
    BY <1>3, FlattenPlaces
  <2>2. Before(p, n - 1) = 2 * (n - 1) /\ n \in Nat
    BY <1>3, <1>4
  <2>3. 2 * (n - 1) + 1 = 2 * n - 1 /\ 2 * (n - 1) + 2 = 2 * n
    BY <2>2
  <2>4. 1 \in 1 .. Len(p[n]) /\ 2 \in 1 .. Len(p[n]) /\ p[n][1] = song[n].freq /\ p[n][2] = song[n].duration
    BY <1>2
  <2>5. /\ FlattenSeq(p)[2 * (n - 1) + 1] = song[n].freq
        /\ FlattenSeq(p)[2 * (n - 1) + 2] = song[n].duration
    BY <2>1, <2>2, <2>4
  <2> QED BY <2>3, <2>5
<1> QED BY <1>5, <1>6 DEF p

LEMMA CompiledIs ==
  ASSUME NEW book \in SongBooks
  PROVE  /\ SongPieces(book) \in Seq(Seq(Nat)) /\ Len(SongPieces(book)) = Len(book)
         /\ Compiled(book) = <<Len(book)>> \o FlattenSeq(SongPieces(book)) /\ Compiled(book) \in Seq(Nat)
         /\ \A s \in 1 .. Len(book) :
               /\ book[s] \in Seq(Note) /\ Len(book[s]) \in 1 .. 127
               /\ Len(SongPieces(book)[s]) = 1 + 2 * Len(book[s]) /\ SongPieces(book)[s][1] = Len(book[s])
               /\ \A n \in 1 .. Len(book[s]) : /\ SongPieces(book)[s][2 * n] = book[s][n].freq
                                               /\ SongPieces(book)[s][2 * n + 1] = book[s][n].duration
<1>1. book \in Seq(Seq(Note)) /\ Len(book) \in Nat /\ \A s \in 1 .. Len(book) : Len(book[s]) \in 1 .. 127
  BY DataAssumption
<1>2. ASSUME NEW s \in 1 .. Len(book)
      PROVE  /\ SongPieces(book)[s] \in Seq(Nat) /\ book[s] \in Seq(Note)
             /\ Len(SongPieces(book)[s]) = 1 + 2 * Len(book[s]) /\ SongPieces(book)[s][1] = Len(book[s])
             /\ \A n \in 1 .. Len(book[s]) : /\ SongPieces(book)[s][2 * n] = book[s][n].freq
                                             /\ SongPieces(book)[s][2 * n + 1] = book[s][n].duration
  <2> DEFINE song == book[s]
             notes == FlattenSeq(NotePieces(song))
             head == <<Len(song)>>
  <2>1. song \in Seq(Note)
    BY <1>1, ElementOfSeq
  <2>2. SongPieces(book)[s] = head \o notes
    BY <1>1, SMTT(30) DEF SongPieces
  <2>3. /\ notes \in Seq(Nat) /\ Len(notes) = 2 * Len(song)
        /\ \A n \in 1 .. Len(song) : notes[2 * n - 1] = song[n].freq /\ notes[2 * n] = song[n].duration
    BY <2>1, NotesAre
  <2>4. head \in Seq(Nat) /\ Len(head) = 1 /\ head[1] = Len(song) /\ Len(song) \in Nat
    BY <2>1
  <2> HIDE DEF notes, head, song
  <2>5. /\ head \o notes \in Seq(Nat) /\ Len(head \o notes) = 1 + 2 * Len(song)
        /\ \A i \in 1 .. 1 : (head \o notes)[i] = head[i]
        /\ \A i \in 1 .. 2 * Len(song) : (head \o notes)[1 + i] = notes[i]
    <3>1. /\ head \o notes \in Seq(Nat) /\ Len(head \o notes) = Len(head) + Len(notes)
          /\ \A i \in 1 .. Len(head) : (head \o notes)[i] = head[i]
          /\ \A i \in 1 .. Len(notes) : (head \o notes)[Len(head) + i] = notes[i]
      <4>1. head \in Seq(Nat) /\ notes \in Seq(Nat)
        BY <2>3, <2>4
      <4> QED BY <4>1, ConcatIs
    <3>2. Len(head) = 1 /\ Len(notes) = 2 * Len(song)
      BY <2>3, <2>4
    <3> QED BY <3>1, <3>2
  <2>6. ASSUME NEW n \in 1 .. Len(song)
        PROVE  (head \o notes)[2 * n] = song[n].freq /\ (head \o notes)[2 * n + 1] = song[n].duration
    <3>1. /\ 2 * n - 1 \in 1 .. 2 * Len(song) /\ 2 * n \in 1 .. 2 * Len(song)
          /\ 1 + (2 * n - 1) = 2 * n /\ 1 + 2 * n = 2 * n + 1
      BY <2>4
    <3>2. (head \o notes)[1 + (2 * n - 1)] = notes[2 * n - 1] /\ (head \o notes)[1 + 2 * n] = notes[2 * n]
      BY <2>5, <3>1
    <3> QED BY <2>3, <3>1, <3>2
  <2>7. (head \o notes)[1] = Len(song)
    <3>1. 1 \in 1 .. 1
      OBVIOUS
    <3> QED BY <2>4, <2>5, <3>1
  <2> QED BY <2>1, <2>2, <2>5, <2>6, <2>7 DEF song
<1>3. SongPieces(book) \in Seq(Seq(Nat)) /\ Len(SongPieces(book)) = Len(book)
  <2>1. SongPieces(book) = [s \in 1 .. Len(book) |-> SongPieces(book)[s]]
    BY <1>1 DEF SongPieces
  <2>2. SongPieces(book) \in [1 .. Len(book) -> Seq(Nat)]
    BY <1>2, <2>1
  <2> QED BY <1>1, <2>1, <2>2
<1>4. Compiled(book) = <<Len(book)>> \o FlattenSeq(SongPieces(book))
  BY DEF Compiled, SongPieces, NotePieces
<1>5. Compiled(book) \in Seq(Nat)
  <2>1. FlattenSeq(SongPieces(book)) \in Seq(Nat)
    BY <1>3, FlattenSteps
  <2>2. <<Len(book)>> \in Seq(Nat)
    BY <1>1
  <2> QED BY <1>4, <2>1, <2>2, ConcatIs
<1> QED BY <1>1, <1>2, <1>3, <1>4, <1>5

LEMMA TripleIs ==
  ASSUME NEW t \in (0 .. 255) \X (0 .. 255) \X (0 .. 255)
  PROVE  t \in Seq(Nat) /\ Len(t) = 3
<1>1. t = <<t[1], t[2], t[3]>> /\ t[1] \in Nat /\ t[2] \in Nat /\ t[3] \in Nat
  OBVIOUS
<1>2. <<t[1], t[2], t[3]>> \in Seq(Nat) /\ Len(<<t[1], t[2], t[3]>>) = 3
  BY <1>1
<1> QED BY <1>1, <1>2

(* An image is two cells and three for every pixel.                        *)
LEMMA WrittenIs ==
  ASSUME NEW img \in Images
  PROVE  /\ Written(img) \in Seq(Nat) /\ img.width \in Nat /\ img.height \in Nat
         /\ img.pixels \in Seq((0 .. 255) \X (0 .. 255) \X (0 .. 255)) /\ Len(img.pixels) = img.width * img.height
         /\ Len(Written(img)) = 2 + 3 * Len(img.pixels)
         /\ Written(img)[1] = img.width /\ Written(img)[2] = img.height
         /\ \A k \in 1 .. Len(img.pixels) : \A c \in 1 .. 3 : Written(img)[2 + 3 * (k - 1) + c] = img.pixels[k][c]
<1> DEFINE p == img.pixels
           head == <<img.width, img.height>>
           f == FlattenSeq(p)
<1>1. /\ img.width \in Nat /\ img.height \in Nat /\ Len(p) = img.width * img.height
      /\ p \in Seq((0 .. 255) \X (0 .. 255) \X (0 .. 255))
  BY DataAssumption DEF Image
<1>2. Written(img) = head \o f
  BY DEF Written
<1>3. head \in Seq(Nat) /\ Len(head) = 2 /\ head[1] = img.width /\ head[2] = img.height
  BY <1>1
<1> HIDE DEF p
<1>4. \A k \in 1 .. Len(p) : p[k] \in Seq(Nat) /\ Len(p[k]) = 3
  <2> SUFFICES ASSUME NEW k \in 1 .. Len(p) PROVE p[k] \in Seq(Nat) /\ Len(p[k]) = 3
    OBVIOUS
  <2>1. p[k] \in (0 .. 255) \X (0 .. 255) \X (0 .. 255)
    BY <1>1, ElementOfSeq
  <2> QED BY <2>1, TripleIs
<1>5. p \in Seq(Seq(Nat)) /\ Len(p) \in Nat
  <2>1. p \in [1 .. Len(p) -> Seq(Nat)] /\ Len(p) \in Nat
    BY <1>1, <1>4
  <2> QED BY <2>1
<1>6. f \in Seq(Nat)
  BY <1>5, FlattenSteps
<1>7. \A n \in 0 .. Len(p) : Before(p, n) = 3 * n
  BY <1>4, <1>5, EvenPieces
<1>8. Len(f) = 3 * Len(p)
  <2>1. Before(p, Len(p)) = Len(f)
    BY <1>5, BeforeIs
  <2>2. Len(p) \in 0 .. Len(p)
    BY <1>5
  <2> QED BY <1>7, <2>1, <2>2
<1>9. ASSUME NEW k \in 1 .. Len(p), NEW c \in 1 .. 3 PROVE f[3 * (k - 1) + c] = p[k][c] /\ 3 * (k - 1) + c \in 1 .. 3 * Len(p)
  <2>1. \A d \in 1 .. Len(p[k]) : f[Before(p, k - 1) + d] = p[k][d]
    BY <1>5, FlattenPlaces
  <2>2. Before(p, k - 1) = 3 * (k - 1)
    BY <1>5, <1>7
  <2>3. 3 * (k - 1) + c \in 1 .. 3 * Len(p)
    BY <1>5
  <2> QED BY <1>4, <2>1, <2>2, <2>3
<1> HIDE DEF head, f
<1>10. /\ head \o f \in Seq(Nat) /\ Len(head \o f) = 2 + 3 * Len(p)
       /\ \A i \in 1 .. 2 : (head \o f)[i] = head[i]
       /\ \A i \in 1 .. 3 * Len(p) : (head \o f)[2 + i] = f[i]
  <2>1. /\ head \o f \in Seq(Nat) /\ Len(head \o f) = Len(head) + Len(f)
        /\ \A i \in 1 .. Len(head) : (head \o f)[i] = head[i]
        /\ \A i \in 1 .. Len(f) : (head \o f)[Len(head) + i] = f[i]
    <3>1. head \in Seq(Nat) /\ f \in Seq(Nat)
      BY <1>3, <1>6
    <3> QED BY <3>1, ConcatIs
  <2>2. Len(head) = 2 /\ Len(f) = 3 * Len(p)
    BY <1>3, <1>8
  <2> QED BY <2>1, <2>2
<1>11. (head \o f)[1] = img.width /\ (head \o f)[2] = img.height
  <2>1. 1 \in 1 .. 2 /\ 2 \in 1 .. 2
    OBVIOUS
  <2> QED BY <1>3, <1>10, <2>1
<1>12. ASSUME NEW k \in 1 .. Len(p), NEW c \in 1 .. 3 PROVE (head \o f)[2 + 3 * (k - 1) + c] = p[k][c]
  <2>1. 2 + 3 * (k - 1) + c = 2 + (3 * (k - 1) + c)
    BY <1>5
  <2>2. (head \o f)[2 + (3 * (k - 1) + c)] = f[3 * (k - 1) + c]
    BY <1>9, <1>10
  <2> QED BY <1>9, <2>1, <2>2
<1> QED BY <1>1, <1>2, <1>10, <1>11, <1>12, ZenonT(40) DEF p

LEMMA SeqIs ==
  ASSUME NEW S, NEW n \in Nat, NEW f \in [1 .. n -> S]
  PROVE  f \in Seq(S) /\ Len(f) = n
OBVIOUS

LEMMA FilesAre ==
  ASSUME NEW ms \in Files
  PROVE  /\ Len(ms) = 3 /\ DOMAIN ms = 1 .. 3 /\ ms \in Seq(Seq(Int))
         /\ \A i \in 1 .. 3 : ms[i] \in Seq(Int) /\ Len(ms[i]) \in Nat
<1>1. PICK code \in UserCodes, book \in SongBooks, img \in Images : ms = <<code, Compiled(book), Written(img)>>
  BY DEF Files
<1>2. code \in Seq(Int) /\ Compiled(book) \in Seq(Int) /\ Written(img) \in Seq(Int)
  <2>1. Compiled(book) \in Seq(Nat) /\ Written(img) \in Seq(Nat)
    BY CompiledIs, WrittenIs
  <2>2. \A s \in Seq(Nat) : s \in Seq(Int)
    OBVIOUS
  <2> QED BY <2>1, <2>2, CellsAssumption
<1> QED BY <1>1, <1>2

(* The image: the kernel, how many modules, and each behind its size.      *)
ImagePieces(ms) == [i \in DOMAIN ms |-> write_size(ms[i]) \o ms[i]]
SizeAt(ms, i) == endOfKernelBinary + 1 + Before(ImagePieces(ms), i)

LEMMA PiecesAre ==
  ASSUME NEW ms \in Files
  PROVE  /\ ImagePieces(ms) \in Seq(Seq(Int)) /\ Len(ImagePieces(ms)) = 3
         /\ \A i \in 1 .. 3 : /\ Len(ImagePieces(ms)[i]) = 1 + Len(ms[i]) /\ ImagePieces(ms)[i][1] = Len(ms[i])
                              /\ \A c \in 1 .. Len(ms[i]) : ImagePieces(ms)[i][1 + c] = ms[i][c]
<1>1. Len(ms) = 3 /\ DOMAIN ms = 1 .. 3 /\ \A i \in 1 .. 3 : ms[i] \in Seq(Int) /\ Len(ms[i]) \in Nat
  BY FilesAre
<1>2. ASSUME NEW i \in 1 .. 3
      PROVE  /\ ImagePieces(ms)[i] \in Seq(Int)
             /\ Len(ImagePieces(ms)[i]) = 1 + Len(ms[i]) /\ ImagePieces(ms)[i][1] = Len(ms[i])
             /\ \A c \in 1 .. Len(ms[i]) : ImagePieces(ms)[i][1 + c] = ms[i][c]
  <2> DEFINE head == <<Len(ms[i])>>
             file == ms[i]
  <2>1. head \in Seq(Int) /\ Len(head) = 1 /\ head[1] = Len(file) /\ file \in Seq(Int)
    BY <1>1
  <2>2. ImagePieces(ms)[i] = head \o file
    BY <1>1 DEF ImagePieces, write_size
  <2> HIDE DEF head, file
  <2>3. /\ head \o file \in Seq(Int) /\ Len(head \o file) = Len(head) + Len(file)
        /\ \A k \in 1 .. Len(head) : (head \o file)[k] = head[k]
        /\ \A k \in 1 .. Len(file) : (head \o file)[Len(head) + k] = file[k]
    <3>1. head \in Seq(Int) /\ file \in Seq(Int)
      BY <2>1
    <3> QED BY <3>1, ConcatIs
  <2>4. 1 \in 1 .. Len(head)
    BY <2>1
  <2> QED BY <2>1, <2>2, <2>3, <2>4 DEF file
<1>3. ImagePieces(ms) = [i \in 1 .. 3 |-> ImagePieces(ms)[i]]
  BY <1>1 DEF ImagePieces
<1>4. ImagePieces(ms) \in [1 .. 3 -> Seq(Int)]
  BY <1>2, <1>3
<1>5. ImagePieces(ms) \in Seq(Seq(Int)) /\ Len(ImagePieces(ms)) = 3
  <2>1. 3 \in Nat
    OBVIOUS
  <2> DEFINE p == ImagePieces(ms)
  <2>2. p \in [1 .. 3 -> Seq(Int)]
    BY <1>4
  <2> HIDE DEF p
  <2>3. p \in Seq(Seq(Int)) /\ Len(p) = 3
    BY <2>1, <2>2, SeqIs
  <2> QED BY <2>3 DEF p
<1> QED BY <1>2, <1>5

LEMMA ImageIs ==
  ASSUME NEW ms \in Files
  PROVE  /\ buildImage(ms) \in Seq(Int) /\ endOfKernelBinary \in Nat /\ endOfKernelBinary + 1 <= Len(buildImage(ms))
         /\ \A k \in 1 .. endOfKernelBinary : buildImage(ms)[k] = Kernel[k]
         /\ buildImage(ms)[endOfKernelBinary + 1] = 3 /\ SizeAt(ms, 0) = endOfKernelBinary + 1
         /\ \A i \in 1 .. 3 :
               /\ SizeAt(ms, i - 1) \in Nat /\ SizeAt(ms, i) = SizeAt(ms, i - 1) + 1 + Len(ms[i])
               /\ SizeAt(ms, i) <= Len(buildImage(ms)) /\ buildImage(ms)[SizeAt(ms, i - 1) + 1] = Len(ms[i])
               /\ \A c \in 1 .. Len(ms[i]) : buildImage(ms)[SizeAt(ms, i - 1) + 1 + c] = ms[i][c]
<1> DEFINE p == ImagePieces(ms)
           k0 == Len(Kernel)
           f == FlattenSeq(p)
           head == Kernel \o <<3>>
<1>1. /\ p \in Seq(Seq(Int)) /\ Len(p) = 3
      /\ \A i \in 1 .. 3 : /\ Len(p[i]) = 1 + Len(ms[i]) /\ p[i][1] = Len(ms[i])
                           /\ \A c \in 1 .. Len(ms[i]) : p[i][1 + c] = ms[i][c]
  BY PiecesAre
<1>2. Len(ms) = 3 /\ \A i \in 1 .. 3 : Len(ms[i]) \in Nat
  BY FilesAre
<1>3. buildImage(ms) = head \o f
  BY <1>2 DEF buildImage, ImagePieces
<1>4. Kernel \in Seq(Int) /\ <<3>> \in Seq(Int) /\ k0 \in Nat /\ Len(<<3>>) = 1 /\ <<3>>[1] = 3
  BY CellsAssumption
<1> HIDE DEF p
<1>5. f \in Seq(Int)
  BY <1>1, FlattenSteps
<1>6. head \in Seq(Int) /\ Len(head) = k0 + 1 /\ head[k0 + 1] = 3 /\ \A k \in 1 .. k0 : head[k] = Kernel[k]
  BY <1>4
<1> HIDE DEF head, f
<1>7. /\ head \o f \in Seq(Int) /\ Len(head \o f) = Len(head) + Len(f) /\ Len(f) \in Nat
      /\ \A k \in 1 .. Len(head) : (head \o f)[k] = head[k]
      /\ \A k \in 1 .. Len(f) : (head \o f)[Len(head) + k] = f[k]
  <2>1. head \in Seq(Int) /\ f \in Seq(Int)
    BY <1>5, <1>6
  <2> QED BY <2>1, ConcatIs
<1>8. ASSUME NEW i \in 1 .. 3
      PROVE  /\ SizeAt(ms, i - 1) \in Nat /\ SizeAt(ms, i) = SizeAt(ms, i - 1) + 1 + Len(ms[i])
             /\ SizeAt(ms, i) <= k0 + 1 + Len(f) /\ (head \o f)[SizeAt(ms, i - 1) + 1] = Len(ms[i])
             /\ \A c \in 1 .. Len(ms[i]) : (head \o f)[SizeAt(ms, i - 1) + 1 + c] = ms[i][c]
  <2>1. /\ Before(p, i - 1) \in Nat /\ Before(p, i) \in Nat
        /\ Before(p, i) = Before(p, i - 1) + Len(p[i]) /\ Before(p, i) <= Len(f)
        /\ \A c \in 1 .. Len(p[i]) : f[Before(p, i - 1) + c] = p[i][c]
    <3>1. \A n \in 1 .. Len(p) :
            /\ Before(p, n - 1) \in Nat /\ Before(p, n) \in Nat
            /\ Before(p, n) = Before(p, n - 1) + Len(p[n]) /\ Before(p, n) <= Len(FlattenSeq(p))
            /\ \A c \in 1 .. Len(p[n]) : FlattenSeq(p)[Before(p, n - 1) + c] = p[n][c]
      <4>1. p \in Seq(Seq(Int))
        BY <1>1
      <4> QED BY <4>1, FlattenPlaces
    <3>2. i \in 1 .. Len(p)
      BY <1>1
    <3> QED BY <3>1, <3>2 DEF f
  <2>2. SizeAt(ms, i - 1) = k0 + 1 + Before(p, i - 1) /\ SizeAt(ms, i) = k0 + 1 + Before(p, i)
    BY DEF SizeAt, endOfKernelBinary, p
  <2>3. Len(ms[i]) \in Nat /\ Len(p[i]) = 1 + Len(ms[i])
    BY <1>1, <1>2
  <2>n. PICK a \in Nat, b \in Nat, l \in Nat, k \in Nat, n \in Nat :
           /\ a = SizeAt(ms, i - 1) /\ b = Before(p, i - 1) /\ l = Len(ms[i]) /\ k = k0 /\ n = Len(f)
           /\ a = k + 1 + b /\ b + 1 + l = Before(p, i) /\ b + 1 + l <= n /\ Len(head) = k + 1
           /\ SizeAt(ms, i) = a + 1 + l /\ a + 1 + l <= k + 1 + n
    <3>1. PICK l \in Nat : l = Len(ms[i]) /\ Len(p[i]) = 1 + l
      BY <2>3
    <3>2. PICK b \in Nat : b = Before(p, i - 1) /\ Before(p, i) = b + (1 + l) /\ b + (1 + l) <= Len(f)
      BY <2>1, <3>1
    <3>3. PICK n \in Nat : n = Len(f)
      BY <1>7
    <3>4. PICK k \in Nat : k = k0 /\ Len(head) = k + 1
      BY <1>4, <1>6
    <3>5. SizeAt(ms, i - 1) = k + 1 + b /\ SizeAt(ms, i) = k + 1 + (b + (1 + l))
      BY <2>2, <3>2, <3>4
    <3>6. PICK a \in Nat : a = SizeAt(ms, i - 1) /\ a = k + 1 + b
      BY <3>5
    <3>7. b + 1 + l = Before(p, i) /\ b + 1 + l <= n /\ SizeAt(ms, i) = a + 1 + l
      <4>1. b + (1 + l) = b + 1 + l /\ k + 1 + (b + (1 + l)) = a + 1 + l
        BY <3>6
      <4> QED BY <3>2, <3>3, <3>5, <4>1
    <3>8. a + 1 + l <= k + 1 + n
      BY <3>6, <3>7
    <3> HIDE DEF k0
    <3> QED BY <3>1, <3>2, <3>3, <3>4, <3>6, <3>7, <3>8
  <2> HIDE DEF k0
  <2>4. ASSUME NEW c \in 1 .. 1 + Len(ms[i]) PROVE (head \o f)[SizeAt(ms, i - 1) + c] = p[i][c]
    <3>1. Before(p, i - 1) + c \in 1 .. Len(f) /\ Len(head) + (Before(p, i - 1) + c) = SizeAt(ms, i - 1) + c
      <4>1. a = k + 1 + b /\ b + 1 + l <= n /\ c \in 1 .. 1 + l
        BY <2>n
      <4>2. b + c \in 1 .. n /\ (k + 1) + (b + c) = a + c
        BY <4>1
      <4> QED BY <2>n, <4>2
    <3>2. (head \o f)[Len(head) + (Before(p, i - 1) + c)] = f[Before(p, i - 1) + c]
      BY <1>7, <3>1
    <3> QED BY <2>1, <2>3, <3>1, <3>2
  <2>5. (head \o f)[SizeAt(ms, i - 1) + 1] = Len(ms[i])
    <3>1. 1 \in 1 .. 1 + Len(ms[i])
      BY <2>3
    <3> QED BY <1>1, <2>4, <3>1
  <2>6. ASSUME NEW c \in 1 .. Len(ms[i]) PROVE (head \o f)[SizeAt(ms, i - 1) + 1 + c] = ms[i][c]
    <3>1. 1 + c \in 1 .. 1 + Len(ms[i]) /\ SizeAt(ms, i - 1) + (1 + c) = SizeAt(ms, i - 1) + 1 + c
      <4>1. c \in 1 .. l
        BY <2>n
      <4>2. 1 + c \in 1 .. 1 + l /\ a + (1 + c) = a + 1 + c
        BY <4>1
      <4> QED BY <2>n, <4>2
    <3> QED BY <1>1, <2>4, <3>1
  <2>7. SizeAt(ms, i) = SizeAt(ms, i - 1) + 1 + Len(ms[i]) /\ SizeAt(ms, i - 1) \in Nat
        /\ SizeAt(ms, i) <= k0 + 1 + Len(f)
    BY <2>n
  <2> QED BY <2>5, <2>6, <2>7
<1>9. SizeAt(ms, 0) = k0 + 1
  BY <1>1, <1>4, BeforeIs DEF SizeAt, endOfKernelBinary, p
<1>10. (head \o f)[k0 + 1] = 3 /\ \A k \in 1 .. k0 : (head \o f)[k] = Kernel[k]
  BY <1>4, <1>6, <1>7
<1>11. endOfKernelBinary = k0
  BY DEF endOfKernelBinary
<1>12. Len(head \o f) = k0 + 1 + Len(f) /\ k0 + 1 <= Len(head \o f)
  BY <1>4, <1>6, <1>7
<1> HIDE DEF k0
<1> QED BY <1>3, <1>4, <1>7, <1>8, <1>9, <1>10, <1>11, <1>12

LEMMA LayoutIs ==
  ASSUME NEW ms \in Files
  PROVE  /\ ModuleAddr[1] \in Nat /\ ModuleAddr[2] \in Nat /\ ModuleAddr[3] \in Nat
         /\ endOfKernelBinary \in Nat /\ endOfKernel \in Nat /\ endOfBinary \in Nat
         /\ endOfKernelBinary < endOfKernel /\ endOfKernel <= ModuleAddr[1] /\ Len(buildImage(ms)) <= ModuleAddr[1]
         /\ ModuleAddr[1] + Len(ms[1]) <= endOfBinary /\ endOfBinary <= ModuleAddr[2]
         /\ ModuleAddr[2] + Len(ms[2]) <= ModuleAddr[3] /\ ModuleAddr[3] + Len(ms[3]) <= StackPage
         /\ StackPage \in Nat /\ PAGE_SIZE \in Nat /\ MemoryEnd = StackPage + PAGE_SIZE
<1>1. \A i \in 1 .. 3 : Len(ms[i]) \in Nat
  BY FilesAre
<1>2. ModuleAddr[1] \in Nat /\ ModuleAddr[2] \in Nat /\ ModuleAddr[3] \in Nat
  <2>1. ModuleAddr \in Seq(Nat) /\ Len(ModuleAddr) = 3
    BY CellsAssumption
  <2>2. \A i \in 1 .. 3 : ModuleAddr[i] \in Nat
    BY <2>1, ElementOfSeq
  <2> QED BY <2>2
<1>3. /\ endOfKernel \in Nat /\ endOfBinary \in Nat /\ STACK_POSITION \in Nat /\ PAGE_SIZE \in Nat
      /\ KernelPages \in Nat /\ endOfKernelBinary \in Nat
  BY CellsAssumption DEF endOfKernelBinary
<1>4. /\ endOfKernelBinary < endOfKernel /\ endOfKernel <= ModuleAddr[1]
      /\ Len(buildImage(ms)) <= ModuleAddr[1]
      /\ Len(ms[1]) <= endOfBinary - ModuleAddr[1] /\ endOfBinary <= ModuleAddr[2]
      /\ ModuleAddr[2] + Len(ms[2]) <= ModuleAddr[3]
      /\ ModuleAddr[3] + Len(ms[3]) <= STACK_POSITION
  BY LayoutAssumption
<1>5. PICK z \in Nat : z = KernelPages * PAGE_SIZE
  BY <1>3
<1>6. (KernelPages + 1) * PAGE_SIZE = z + PAGE_SIZE
  BY <1>3, <1>5
<1>7. StackPage = STACK_POSITION + z /\ MemoryEnd = STACK_POSITION + (z + PAGE_SIZE)
  BY <1>5, <1>6 DEF StackPage, MemoryEnd
<1>8. PICK a1 \in Nat, a2 \in Nat, a3 \in Nat, l1 \in Nat, l2 \in Nat, l3 \in Nat :
         /\ a1 = ModuleAddr[1] /\ a2 = ModuleAddr[2] /\ a3 = ModuleAddr[3]
         /\ l1 = Len(ms[1]) /\ l2 = Len(ms[2]) /\ l3 = Len(ms[3])
  <2>1. 1 \in 1 .. 3 /\ 2 \in 1 .. 3 /\ 3 \in 1 .. 3
    OBVIOUS
  <2> QED BY <1>1, <1>2, <2>1
<1>9. a1 + l1 <= endOfBinary /\ a3 + l3 <= STACK_POSITION + z
  <2>1. l1 <= endOfBinary - a1 /\ a3 + l3 <= STACK_POSITION
    BY <1>4, <1>8
  <2> QED BY <1>3, <2>1
<1>10. StackPage \in Nat /\ MemoryEnd = StackPage + PAGE_SIZE
  BY <1>3, <1>7
<1> QED BY <1>3, <1>4, <1>7, <1>8, <1>9, <1>10

-----------------------------------------------------------------------------
(* The arguments in words, and where each is among them.                   *)
ArgWords(vector) == [i \in DOMAIN vector |-> InWords(vector[i])]

LEMMA ArgumentsAre ==
  ASSUME NEW vector \in ArgVectors
  PROVE  /\ vector \in Seq(Seq(1 .. 255)) /\ Len(vector) \in Nat \ {0}
         /\ ArgWords(vector) \in Seq(Seq(Nat)) /\ Len(ArgWords(vector)) = Len(vector)
         /\ StringWords(vector) = FlattenSeq(ArgWords(vector)) /\ StringWords(vector) \in Seq(Nat)
         /\ \A i \in 1 .. Len(vector) :
               /\ vector[i] \in Seq(1 .. 255) /\ Len(ArgWords(vector)[i]) = Words(vector[i])
               /\ \A w \in 1 .. Words(vector[i]) : ArgWords(vector)[i][w] = Word(vector[i], w)
               /\ StringWords(SubSeq(vector, 1, i - 1)) = FlattenSeq(Prefix(ArgWords(vector), i - 1))
<1>1. vector \in Seq(Seq(1 .. 255)) /\ vector # <<>>
  BY ArgumentsAssumption
<1>2. Len(vector) \in Nat \ {0} /\ DOMAIN vector = 1 .. Len(vector)
  BY <1>1
<1>3. PICK n \in Nat : n = Len(vector) /\ DOMAIN vector = 1 .. n
  BY <1>2
<1>4. ASSUME NEW i \in 1 .. n
      PROVE  /\ vector[i] \in Seq(1 .. 255) /\ InWords(vector[i]) \in Seq(Nat) /\ Len(InWords(vector[i])) = Words(vector[i])
             /\ \A w \in 1 .. Words(vector[i]) : InWords(vector[i])[w] = Word(vector[i], w)
  <2>1. vector[i] \in Seq(1 .. 255)
    BY <1>1, <1>3, ElementOfSeq
  <2>2. Words(vector[i]) \in Nat
    BY <2>1, WordsIs
  <2>3. PICK l \in Nat : l = Words(vector[i])
    BY <2>2
  <2>4. \A w \in 1 .. l : Word(vector[i], w) \in Nat
    <3>1. \A w \in 1 .. l : w \in Nat \ {0}
      OBVIOUS
    <3> QED BY <2>1, <3>1, CharsAreFound
  <2>5. InWords(vector[i]) = [w \in 1 .. l |-> Word(vector[i], w)]
    BY <2>3 DEF InWords
  <2>6. InWords(vector[i]) \in [1 .. l -> Nat]
    BY <2>4, <2>5
  <2>7. InWords(vector[i]) \in Seq(Nat) /\ Len(InWords(vector[i])) = l
    BY <2>6, SeqIs
  <2> QED BY <2>1, <2>3, <2>5, <2>7
<1>5. ArgWords(vector) = [i \in 1 .. n |-> InWords(vector[i])]
  BY <1>3 DEF ArgWords
<1>6. ArgWords(vector) \in [1 .. n -> Seq(Nat)]
  BY <1>4, <1>5
<1>7. ArgWords(vector) \in Seq(Seq(Nat)) /\ Len(ArgWords(vector)) = n
  BY <1>6, SeqIs
<1>8. StringWords(vector) = FlattenSeq(ArgWords(vector))
  BY DEF StringWords, ArgWords
<1>9. StringWords(vector) \in Seq(Nat)
  BY <1>7, <1>8, FlattenSteps
<1>10. ASSUME NEW i \in 1 .. n
       PROVE  StringWords(SubSeq(vector, 1, i - 1)) = FlattenSeq(Prefix(ArgWords(vector), i - 1))
  <2> DEFINE short == SubSeq(vector, 1, i - 1)
  <2>1. Len(short) = i - 1 /\ DOMAIN short = 1 .. i - 1 /\ \A j \in 1 .. i - 1 : short[j] = vector[j]
    BY <1>1, <1>3
  <2>2. \A j \in 1 .. i - 1 : j \in 1 .. n
    OBVIOUS
  <2> HIDE DEF short
  <2>3. [j \in DOMAIN short |-> InWords(short[j])] = Prefix(ArgWords(vector), i - 1)
    BY <1>5, <2>1, <2>2 DEF Prefix
  <2>4. StringWords(short) = FlattenSeq(Prefix(ArgWords(vector), i - 1))
    BY <2>3 DEF StringWords
  <2> QED BY <2>4 DEF short
<1> QED BY <1>1, <1>2, <1>3, <1>4, <1>5, <1>7, <1>8, <1>9, <1>10

(* What initializeStack pushes, from the lowest address on.                *)
FrameHead == Registers \o InterruptFrame \o ReturnAndRBP

Joined(c, a, m, b, k) ==
    /\ c \in Seq(Int) /\ Len(c) = k
    /\ \A i \in 1 .. k : c[i] = IF i <= m THEN a[i] ELSE b[i - m]

LEMMA JoinIs ==
  ASSUME NEW a \in Seq(Int), NEW b \in Seq(Int), NEW m \in Nat, NEW n \in Nat, Len(a) = m, Len(b) = n
  PROVE  Joined(a \o b, a, m, b, m + n)
BY SMTT(30) DEF Joined

LEMMA FrameIs ==
  ASSUME args \in ArgVectors, ArgvAt \in Int
  PROVE  /\ FrameHead \in Seq(Int) /\ Len(FrameHead) = 24
         /\ FrameHead[11] = ArgvAt /\ FrameHead[12] = Len(args) /\ FrameHead[18] = ModuleAddr[1] /\ FrameHead[21] = ArgvAt - 2
<1> DEFINE mid == <<ArgvAt, Len(args)>>
           low == Zeros(10) \o mid
           two == Registers \o InterruptFrame
<1>1. Zeros(10) \in Seq(Int) /\ Len(Zeros(10)) = 10 /\ Zeros(5) \in Seq(Int) /\ Len(Zeros(5)) = 5
      /\ Zeros(2) \in Seq(Int) /\ Len(Zeros(2)) = 2
  BY DEF Zeros
<1>2. Len(args) \in Nat /\ ModuleAddr[1] \in Nat
  <2>1. ModuleAddr \in Seq(Nat) /\ Len(ModuleAddr) = 3
    BY CellsAssumption
  <2>2. \A i \in 1 .. 3 : ModuleAddr[i] \in Nat
    BY <2>1, ElementOfSeq
  <2>3. Len(args) \in Nat
    BY ArgumentsAre
  <2> QED BY <2>2, <2>3
<1>3. mid \in Seq(Int) /\ Len(mid) = 2 /\ mid[1] = ArgvAt /\ mid[2] = Len(args)
  BY <1>2
<1> HIDE DEF mid
<1>4. low \in Seq(Int) /\ Len(low) = 12 /\ low[11] = ArgvAt /\ low[12] = Len(args)
  <2>1. Joined(low, Zeros(10), 10, mid, 12)
    <3>1. 10 \in Nat /\ 2 \in Nat /\ 10 + 2 = 12
      OBVIOUS
    <3> QED BY <1>1, <1>3, <3>1, JoinIs
  <2> HIDE DEF low
  <2> QED BY <1>3, <2>1 DEF Joined
<1> HIDE DEF low
<1>5. Registers = low \o Zeros(5)
  BY DEF Registers, low, mid
<1>6. Registers \in Seq(Int) /\ Len(Registers) = 17 /\ Registers[11] = ArgvAt /\ Registers[12] = Len(args)
  <2>1. Joined(low \o Zeros(5), low, 12, Zeros(5), 17)
    <3>1. 12 \in Nat /\ 5 \in Nat /\ 12 + 5 = 17
      OBVIOUS
    <3> QED BY <1>1, <1>4, <3>1, JoinIs
  <2>2. Joined(Registers, low, 12, Zeros(5), 17)
    BY <1>5, <2>1
  <2> QED BY <1>4, <2>2 DEF Joined
<1>7. RSP \in Int /\ RSP = ArgvAt - 2
  <2>1. RSP = ArgvAt - 2
    BY <1>1 DEF RSP, ReturnAndRBP
  <2> QED BY <2>1
<1>8. InterruptFrame \in Seq(Int) /\ Len(InterruptFrame) = 5
      /\ InterruptFrame[1] = ModuleAddr[1] /\ InterruptFrame[4] = ArgvAt - 2
  BY <1>2, <1>7 DEF InterruptFrame, Entry
<1>9. two \in Seq(Int) /\ Len(two) = 22 /\ two[11] = ArgvAt /\ two[12] = Len(args)
      /\ two[18] = ModuleAddr[1] /\ two[21] = ArgvAt - 2
  <2>1. Joined(two, Registers, 17, InterruptFrame, 22)
    <3>1. 17 \in Nat /\ 5 \in Nat /\ 17 + 5 = 22
      OBVIOUS
    <3> QED BY <1>6, <1>8, <3>1, JoinIs
  <2> HIDE DEF two
  <2>2. two \in Seq(Int) /\ Len(two) = 22 /\ \A i \in 1 .. 22 : two[i] = IF i <= 17 THEN Registers[i] ELSE InterruptFrame[i - 17]
    BY <2>1 DEF Joined
  <2>3. two[11] = Registers[11] /\ two[12] = Registers[12]
    BY <2>2
  <2>4. two[18] = InterruptFrame[1] /\ two[21] = InterruptFrame[4]
    BY <2>2
  <2> QED BY <1>6, <1>8, <2>2, <2>3, <2>4
<1> HIDE DEF two
<1>10. FrameHead = two \o Zeros(2)
  BY DEF FrameHead, two, ReturnAndRBP
<1>11. Joined(FrameHead, two, 22, Zeros(2), 24)
  <2>1. 22 \in Nat /\ 2 \in Nat /\ 22 + 2 = 24
    OBVIOUS
  <2>2. Joined(two \o Zeros(2), two, 22, Zeros(2), 24)
    BY <1>1, <1>9, <2>1, JoinIs
  <2> QED BY <1>10, <2>2
<1> QED BY <1>9, <1>11 DEF Joined

(* In front of the strings, whose place is fixed by their length and that  *)
(* of the page, are the pointers to them.                                  *)
LEMMA PushedIs ==
  ASSUME args \in ArgVectors, userStackTop \in Nat, userStackTop >= PAGE_SIZE
  PROVE  LET count == Len(args)
             words == Len(StringWords(args))
         IN /\ count \in Nat \ {0} /\ words \in Nat /\ 24 + count + 1 + words + 1 <= PAGE_SIZE
            /\ Pushed \in Seq(Int) /\ Len(Pushed) = 24 + count + 1 + words + 1
            /\ StringsAt = userStackTop - (words + 1) /\ ArgvAt = userStackTop - (words + 1) - (count + 1)
            /\ Pushed[11] = ArgvAt /\ Pushed[12] = count /\ Pushed[18] = ModuleAddr[1] /\ Pushed[21] = ArgvAt - 2
            /\ \A i \in 1 .. count : Pushed[24 + i] = PointerTo(i)
            /\ Pushed[24 + count + 1] = 0
            /\ \A k \in 1 .. words : Pushed[24 + count + 1 + k] = StringWords(args)[k]
<1>1. /\ Len(args) \in Nat \ {0} /\ DOMAIN args = 1 .. Len(args)
      /\ StringWords(args) \in Seq(Nat) /\ Len(StringWords(args)) \in Nat
      /\ 24 + Len(args) + 1 + Len(StringWords(args)) + 1 <= PAGE_SIZE
  BY ArgumentsAre, ArgumentsAssumption
<1>2. PICK n \in Nat \ {0}, l \in Nat : n = Len(args) /\ DOMAIN args = 1 .. n /\ l = Len(StringWords(args))
  BY <1>1
<1>3. Strings = StringWords(args) \o <<0>>
  BY DEF Strings
<1>4. /\ Strings \in Seq(Int) /\ Len(Strings) = l + 1
      /\ \A k \in 1 .. l : Strings[k] = StringWords(args)[k]
  <2>1. StringWords(args) \in Seq(Int) /\ <<0>> \in Seq(Int) /\ Len(<<0>>) = 1
    BY <1>1
  <2>2. PICK a \in Seq(Int) : a = StringWords(args)
    BY <2>1
  <2>3. a \o <<0>> \in Seq(Int) /\ Len(a \o <<0>>) = Len(a) + 1 /\ \A k \in 1 .. Len(a) : (a \o <<0>>)[k] = a[k]
    BY <2>1, ConcatIs
  <2> QED BY <1>2, <1>3, <2>2, <2>3
<1>5. StringsAt = userStackTop - (l + 1)
  BY <1>4 DEF StringsAt
<1>6. ASSUME NEW i \in 1 .. n PROVE PointerTo(i) \in Int
  <2>1. Before(ArgWords(args), i - 1) \in Nat
    <3>1. ArgWords(args) \in Seq(Seq(Nat)) /\ i - 1 \in 0 .. Len(ArgWords(args))
      BY <1>2, ArgumentsAre
    <3> QED BY <3>1, BeforeIs
  <2>2. Len(StringWords(SubSeq(args, 1, i - 1))) = Before(ArgWords(args), i - 1)
    BY <1>2, ArgumentsAre DEF Before
  <2>3. PICK d \in Nat : d = Len(StringWords(SubSeq(args, 1, i - 1)))
    BY <2>1, <2>2
  <2>4. PointerTo(i) = StringsAt + d
    BY <2>3 DEF PointerTo
  <2> QED BY <1>5, <2>4
<1> DEFINE to == [i \in 1 .. n |-> PointerTo(i)]
<1>7. to \in Seq(Int) /\ Len(to) = n /\ \A i \in 1 .. n : to[i] = PointerTo(i)
  BY <1>6
<1>8. Pointers = to \o <<0>>
  BY <1>2 DEF Pointers
<1> HIDE DEF to
<1>9. /\ Pointers \in Seq(Int) /\ Len(Pointers) = n + 1 /\ Pointers[n + 1] = 0
      /\ \A i \in 1 .. n : Pointers[i] = PointerTo(i)
  <2>1. <<0>> \in Seq(Int) /\ Len(<<0>>) = 1 /\ <<0>>[1] = 0
    OBVIOUS
  <2>2. /\ to \o <<0>> \in Seq(Int) /\ Len(to \o <<0>>) = Len(to) + Len(<<0>>)
        /\ \A i \in 1 .. Len(to) : (to \o <<0>>)[i] = to[i]
        /\ \A i \in 1 .. Len(<<0>>) : (to \o <<0>>)[Len(to) + i] = <<0>>[i]
    BY <1>7, <2>1, ConcatIs
  <2>3. 1 \in 1 .. Len(<<0>>)
    OBVIOUS
  <2> QED BY <1>7, <1>8, <2>1, <2>2, <2>3
<1>10. ArgvAt = userStackTop - (l + 1) - (n + 1) /\ ArgvAt \in Int
  BY <1>5, <1>9 DEF ArgvAt
<1>11. /\ FrameHead \in Seq(Int) /\ Len(FrameHead) = 24
       /\ FrameHead[11] = ArgvAt /\ FrameHead[12] = n /\ FrameHead[18] = ModuleAddr[1] /\ FrameHead[21] = ArgvAt - 2
  BY <1>2, <1>10, FrameIs
<1> DEFINE front == FrameHead \o Pointers
<1>12. /\ front \in Seq(Int) /\ Len(front) = 24 + (n + 1)
       /\ \A i \in 1 .. 24 : front[i] = FrameHead[i]
       /\ \A i \in 1 .. n + 1 : front[24 + i] = Pointers[i]
  <2>1. FrameHead \in Seq(Int) /\ Pointers \in Seq(Int)
    BY <1>9, <1>11
  <2>2. /\ FrameHead \o Pointers \in Seq(Int) /\ Len(FrameHead \o Pointers) = Len(FrameHead) + Len(Pointers)
        /\ \A i \in 1 .. Len(FrameHead) : (FrameHead \o Pointers)[i] = FrameHead[i]
        /\ \A i \in 1 .. Len(Pointers) : (FrameHead \o Pointers)[Len(FrameHead) + i] = Pointers[i]
    BY <2>1, ConcatIs
  <2> QED BY <1>9, <1>11, <2>2
<1>13. Pushed = front \o Strings
  BY DEF Pushed, FrameHead
<1> HIDE DEF front
<1>14. /\ Pushed \in Seq(Int) /\ Len(Pushed) = 24 + (n + 1) + (l + 1)
       /\ \A i \in 1 .. 24 + (n + 1) : Pushed[i] = front[i]
       /\ \A k \in 1 .. l + 1 : Pushed[24 + (n + 1) + k] = Strings[k]
  <2>1. front \in Seq(Int) /\ Strings \in Seq(Int)
    BY <1>4, <1>12
  <2>2. /\ front \o Strings \in Seq(Int) /\ Len(front \o Strings) = Len(front) + Len(Strings)
        /\ \A i \in 1 .. Len(front) : (front \o Strings)[i] = front[i]
        /\ \A i \in 1 .. Len(Strings) : (front \o Strings)[Len(front) + i] = Strings[i]
    BY <2>1, ConcatIs
  <2> QED BY <1>4, <1>12, <1>13, <2>2
<1>15. \A i \in 1 .. 24 : Pushed[i] = FrameHead[i]
  <2>1. \A i \in 1 .. 24 : i \in 1 .. 24 + (n + 1)
    OBVIOUS
  <2> QED BY <1>12, <1>14, <2>1
<1>16. \A i \in 1 .. n + 1 : Pushed[24 + i] = Pointers[i]
  <2>1. \A i \in 1 .. n + 1 : 24 + i \in 1 .. 24 + (n + 1)
    OBVIOUS
  <2> QED BY <1>12, <1>14, <2>1
<1>17. Pushed[11] = ArgvAt /\ Pushed[12] = n /\ Pushed[18] = ModuleAddr[1] /\ Pushed[21] = ArgvAt - 2
  BY <1>11, <1>15, SMTT(30)
<1>18. (\A i \in 1 .. n : Pushed[24 + i] = PointerTo(i)) /\ Pushed[24 + n + 1] = 0
  <2>1. (\A i \in 1 .. n : i \in 1 .. n + 1) /\ n + 1 \in 1 .. n + 1 /\ 24 + (n + 1) = 24 + n + 1
    OBVIOUS
  <2> QED BY <1>9, <1>16, <2>1
<1>19. \A k \in 1 .. l : Pushed[24 + n + 1 + k] = StringWords(args)[k]
  <2>1. \A k \in 1 .. l : k \in 1 .. l + 1 /\ 24 + (n + 1) + k = 24 + n + 1 + k
    OBVIOUS
  <2> QED BY <1>4, <1>14, <2>1
<1>20. Len(Pushed) = 24 + n + 1 + l + 1
  BY <1>14
<1> QED BY <1>1, <1>2, <1>5, <1>10, <1>14, <1>17, <1>18, <1>19, <1>20

-----------------------------------------------------------------------------
(* The inductive invariant.  What there is on this run never changes;      *)
Given ==
    /\ songs \in SongBooks /\ image \in Images /\ args \in ArgVectors /\ number \in Numbers
    /\ \E code \in UserCodes : modules = <<code, Compiled(songs), Written(image)>>

Started == {"init_d", "running"}
Shape ==
    /\ stage \in {"loadModules", "kernel_main", "addProcess", "dispatch"} \cup Started
    /\ memory \in [0 .. MemoryEnd - 1 -> Int] /\ moduleCount = 3 /\ loaded \in 0 .. 3
    /\ stage # "loadModules" => loaded = 3
    /\ stage = "addProcess" => userStackTop = StackPage + PAGE_SIZE

(* while modules are loaded the image is whole, and the loader stands at   *)
(* the size of the next one;                                               *)
ImageStands ==
    stage = "loadModules" =>
       /\ currentModule = SizeAt(modules, loaded)
       /\ \A a \in 0 .. Len(buildImage(modules)) - 1 : memory[a] = buildImage(modules)[a + 1]

(* once the stack is built, it lies in its page, with the values that are  *)
(* popped, and every pointer leads to the words of its argument;           *)
PointsTo(p, s) ==
    /\ p \in Nat /\ StackPage <= p /\ p + Words(s) <= MemoryEnd
    /\ \A w \in 1 .. Words(s) : memory[p + w - 1] = Word(s, w)
StackIsBuilt ==
    stage \in {"dispatch"} \cup Started =>
       /\ userStackTop \in Nat /\ StackPage <= userStackTop /\ userStackTop + 24 + Len(args) < MemoryEnd
       /\ memory[userStackTop + 10] = userStackTop + 24 /\ memory[userStackTop + 11] = Len(args)
       /\ memory[userStackTop + 17] = Entry /\ memory[userStackTop + 20] = userStackTop + 22
       /\ memory[userStackTop + 24 + Len(args)] = 0
       /\ \A i \in 1 .. Len(args) : PointsTo(memory[userStackTop + 24 + i - 1], args[i])

(* and the first process has been given them.                              *)
RegistersAre ==
    regs = IF stage \in Started
           THEN [rsi |-> userStackTop + 24, rdi |-> Len(args), rip |-> Entry, rsp |-> userStackTop + 22]
           ELSE <<>>

BootInv == Given /\ Shape /\ ImageStands /\ StackIsBuilt /\ RegistersAre /\ MachineIsReady

LEMMA GivenFiles == Given => modules \in Files
<1> SUFFICES ASSUME Given PROVE modules \in Files
  OBVIOUS
<1>1. PICK code \in UserCodes : modules = <<code, Compiled(songs), Written(image)>>
  BY DEF Given
<1>2. songs \in SongBooks /\ image \in Images
  BY DEF Given
<1> QED BY <1>1, <1>2 DEF Files

(* The kernel, the modules and the pages lie one behind the other.         *)
LEMMA PlacesAre ==
  ASSUME NEW ms \in Files
  PROVE  /\ \A i \in 1 .. 3 :
               /\ ModuleAddr[i] \in Nat /\ Len(ms[i]) \in Nat /\ DOMAIN ms[i] = 1 .. Len(ms[i])
               /\ endOfKernelBinary < ModuleAddr[i] /\ endOfKernel <= ModuleAddr[i]
               /\ Len(buildImage(ms)) <= ModuleAddr[i] /\ ModuleAddr[i] + Len(ms[i]) <= StackPage
         /\ \A i, j \in 1 .. 3 : i < j => ModuleAddr[i] + Len(ms[i]) <= ModuleAddr[j]
         /\ \A i \in 2 .. 3 : endOfBinary <= ModuleAddr[i]
<1>1. \A i \in 1 .. 3 : Len(ms[i]) \in Nat /\ DOMAIN ms[i] = 1 .. Len(ms[i])
  BY FilesAre
<1>2. PICK a1 \in Nat, a2 \in Nat, a3 \in Nat, l1 \in Nat, l2 \in Nat, l3 \in Nat :
         /\ a1 = ModuleAddr[1] /\ a2 = ModuleAddr[2] /\ a3 = ModuleAddr[3]
         /\ l1 = Len(ms[1]) /\ l2 = Len(ms[2]) /\ l3 = Len(ms[3])
  <2>1. 1 \in 1 .. 3 /\ 2 \in 1 .. 3 /\ 3 \in 1 .. 3
    OBVIOUS
  <2> QED BY <1>1, <2>1, LayoutIs
<1>3. PICK b \in Nat, k \in Nat, e \in Nat, s \in Nat, z \in Nat :
         b = endOfKernelBinary /\ k = endOfKernel /\ e = endOfBinary /\ s = StackPage /\ z = Len(buildImage(ms))
  <2>1. Len(buildImage(ms)) \in Nat
    BY ImageIs
  <2> QED BY <2>1, LayoutIs
<1>4. b < k /\ k <= a1 /\ z <= a1 /\ a1 + l1 <= e /\ e <= a2 /\ a2 + l2 <= a3 /\ a3 + l3 <= s
  BY <1>2, <1>3, LayoutIs
<1> DEFINE addr == [i \in 1 .. 3 |-> IF i = 1 THEN a1 ELSE IF i = 2 THEN a2 ELSE a3]
           len == [i \in 1 .. 3 |-> IF i = 1 THEN l1 ELSE IF i = 2 THEN l2 ELSE l3]
<1>5. /\ \A i \in 1 .. 3 : addr[i] \in Nat /\ len[i] \in Nat /\ b < addr[i] /\ k <= addr[i] /\ z <= addr[i] /\ addr[i] + len[i] <= s
      /\ \A i, j \in 1 .. 3 : i < j => addr[i] + len[i] <= addr[j]
      /\ \A i \in 2 .. 3 : e <= addr[i]
  BY <1>4
<1>6. \A i \in 1 .. 3 : addr[i] = ModuleAddr[i] /\ len[i] = Len(ms[i])
  BY <1>2
<1> HIDE DEF addr, len
<1>7. \A i \in 2 .. 3 : i \in 1 .. 3
  OBVIOUS
<1> QED BY <1>1, <1>3, <1>5, <1>6, <1>7

LEMMA BootInit == Init => BootInv
<1> SUFFICES ASSUME Init PROVE BootInv
  OBVIOUS
<1>1. Given
  BY DEF Init, Given
<1>2. modules \in Files
  BY <1>1, GivenFiles
<1> DEFINE img == buildImage(modules)
<1>3. PICK b \in Nat, l \in Nat, e \in Nat :
         /\ b = endOfKernelBinary /\ l = Len(img) /\ e = MemoryEnd /\ b + 1 <= l /\ l <= e
         /\ img \in Seq(Int) /\ img[b + 1] = 3 /\ SizeAt(modules, 0) = b + 1
         /\ \A k \in 1 .. b : img[k] = Kernel[k]
  <2>1. PICK s \in Nat, p \in Nat, a \in Nat : s = StackPage /\ p = PAGE_SIZE /\ a = ModuleAddr[1] /\ MemoryEnd = s + p
    BY <1>2, LayoutIs
  <2>2. Len(img) <= a /\ a <= s
    <3>1. 1 \in 1 .. 3
      OBVIOUS
    <3>2. ModuleAddr[1] \in Nat /\ Len(modules[1]) \in Nat /\ Len(img) <= ModuleAddr[1] /\ ModuleAddr[1] + Len(modules[1]) <= StackPage
      BY <1>2, <3>1, PlacesAre
    <3> QED BY <2>1, <3>2
  <2>3. Len(img) \in Nat /\ endOfKernelBinary \in Nat
    BY <1>2, ImageIs
  <2>4. Len(img) <= s + p
    BY <2>1, <2>2, <2>3
  <2> QED BY <1>2, <2>1, <2>3, <2>4, ImageIs
<1> HIDE DEF img
<1>4. memory = [a \in 0 .. e - 1 |-> IF a < l THEN img[a + 1] ELSE Garbage]
  BY <1>3 DEF Init, Loaded, img
<1>5. \A a \in 0 .. l - 1 : img[a + 1] \in Int /\ a \in 0 .. e - 1 /\ a < l
  BY <1>3
<1>6. \A a \in 0 .. l - 1 : memory[a] = img[a + 1]
  BY <1>4, <1>5
<1>7. memory \in [0 .. e - 1 -> Int]
  <2>1. Garbage \in Int
    BY DEF Garbage
  <2> QED BY <1>3, <1>4, <1>5, <2>1
<1>8. memory[b] = 3 /\ \A a \in 0 .. b - 1 : memory[a] = Kernel[a + 1]
  <2>1. b \in 0 .. l - 1 /\ \A a \in 0 .. b - 1 : a \in 0 .. l - 1 /\ a + 1 \in 1 .. b
    BY <1>3
  <2> QED BY <1>3, <1>6, <2>1
<1>9. Shape
  <2>1. stage = "loadModules" /\ moduleCount = memory[endOfKernelBinary] /\ loaded = 0
    BY DEF Init
  <2>2. memory \in [0 .. MemoryEnd - 1 -> Int] /\ moduleCount = 3
    BY <1>3, <1>7, <1>8, <2>1
  <2> QED BY <2>1, <2>2 DEF Shape
<1>10. ImageStands
  BY <1>3, <1>6 DEF Init, ImageStands, img
<1>11. StackIsBuilt /\ RegistersAre
  BY DEF Init, StackIsBuilt, RegistersAre, Started
<1>12. MachineIsReady
  <2>1. ModulesArrive
    BY DEF Init, ModulesArrive
  <2>2. StartsClean
    BY <1>3, <1>8 DEF Init, StartsClean
  <2> QED BY <2>1, <2>2 DEF MachineIsReady
<1> QED BY <1>1, <1>9, <1>10, <1>11, <1>12 DEF BootInv

(* A step that leaves what there is, the modules and the kernel alone.     *)
LEMMA ModulesStay ==
  ASSUME modules \in Files, loaded \in 0 .. 3, ModulesArrive, UNCHANGED <<modules, loaded>>,
         \A i \in 1 .. 3 : \A c \in 1 .. Len(modules[i]) : memory'[ModuleAddr[i] + c - 1] = memory[ModuleAddr[i] + c - 1]
  PROVE  ModulesArrive'
<1>1. ASSUME NEW i \in 1 .. loaded, NEW c \in DOMAIN modules[i] PROVE memory'[ModuleAddr[i] + c - 1] = modules[i][c]
  <2>1. i \in 1 .. 3
    OBVIOUS
  <2>2. c \in 1 .. Len(modules[i])
    BY <2>1, PlacesAre
  <2> QED BY <2>1, <2>2 DEF ModulesArrive
<1> QED BY <1>1 DEF ModulesArrive

(* The next module is copied from behind its size, past every other.       *)
LEMMA LoadModuleKeeps == BootInv /\ LoadModule => BootInv'
<1> SUFFICES ASSUME BootInv, LoadModule PROVE BootInv'
  OBVIOUS
<1>1. Given /\ Shape /\ ImageStands /\ StackIsBuilt /\ RegistersAre /\ MachineIsReady
  BY DEF BootInv
<1>2. modules \in Files
  BY <1>1, GivenFiles
<1>3. stage = "loadModules" /\ loaded \in 0 .. 2 /\ loaded' = loaded + 1 /\ moduleCount = 3
      /\ UNCHANGED <<stage, songs, image, modules, args, number, moduleCount, userStackTop, argv, regs>>
  BY <1>1 DEF LoadModule, Shape, inputs, process
<1> DEFINE img == buildImage(modules)
           j == loaded + 1
<1>4. j \in 1 .. 3 /\ j - 1 = loaded
  BY <1>3
<1>5. /\ SizeAt(modules, loaded) \in Nat /\ SizeAt(modules, j) = SizeAt(modules, loaded) + 1 + Len(modules[j])
      /\ SizeAt(modules, j) <= Len(img) /\ img[SizeAt(modules, loaded) + 1] = Len(modules[j])
      /\ \A c \in 1 .. Len(modules[j]) : img[SizeAt(modules, loaded) + 1 + c] = modules[j][c]
  <2>1. /\ SizeAt(modules, j - 1) \in Nat /\ SizeAt(modules, j) = SizeAt(modules, j - 1) + 1 + Len(modules[j])
        /\ SizeAt(modules, j) <= Len(img) /\ img[SizeAt(modules, j - 1) + 1] = Len(modules[j])
        /\ \A c \in 1 .. Len(modules[j]) : img[SizeAt(modules, j - 1) + 1 + c] = modules[j][c]
    BY <1>2, <1>4, ImageIs
  <2> HIDE DEF img, j
  <2> QED BY <1>4, <2>1
<1>6. /\ ModuleAddr[j] \in Nat /\ Len(modules[j]) \in Nat /\ Len(img) <= ModuleAddr[j] /\ ModuleAddr[j] + Len(modules[j]) <= StackPage
      /\ endOfKernelBinary < ModuleAddr[j]
  BY <1>2, <1>4, PlacesAre
<1>7. PICK at \in Nat, l \in Nat, z \in Nat, d \in Nat, s \in Nat, p \in Nat :
         /\ at = SizeAt(modules, loaded) /\ l = Len(modules[j]) /\ z = Len(img) /\ d = ModuleAddr[j]
         /\ s = StackPage /\ p = PAGE_SIZE /\ MemoryEnd = s + p
  <2>1. Len(img) \in Nat /\ StackPage \in Nat /\ PAGE_SIZE \in Nat /\ MemoryEnd = StackPage + PAGE_SIZE
    BY <1>2, ImageIs, LayoutIs
  <2> HIDE DEF img, j
  <2> QED BY <1>5, <1>6, <2>1
<1>8. at + 1 + l <= z /\ z <= d /\ d + l <= s /\ SizeAt(modules, j) = at + 1 + l /\ img[at + 1] = l
      /\ \A c \in 1 .. l : img[at + 1 + c] = modules[j][c]
  BY <1>5, <1>6, <1>7
<1>9. currentModule = at /\ \A a \in 0 .. z - 1 : memory[a] = img[a + 1]
  BY <1>1, <1>3, <1>7 DEF ImageStands
<1> HIDE DEF img, j
<1>10. memory[at] = l
  <2>1. at \in 0 .. z - 1
    BY <1>8
  <2> QED BY <1>8, <1>9, <2>1
<1>11. memory' = memcpy(memory, d, at + 1, l) /\ currentModule' = at + 1 + l
  BY <1>7, <1>9, <1>10 DEF LoadModule, j
<1> DEFINE D == 0 .. s + p - 1
<1>12. memory \in [D -> Int]
  BY <1>1, <1>7 DEF Shape
<1>13. memory' = [a \in D |-> IF a \in d .. d + l - 1 THEN memory[(at + 1) + (a - d)] ELSE memory[a]]
  <2>1. PICK source \in Nat : source = at + 1
    OBVIOUS
  <2>2. D \in SUBSET Nat /\ source + l <= d /\ source .. source + l - 1 \subseteq D
    BY <1>8, <2>1
  <2> HIDE DEF D
  <2>3. Moved(memcpy(memory, d, source, l), D, memory, d, source, l)
    BY <1>12, <2>2, memcpyIs
  <2>4. memory' = [a \in D |-> IF a \in d .. d + l - 1 THEN memory[source + (a - d)] ELSE memory[a]]
    BY <1>11, <2>1, <2>3 DEF Moved
  <2> QED BY <2>1, <2>4, Zenon
<1>14. \A a \in D : a < d \/ a >= d + l => memory'[a] = memory[a]
  BY <1>13
<1>15. \A c \in 1 .. l : memory'[d + c - 1] = modules[j][c]
  <2> SUFFICES ASSUME NEW c \in 1 .. l PROVE memory'[d + c - 1] = modules[j][c]
    OBVIOUS
  <2>1. d + c - 1 \in D /\ d + c - 1 \in d .. d + l - 1 /\ (at + 1) + ((d + c - 1) - d) = at + c
        /\ at + c \in 0 .. z - 1 /\ (at + c) + 1 = at + 1 + c
    BY <1>8
  <2>2. memory'[d + c - 1] = memory[at + c]
    BY <1>13, <2>1
  <2> QED BY <1>8, <1>9, <2>1, <2>2
<1>16. Given'
  BY <1>1, <1>3 DEF Given
<1>17. Shape'
  <2>1. memory' \in [D -> Int]
    <3>1. \A a \in D : a \in d .. d + l - 1 => (at + 1) + (a - d) \in D
      BY <1>8
    <3> QED BY <1>12, <1>13, <3>1
  <2>2. memory' \in [0 .. MemoryEnd - 1 -> Int]
    BY <1>7, <2>1
  <2>3. loaded' \in 0 .. 3 /\ stage' = "loadModules" /\ moduleCount' = 3
    BY <1>3
  <2> QED BY <2>2, <2>3 DEF Shape
<1>18. ImageStands'
  <2>1. currentModule' = SizeAt(modules', loaded')
    BY <1>3, <1>8, <1>11 DEF j
  <2>2. \A a \in 0 .. z - 1 : memory'[a] = img[a + 1]
    <3>1. \A a \in 0 .. z - 1 : a \in D /\ a < d
      BY <1>8
    <3> QED BY <1>9, <1>14, <3>1
  <2>3. Len(buildImage(modules')) = z /\ buildImage(modules') = img
    BY <1>3, <1>7 DEF img
  <2> QED BY <2>1, <2>2, <2>3 DEF ImageStands
<1>19. StackIsBuilt' /\ RegistersAre'
  BY <1>1, <1>3 DEF StackIsBuilt, RegistersAre, Started
<1>20. ModulesArrive'
  <2> SUFFICES ASSUME NEW i \in 1 .. loaded', NEW c \in DOMAIN modules[i]
               PROVE  memory'[ModuleAddr[i] + c - 1] = modules[i][c]
    BY <1>3 DEF ModulesArrive
  <2>1. i \in 1 .. 3 /\ (i = j \/ (i \in 1 .. loaded /\ i < j))
    BY <1>3 DEF j
  <2>2. ModuleAddr[i] \in Nat /\ Len(modules[i]) \in Nat /\ DOMAIN modules[i] = 1 .. Len(modules[i])
    BY <1>2, <2>1, PlacesAre
  <2>3. CASE i = j
    BY <1>7, <1>15, <2>2, <2>3
  <2>4. CASE i \in 1 .. loaded /\ i < j
    <3>1. ModuleAddr[i] + Len(modules[i]) <= ModuleAddr[j]
      BY <1>2, <1>4, <2>1, <2>4, PlacesAre
    <3>2. PICK m \in Nat, n \in Nat : m = ModuleAddr[i] /\ n = Len(modules[i]) /\ m + n <= d /\ c \in 1 .. n
      BY <1>7, <2>2, <3>1
    <3>3. m + c - 1 \in D /\ m + c - 1 < d
      <4>1. c \in Nat /\ 1 <= c /\ c <= n
        BY <3>2
      <4>2. d + l <= s /\ m + n <= d
        BY <1>8, <3>2
      <4>3. m + c - 1 \in Nat /\ m + c - 1 < d /\ d <= s
        BY <4>1, <4>2
      <4> QED BY <4>3
    <3>4. memory'[m + c - 1] = memory[m + c - 1]
      BY <1>14, <3>3
    <3> QED BY <1>1, <2>4, <3>2, <3>4 DEF MachineIsReady, ModulesArrive
  <2> QED BY <2>1, <2>3, <2>4
<1>21. StartsClean'
  <2>1. PICK b \in Nat : b = endOfKernelBinary /\ b < d
    BY <1>2, <1>6, <1>7, LayoutIs
  <2>2. \A a \in 0 .. b - 1 : memory'[a] = Kernel[a + 1]
    <3>1. \A a \in 0 .. b - 1 : a \in D /\ a < d
      BY <1>8, <2>1
    <3> QED BY <1>1, <1>14, <2>1, <3>1 DEF MachineIsReady, StartsClean
  <2>3. stage' = "loadModules"
    BY <1>3
  <2> QED BY <2>1, <2>2, <2>3 DEF StartsClean
<1> QED BY <1>16, <1>17, <1>18, <1>19, <1>20, <1>21 DEF BootInv, MachineIsReady

(* A range is cleared, and the rest stays.                                 *)
LEMMA memsetIs ==
  ASSUME NEW e \in Nat, NEW mem \in [0 .. e - 1 -> Int], NEW destination \in Nat, NEW length \in Nat
  PROVE  /\ memset(mem, destination, 0, length) \in [0 .. e - 1 -> Int]
         /\ \A a \in 0 .. e - 1 : a < destination \/ destination + length <= a =>
               memset(mem, destination, 0, length)[a] = mem[a]
         /\ \A a \in 0 .. e - 1 : destination <= a /\ a < destination + length =>
               memset(mem, destination, 0, length)[a] = 0
BY DEF memset

(* A cell of a module is past the kernel, in front of the pages.           *)
LEMMA CellOfModule ==
  ASSUME NEW ms \in Files, NEW i \in 1 .. 3, NEW c \in 1 .. Len(ms[i])
  PROVE  /\ ModuleAddr[i] + c - 1 \in 0 .. StackPage - 1 /\ endOfKernel <= ModuleAddr[i] + c - 1
         /\ i = 1 => ModuleAddr[i] + c - 1 < ModuleAddr[1] + Len(ms[1])
         /\ i # 1 => endOfBinary <= ModuleAddr[i] + c - 1
<1>1. PICK m \in Nat, n \in Nat, k \in Nat, s \in Nat, e \in Nat :
         /\ m = ModuleAddr[i] /\ n = Len(ms[i]) /\ k = endOfKernel /\ s = StackPage /\ e = endOfBinary
         /\ k <= m /\ m + n <= s
  BY PlacesAre, LayoutIs
<1>2. c \in Nat /\ 1 <= c /\ c <= n
  BY <1>1
<1>a. k <= m /\ m + n <= s
  BY <1>1
<1>3. m + c - 1 \in 0 .. s - 1 /\ k <= m + c - 1 /\ m + c - 1 < m + n /\ m <= m + c - 1
  BY <1>a, <1>2, SMTT(30)
<1>4. ASSUME i = 1 PROVE m + c - 1 < ModuleAddr[1] + Len(ms[1])
  BY <1>1, <1>3, <1>4
<1>5. ASSUME i # 1 PROVE e <= m + c - 1
  <2>1. i \in 2 .. 3
    BY <1>5
  <2>2. e <= m
    BY <1>1, <2>1, PlacesAre
  <2> QED BY <1>1, <1>3, <2>2
<1> QED BY <1>1, <1>3, <1>4, <1>5

LEMMA ClearBSSKeeps == BootInv /\ ClearBSS => BootInv'
<1> SUFFICES ASSUME BootInv, ClearBSS PROVE BootInv'
  OBVIOUS
<1>1. Given /\ Shape /\ ImageStands /\ StackIsBuilt /\ RegistersAre /\ MachineIsReady
  BY DEF BootInv
<1>2. modules \in Files
  BY <1>1, GivenFiles
<1>3. stage = "loadModules" /\ stage' = "kernel_main" /\ loaded = 3 /\ moduleCount = 3
      /\ UNCHANGED <<songs, image, modules, args, number, currentModule, moduleCount, loaded, userStackTop, argv, regs>>
  BY <1>1 DEF ClearBSS, Shape, inputs, loader, process
<1>4. PICK b \in Nat, k \in Nat, s \in Nat, p \in Nat, e \in Nat, n \in Nat :
         /\ b = endOfKernelBinary /\ k = endOfKernel /\ s = StackPage /\ p = PAGE_SIZE /\ e = MemoryEnd /\ e = s + p
         /\ b < k /\ k <= s /\ n = k - b
  <2>1. PICK b \in Nat, k \in Nat, s \in Nat, p \in Nat, a \in Nat, l \in Nat :
           /\ b = endOfKernelBinary /\ k = endOfKernel /\ s = StackPage /\ p = PAGE_SIZE /\ MemoryEnd = s + p /\ b < k
           /\ a = ModuleAddr[1] /\ l = Len(modules[1]) /\ k <= a /\ a + l <= s
    <3>1. 1 \in 1 .. 3
      OBVIOUS
    <3> QED BY <1>2, <3>1, LayoutIs, PlacesAre
  <2>2. k <= s /\ s + p \in Nat /\ k - b \in Nat
    BY <2>1
  <2> QED BY <2>1, <2>2
<1>5. memory \in [0 .. e - 1 -> Int] /\ memory' = memset(memory, b, 0, n)
  BY <1>1, <1>4 DEF Shape, ClearBSS, bssSize
<1>6. /\ memory' \in [0 .. e - 1 -> Int]
      /\ \A a \in 0 .. e - 1 : a < b \/ k <= a => memory'[a] = memory[a]
      /\ \A a \in 0 .. e - 1 : b <= a /\ a < k => memory'[a] = 0
  <2>1. b + n = k
    BY <1>4
  <2> QED BY <1>5, <2>1, memsetIs
<1>7. Given'
  BY <1>1, <1>3 DEF Given
<1>8. Shape'
  BY <1>3, <1>4, <1>6 DEF Shape
<1>9. ImageStands' /\ StackIsBuilt' /\ RegistersAre'
  BY <1>1, <1>3 DEF ImageStands, StackIsBuilt, RegistersAre, Started
<1>10. ModulesArrive'
  <2>1. ASSUME NEW i \in 1 .. 3, NEW c \in 1 .. Len(modules[i])
        PROVE  memory'[ModuleAddr[i] + c - 1] = memory[ModuleAddr[i] + c - 1]
    <3>1. PICK a : a = ModuleAddr[i] + c - 1 /\ a \in 0 .. s - 1 /\ k <= a
      BY <1>2, <1>4, CellOfModule
    <3>2. a \in 0 .. e - 1
      BY <1>4, <3>1
    <3> QED BY <1>6, <3>1, <3>2
  <2>2. ModulesArrive /\ loaded \in 0 .. 3 /\ UNCHANGED <<modules, loaded>>
    BY <1>1, <1>3 DEF MachineIsReady
  <2> QED BY <1>2, <2>1, <2>2, ModulesStay
<1>11. StartsClean'
  <2>1. \A a \in 0 .. b - 1 : memory'[a] = Kernel[a + 1]
    <3>1. \A a \in 0 .. b - 1 : a \in 0 .. e - 1 /\ a < b
      BY <1>4
    <3> QED BY <1>1, <1>4, <1>6, <3>1 DEF MachineIsReady, StartsClean
  <2>2. \A a \in b .. k - 1 : memory'[a] = 0
    <3>1. \A a \in b .. k - 1 : a \in 0 .. e - 1 /\ b <= a /\ a < k
      BY <1>4
    <3> QED BY <1>6, <3>1
  <2>3. stage' # "running"
    BY <1>3
  <2> QED BY <1>4, <2>1, <2>2, <2>3 DEF StartsClean
<1> QED BY <1>7, <1>8, <1>9, <1>10, <1>11 DEF BootInv, MachineIsReady

LEMMA KernelMainKeeps == BootInv /\ KernelMain => BootInv'
<1> SUFFICES ASSUME BootInv, KernelMain PROVE BootInv'
  OBVIOUS
<1>1. Given /\ Shape /\ ImageStands /\ StackIsBuilt /\ RegistersAre /\ MachineIsReady
  BY DEF BootInv
<1>2. stage = "kernel_main" /\ stage' = "addProcess" /\ userStackTop' = StackPage + PAGE_SIZE
      /\ UNCHANGED <<songs, image, modules, args, number, memory, currentModule, moduleCount, loaded, argv, regs>>
  BY DEF KernelMain, inputs, loader
<1>3. Given'
  BY <1>1, <1>2 DEF Given
<1>4. Shape'
  BY <1>1, <1>2 DEF Shape
<1>5. ImageStands' /\ StackIsBuilt' /\ RegistersAre'
  BY <1>1, <1>2 DEF ImageStands, StackIsBuilt, RegistersAre, Started
<1>6. MachineIsReady'
  BY <1>1, <1>2 DEF MachineIsReady, ModulesArrive, StartsClean
<1> QED BY <1>3, <1>4, <1>5, <1>6 DEF BootInv

LEMMA DispatchKeeps == BootInv /\ Dispatch => BootInv'
<1> SUFFICES ASSUME BootInv, Dispatch PROVE BootInv'
  OBVIOUS
<1>1. Given /\ Shape /\ ImageStands /\ StackIsBuilt /\ RegistersAre /\ MachineIsReady
  BY DEF BootInv
<1>2. stage = "dispatch" /\ stage' = "init_d"
      /\ UNCHANGED <<songs, image, modules, args, number, memory, currentModule, moduleCount, loaded, userStackTop, argv>>
  BY DEF Dispatch, inputs, loader
<1>3. Given'
  BY <1>1, <1>2 DEF Given
<1>4. Shape'
  BY <1>1, <1>2 DEF Shape, Started
<1>5. ImageStands'
  BY <1>2 DEF ImageStands
<1>6. StackIsBuilt'
  <2>1. StackIsBuilt /\ stage \in {"dispatch"} \cup Started
    BY <1>1, <1>2
  <2> QED BY <1>2, <2>1 DEF StackIsBuilt, PointsTo
<1>7. RegistersAre'
  <2>1. stage' \in Started /\ stage \in {"dispatch"} \cup Started
    BY <1>2 DEF Started
  <2>2. regs' = [rsi |-> userStackTop + 24, rdi |-> Len(args), rip |-> Entry, rsp |-> userStackTop + 22]
    BY <1>1, <2>1 DEF Dispatch, Popped, StackIsBuilt
  <2> QED BY <1>2, <2>1, <2>2 DEF RegistersAre, Entry
<1>8. MachineIsReady'
  BY <1>1, <1>2 DEF MachineIsReady, ModulesArrive, StartsClean
<1> QED BY <1>3, <1>4, <1>5, <1>6, <1>7, <1>8 DEF BootInv

LEMMA init_dKeeps == BootInv /\ init_d => BootInv'
<1> SUFFICES ASSUME BootInv, init_d PROVE BootInv'
  OBVIOUS
<1>1. Given /\ Shape /\ ImageStands /\ StackIsBuilt /\ RegistersAre /\ MachineIsReady
  BY DEF BootInv
<1>2. modules \in Files
  BY <1>1, GivenFiles
<1>3. stage = "init_d" /\ stage' = "running" /\ loaded = 3
      /\ UNCHANGED <<songs, image, modules, args, number, currentModule, moduleCount, loaded, userStackTop, argv, regs>>
  BY <1>1 DEF init_d, Shape, inputs, loader, process
<1>4. PICK b \in Nat, k \in Nat, c \in Nat, f \in Nat, s \in Nat, e \in Nat, n \in Nat :
         /\ b = endOfKernelBinary /\ k = endOfKernel /\ c = bss /\ f = endOfBinary /\ s = StackPage /\ e = MemoryEnd
         /\ b < k /\ k <= c /\ n = f - c /\ c + n = f /\ f <= s /\ s <= e
  <2>1. PICK b \in Nat, k \in Nat, f \in Nat, s \in Nat, p \in Nat, a \in Nat, l \in Nat, a2 \in Nat, l2 \in Nat :
           /\ b = endOfKernelBinary /\ k = endOfKernel /\ f = endOfBinary /\ s = StackPage /\ p = PAGE_SIZE
           /\ MemoryEnd = s + p /\ b < k /\ a = ModuleAddr[1] /\ l = Len(modules[1]) /\ k <= a /\ a + l <= f
           /\ a2 = ModuleAddr[2] /\ f <= a2 /\ l2 = Len(modules[2]) /\ a2 + l2 <= s
    <3>1. 1 \in 1 .. 3 /\ 2 \in 1 .. 3
      OBVIOUS
    <3>2. ModuleAddr[1] \in Nat /\ Len(modules[1]) \in Nat /\ ModuleAddr[2] \in Nat /\ Len(modules[2]) \in Nat
          /\ endOfKernel <= ModuleAddr[1] /\ ModuleAddr[2] + Len(modules[2]) <= StackPage
      BY <1>2, <3>1, PlacesAre
    <3> QED BY <1>2, <3>2, LayoutIs
  <2>2. bss = a + l
    BY <2>1 DEF bss
  <2>3. PICK c \in Nat : c = bss /\ k <= c /\ c <= f
    <3>1. a + l \in Nat /\ k <= a + l /\ a + l <= f
      BY <2>1, SMTT(30)
    <3> QED BY <2>2, <3>1
  <2>4. f - c \in Nat /\ c + (f - c) = f
    BY <2>3
  <2>5. f <= s /\ s + p \in Nat /\ s <= s + p
    BY <2>1
  <2> QED BY <2>1, <2>3, <2>4, <2>5
<1>5. memory \in [0 .. e - 1 -> Int] /\ memory' = memset(memory, c, 0, n)
  BY <1>1, <1>4 DEF Shape, init_d
<1>6. /\ memory' \in [0 .. e - 1 -> Int]
      /\ \A a \in 0 .. e - 1 : a < c \/ f <= a => memory'[a] = memory[a]
      /\ \A a \in 0 .. e - 1 : c <= a /\ a < f => memory'[a] = 0
  BY <1>4, <1>5, memsetIs
<1>7. Given'
  BY <1>1, <1>3 DEF Given
<1>8. Shape'
  BY <1>3, <1>1, <1>4, <1>6 DEF Shape, Started
<1>9. ImageStands'
  BY <1>3 DEF ImageStands
<1>10. RegistersAre'
  <2>1. stage \in Started /\ stage' \in Started
    BY <1>3 DEF Started
  <2> QED BY <1>1, <1>3, <2>1 DEF RegistersAre, Entry
<1>11. StackIsBuilt'
  <2>1. stage \in {"dispatch"} \cup Started
    BY <1>3 DEF Started
  <2>2. \A a \in s .. e - 1 : memory'[a] = memory[a]
    <3>1. \A a \in s .. e - 1 : a \in 0 .. e - 1 /\ f <= a
      BY <1>4
    <3> QED BY <1>6, <3>1
  <2>3. PICK top \in Nat, m \in Nat : top = userStackTop /\ m = Len(args) /\ s <= top /\ top + 24 + m < e
    <3>1. Len(args) \in Nat
      BY <1>1, ArgumentsAre DEF Given
    <3> QED BY <1>1, <1>4, <2>1, <3>1 DEF StackIsBuilt
  <2>4. /\ memory[top + 10] = top + 24 /\ memory[top + 11] = m /\ memory[top + 17] = Entry /\ memory[top + 20] = top + 22
        /\ memory[top + 24 + m] = 0 /\ \A i \in 1 .. m : PointsTo(memory[top + 24 + i - 1], args[i])
    BY <1>1, <2>1, <2>3 DEF StackIsBuilt
  <2>5. /\ memory'[top + 10] = top + 24 /\ memory'[top + 11] = m /\ memory'[top + 17] = Entry /\ memory'[top + 20] = top + 22
        /\ memory'[top + 24 + m] = 0
    <3>1. top + 10 \in s .. e - 1 /\ top + 11 \in s .. e - 1 /\ top + 17 \in s .. e - 1 /\ top + 20 \in s .. e - 1
          /\ top + 24 + m \in s .. e - 1
      BY <1>4, <2>3
    <3> QED BY <2>2, <2>4, <3>1
  <2>6. \A i \in 1 .. m : memory'[top + 24 + i - 1] = memory[top + 24 + i - 1]
    <3>1. \A i \in 1 .. m : top + 24 + i - 1 \in s .. e - 1
      BY <1>4, <2>3
    <3> QED BY <2>2, <3>1
  <2>7. ASSUME NEW i \in 1 .. m, NEW q, PointsTo(q, args[i])
        PROVE  /\ q \in Nat /\ StackPage <= q /\ q + Words(args[i]) <= MemoryEnd
               /\ \A w \in 1 .. Words(args[i]) : memory'[q + w - 1] = Word(args[i], w)
    <3>1. args[i] \in Seq(1 .. 255)
      BY <1>1, <2>3, ArgumentsAre DEF Given
    <3>2. PICK l \in Nat : l = Words(args[i])
      BY <3>1, WordsIs
    <3>3. q \in Nat /\ s <= q /\ q + l <= e /\ \A w \in 1 .. l : memory[q + w - 1] = Word(args[i], w)
      BY <1>4, <2>7, <3>2 DEF PointsTo
    <3>4. \A w \in 1 .. l : q + w - 1 \in s .. e - 1
      BY <1>4, <3>3
    <3>5. \A w \in 1 .. l : memory'[q + w - 1] = Word(args[i], w)
      BY <2>2, <3>3, <3>4
    <3> QED BY <1>4, <3>2, <3>3, <3>5
  <2>8. \A i \in 1 .. m : PointsTo(memory[top + 24 + i - 1], args[i])'
    <3> SUFFICES ASSUME NEW i \in 1 .. m PROVE PointsTo(memory[top + 24 + i - 1], args[i])'
      OBVIOUS
    <3>1. PICK q : q = memory[top + 24 + i - 1] /\ q = memory'[top + 24 + i - 1] /\ PointsTo(q, args[i])
      BY <2>4, <2>6
    <3>2. /\ q \in Nat /\ StackPage <= q /\ q + Words(args[i]) <= MemoryEnd
          /\ \A w \in 1 .. Words(args[i]) : memory'[q + w - 1] = Word(args[i], w)
      BY <2>7, <3>1
    <3> QED BY <1>3, <3>1, <3>2 DEF PointsTo
  <2> QED BY <1>3, <1>4, <2>3, <2>5, <2>8 DEF StackIsBuilt, Entry
<1>12. ModulesArrive'
  <2>1. ASSUME NEW i \in 1 .. 3, NEW d \in 1 .. Len(modules[i])
        PROVE  memory'[ModuleAddr[i] + d - 1] = memory[ModuleAddr[i] + d - 1]
    <3>1. PICK a : a = ModuleAddr[i] + d - 1 /\ a \in 0 .. s - 1 /\ (a < c \/ f <= a)
      <4>1. i = 1 => ModuleAddr[i] + d - 1 < c
        BY <1>2, <1>4, CellOfModule DEF bss
      <4> QED BY <1>2, <1>4, <4>1, CellOfModule
    <3>2. a \in 0 .. e - 1
      BY <1>4, <3>1
    <3> QED BY <1>6, <3>1, <3>2
  <2>2. ModulesArrive /\ loaded \in 0 .. 3 /\ UNCHANGED <<modules, loaded>>
    BY <1>1, <1>3 DEF MachineIsReady
  <2> QED BY <1>2, <2>1, <2>2, ModulesStay
<1>13. StartsClean'
  <2>1. \A a \in 0 .. b - 1 : memory'[a] = Kernel[a + 1]
    <3>1. \A a \in 0 .. b - 1 : a \in 0 .. e - 1 /\ a < c
      BY <1>4
    <3> QED BY <1>1, <1>4, <1>6, <3>1 DEF MachineIsReady, StartsClean
  <2>2. \A a \in b .. k - 1 : memory'[a] = 0
    <3>1. \A a \in b .. k - 1 : a \in 0 .. e - 1 /\ a < c
      BY <1>4
    <3>2. \A a \in b .. k - 1 : memory[a] = 0
      BY <1>1, <1>3, <1>4 DEF MachineIsReady, StartsClean
    <3> QED BY <1>6, <3>1, <3>2
  <2>3. \A a \in c .. f - 1 : memory'[a] = 0
    <3>1. \A a \in c .. f - 1 : a \in 0 .. e - 1 /\ c <= a /\ a < f
      BY <1>4
    <3> QED BY <1>6, <3>1
  <2>4. bss' = c
    BY <1>3, <1>4 DEF bss
  <2> QED BY <1>4, <2>1, <2>2, <2>3, <2>4 DEF StartsClean
<1> QED BY <1>7, <1>8, <1>9, <1>10, <1>11, <1>12, <1>13 DEF BootInv, MachineIsReady

(* Where an argument is among the words.                                   *)
LEMMA ArgumentIsAmong ==
  ASSUME NEW vector \in ArgVectors, NEW i \in 1 .. Len(vector)
  PROVE  \E d \in Nat :
            /\ d = Len(StringWords(SubSeq(vector, 1, i - 1)))
            /\ Words(vector[i]) \in Nat /\ d + Words(vector[i]) <= Len(StringWords(vector))
            /\ \A w \in 1 .. Words(vector[i]) : StringWords(vector)[d + w] = Word(vector[i], w)
<1> DEFINE W == ArgWords(vector)
<1>1. W \in Seq(Seq(Nat)) /\ Len(W) = Len(vector) /\ StringWords(vector) = FlattenSeq(W)
  BY ArgumentsAre
<1>2. /\ vector[i] \in Seq(1 .. 255) /\ Len(W[i]) = Words(vector[i])
      /\ \A w \in 1 .. Words(vector[i]) : W[i][w] = Word(vector[i], w)
      /\ StringWords(SubSeq(vector, 1, i - 1)) = FlattenSeq(Prefix(W, i - 1))
  BY ArgumentsAre
<1> HIDE DEF W
<1>3. i \in 1 .. Len(W)
  BY <1>1
<1>4. /\ Before(W, i - 1) \in Nat /\ Before(W, i) = Before(W, i - 1) + Len(W[i]) /\ Before(W, i) <= Len(FlattenSeq(W))
      /\ \A c \in 1 .. Len(W[i]) : FlattenSeq(W)[Before(W, i - 1) + c] = W[i][c]
  <2>1. W \in Seq(Seq(Nat))
    BY <1>1
  <2> QED BY <1>3, <2>1, FlattenPlaces
<1>5. Before(W, i - 1) = Len(StringWords(SubSeq(vector, 1, i - 1)))
  BY <1>2 DEF Before
<1>6. Words(vector[i]) \in Nat
  BY <1>2, WordsIs
<1> WITNESS Before(W, i - 1) \in Nat
<1> QED BY <1>1, <1>2, <1>4, <1>5, <1>6

LEMMA InitializeStackKeeps == BootInv /\ InitializeStack => BootInv'
<1> SUFFICES ASSUME BootInv, InitializeStack PROVE BootInv'
  OBVIOUS
<1>1. Given /\ Shape /\ ImageStands /\ StackIsBuilt /\ RegistersAre /\ MachineIsReady
  BY DEF BootInv
<1>2. modules \in Files
  BY <1>1, GivenFiles
<1>3. stage = "addProcess" /\ stage' = "dispatch" /\ loaded = 3
      /\ UNCHANGED <<songs, image, modules, args, number, currentModule, moduleCount, loaded, regs>>
  BY <1>1 DEF InitializeStack, Shape, inputs, loader
<1>4. args \in ArgVectors
  BY <1>1 DEF Given
<1>5. PICK b \in Nat, k \in Nat, s \in Nat, p \in Nat, e \in Nat :
         /\ b = endOfKernelBinary /\ k = endOfKernel /\ s = StackPage /\ p = PAGE_SIZE
         /\ e = MemoryEnd /\ e = s + p /\ userStackTop = e /\ p <= e /\ b < k /\ k <= s
  <2>1. PICK b \in Nat, k \in Nat, s \in Nat, p \in Nat, a \in Nat, l \in Nat :
           /\ b = endOfKernelBinary /\ k = endOfKernel /\ s = StackPage /\ p = PAGE_SIZE /\ MemoryEnd = s + p /\ b < k
           /\ a = ModuleAddr[1] /\ l = Len(modules[1]) /\ k <= a /\ a + l <= s
    <3>1. 1 \in 1 .. 3
      OBVIOUS
    <3> QED BY <1>2, <3>1, LayoutIs, PlacesAre
  <2>2. k <= s /\ s + p \in Nat /\ p <= s + p
    BY <2>1
  <2>3. userStackTop = s + p
    BY <1>1, <1>3, <2>1 DEF Shape
  <2> QED BY <2>1, <2>2, <2>3
<1> DEFINE count == Len(args)
           words == Len(StringWords(args))
<1>6. /\ count \in Nat \ {0} /\ words \in Nat /\ 24 + count + 1 + words + 1 <= PAGE_SIZE
      /\ Pushed \in Seq(Int) /\ Len(Pushed) = 24 + count + 1 + words + 1
      /\ StringsAt = userStackTop - (words + 1) /\ ArgvAt = userStackTop - (words + 1) - (count + 1)
      /\ Pushed[11] = ArgvAt /\ Pushed[12] = count /\ Pushed[18] = ModuleAddr[1] /\ Pushed[21] = ArgvAt - 2
      /\ \A i \in 1 .. count : Pushed[24 + i] = PointerTo(i)
      /\ Pushed[24 + count + 1] = 0
      /\ \A i \in 1 .. words : Pushed[24 + count + 1 + i] = StringWords(args)[i]
  <2>1. userStackTop \in Nat /\ userStackTop >= PAGE_SIZE
    BY <1>5
  <2> QED BY <1>4, <2>1, PushedIs
<1>7. PICK n \in Nat, l \in Nat, size \in Nat, top \in Nat :
         /\ n = count /\ l = words /\ size = 24 + n + 1 + l + 1 /\ size <= p /\ size = Len(Pushed) /\ top = e - size /\ s <= top
  <2>1. PICK n \in Nat, l \in Nat : n = count /\ l = words /\ 24 + n + 1 + l + 1 <= p
    BY <1>5, <1>6
  <2>2. PICK size \in Nat : size = 24 + n + 1 + l + 1 /\ size = Len(Pushed) /\ size <= p
    BY <1>6, <2>1
  <2>3. e - size \in Nat /\ s <= e - size
    BY <1>5, <2>2
  <2> QED BY <2>1, <2>2, <2>3
<1> HIDE DEF count, words
<1>8. StringsAt = top + 24 + n + 1 /\ ArgvAt = top + 24 /\ ArgvAt - 2 = top + 22
  BY <1>5, <1>6, <1>7
<1>9. userStackTop' = top
  BY <1>5, <1>7 DEF InitializeStack
<1>10. memory \in [0 .. e - 1 -> Int]
       /\ memory' = [a \in 0 .. e - 1 |-> IF a \in top .. e - 1 THEN Pushed[a - top + 1] ELSE memory[a]]
  <2>1. memory \in [0 .. e - 1 -> Int]
    BY <1>1, <1>5 DEF Shape
  <2>2. DOMAIN memory = 0 .. e - 1
    BY <2>1
  <2>3. memory' = [a \in DOMAIN memory |->
                    IF a \in userStackTop' .. userStackTop - 1 THEN Pushed[a - userStackTop' + 1] ELSE memory[a]]
    BY DEF InitializeStack
  <2> QED BY <1>5, <1>9, <2>1, <2>2, <2>3
<1>11. \A a \in 0 .. s - 1 : a \in 0 .. e - 1 /\ memory'[a] = memory[a]
  <2>1. \A a \in 0 .. s - 1 : a \in 0 .. e - 1 /\ a \notin top .. e - 1
    BY <1>5, <1>7
  <2> QED BY <1>10, <2>1
<1>12. \A i \in 1 .. size : memory'[top + i - 1] = Pushed[i]
  <2>1. \A i \in 1 .. size : top + i - 1 \in 0 .. e - 1 /\ top + i - 1 \in top .. e - 1 /\ (top + i - 1) - top + 1 = i
    BY <1>7
  <2> QED BY <1>10, <2>1
<1>13. memory' \in [0 .. e - 1 -> Int]
  <2>1. \A i \in 1 .. size : Pushed[i] \in Int
    BY <1>6, <1>7, ElementOfSeq
  <2>2. \A a \in top .. e - 1 : a - top + 1 \in 1 .. size
    BY <1>7
  <2> QED BY <1>10, <2>1, <2>2
<1>14. Given'
  BY <1>1, <1>3 DEF Given
<1>15. Shape'
  BY <1>1, <1>3, <1>5, <1>13 DEF Shape
<1>16. ImageStands'
  BY <1>3 DEF ImageStands
<1>17. RegistersAre'
  BY <1>1, <1>3 DEF RegistersAre, Started
<1>18. StackIsBuilt'
  <2>1. top \in Nat /\ s <= top /\ top + 24 + n < e
    BY <1>5, <1>7
  <2>2. /\ memory'[top + 10] = top + 24 /\ memory'[top + 11] = n /\ memory'[top + 17] = Entry /\ memory'[top + 20] = top + 22
    <3>1. /\ 11 \in 1 .. size /\ 12 \in 1 .. size /\ 18 \in 1 .. size /\ 21 \in 1 .. size
          /\ top + 10 = top + 11 - 1 /\ top + 11 = top + 12 - 1 /\ top + 17 = top + 18 - 1 /\ top + 20 = top + 21 - 1
      BY <1>7
    <3>2. memory'[top + 11 - 1] = Pushed[11] /\ memory'[top + 12 - 1] = Pushed[12]
          /\ memory'[top + 18 - 1] = Pushed[18] /\ memory'[top + 21 - 1] = Pushed[21]
      BY <1>12, <3>1
    <3> QED BY <1>6, <1>7, <1>8, <3>1, <3>2 DEF Entry
  <2>3. memory'[top + 24 + n] = 0
    <3>1. 24 + n + 1 \in 1 .. size /\ top + (24 + n + 1) - 1 = top + 24 + n
      BY <1>7
    <3>2. memory'[top + (24 + n + 1) - 1] = Pushed[24 + n + 1]
      BY <1>12, <3>1
    <3> QED BY <1>6, <1>7, <3>1, <3>2
  <2>4. ASSUME NEW i \in 1 .. n PROVE PointsTo(memory[top + 24 + i - 1], args[i])'
    <3>1. memory'[top + 24 + i - 1] = PointerTo(i)
      <4>1. 24 + i \in 1 .. size /\ top + (24 + i) - 1 = top + 24 + i - 1
        BY <1>7
      <4>2. memory'[top + (24 + i) - 1] = Pushed[24 + i]
        BY <1>12, <4>1
      <4> QED BY <1>6, <1>7, <4>1, <4>2
    <3>2. PICK d \in Nat :
             /\ d = Len(StringWords(SubSeq(args, 1, i - 1)))
             /\ Words(args[i]) \in Nat /\ d + Words(args[i]) <= Len(StringWords(args))
             /\ \A w \in 1 .. Words(args[i]) : StringWords(args)[d + w] = Word(args[i], w)
      <4>1. i \in 1 .. Len(args)
        BY <1>7 DEF count
      <4> QED BY <1>4, <4>1, ArgumentIsAmong
    <3>3. PICK q \in Nat : q = PointerTo(i) /\ q = top + 24 + n + 1 + d
      BY <1>8, <3>2 DEF PointerTo
    <3>4. PICK m \in Nat : m = Words(args[i]) /\ d + m <= l
      BY <1>7, <3>2 DEF words
    <3>5. s <= q /\ q + m <= e
      BY <1>5, <1>7, <3>3, <3>4
    <3>6. ASSUME NEW w \in 1 .. m PROVE memory'[q + w - 1] = Word(args[i], w)
      <4>1. PICK j \in Nat : j = d + w /\ j \in 1 .. l
        BY <3>4
      <4>2. 24 + n + 1 + j \in 1 .. size /\ top + (24 + n + 1 + j) - 1 = q + w - 1
        BY <1>7, <3>3, <4>1
      <4>3. memory'[top + (24 + n + 1 + j) - 1] = Pushed[24 + n + 1 + j]
        BY <1>12, <4>2
      <4>4. Pushed[24 + n + 1 + j] = StringWords(args)[j]
        BY <1>6, <1>7, <4>1
      <4> QED BY <3>2, <3>4, <4>1, <4>2, <4>3, <4>4
    <3> QED BY <1>3, <1>5, <1>9, <3>1, <3>3, <3>4, <3>5, <3>6 DEF PointsTo
  <2>5. Len(args) = n
    BY <1>7 DEF count
  <2> QED BY <1>3, <1>5, <1>9, <2>1, <2>2, <2>3, <2>4, <2>5 DEF StackIsBuilt, Entry
<1>19. ModulesArrive'
  <2>1. ASSUME NEW i \in 1 .. 3, NEW c \in 1 .. Len(modules[i])
        PROVE  memory'[ModuleAddr[i] + c - 1] = memory[ModuleAddr[i] + c - 1]
    <3>1. ModuleAddr[i] + c - 1 \in 0 .. s - 1
      BY <1>2, <1>5, CellOfModule
    <3> QED BY <1>11, <3>1
  <2>2. ModulesArrive /\ loaded \in 0 .. 3 /\ UNCHANGED <<modules, loaded>>
    BY <1>1, <1>3 DEF MachineIsReady
  <2> QED BY <1>2, <2>1, <2>2, ModulesStay
<1>20. StartsClean'
  <2>1. \A a \in 0 .. b - 1 : memory'[a] = Kernel[a + 1]
    <3>1. \A a \in 0 .. b - 1 : a \in 0 .. s - 1
      BY <1>5
    <3> QED BY <1>1, <1>5, <1>11, <3>1 DEF MachineIsReady, StartsClean
  <2>2. \A a \in b .. k - 1 : memory'[a] = 0
    <3>1. \A a \in b .. k - 1 : a \in 0 .. s - 1
      BY <1>5
    <3>2. \A a \in b .. k - 1 : memory[a] = 0
      BY <1>1, <1>3, <1>5 DEF MachineIsReady, StartsClean
    <3> QED BY <1>11, <3>1, <3>2
  <2>3. stage' # "running"
    BY <1>3
  <2> QED BY <1>5, <2>1, <2>2, <2>3 DEF StartsClean
<1> QED BY <1>14, <1>15, <1>16, <1>17, <1>18, <1>19, <1>20 DEF BootInv, MachineIsReady

(* It holds at the start, and LoadModule, ClearBSS, KernelMain,            *)
(* InitializeStack, Dispatch and init_d keep it.                           *)
THEOREM BootInvHolds == Spec => []BootInv
<1>1. Init => BootInv
  BY BootInit
<1>2. BootInv /\ [Next]_vars => BootInv'
  <2> SUFFICES ASSUME BootInv, [Next]_vars PROVE BootInv'
    OBVIOUS
  <2>1. CASE LoadModule
    BY <2>1, LoadModuleKeeps
  <2>2. CASE ClearBSS
    BY <2>2, ClearBSSKeeps
  <2>3. CASE KernelMain
    BY <2>3, KernelMainKeeps
  <2>4. CASE InitializeStack
    BY <2>4, InitializeStackKeeps
  <2>5. CASE Dispatch
    BY <2>5, DispatchKeeps
  <2>6. CASE init_d
    BY <2>6, init_dKeeps
  <2>7. CASE UNCHANGED vars
    BY <2>7 DEF vars, BootInv, Given, Shape, ImageStands, StackIsBuilt, PointsTo, RegistersAre, MachineIsReady,
                ModulesArrive, StartsClean, bss
  <2> QED BY <2>1, <2>2, <2>3, <2>4, <2>5, <2>6, <2>7 DEF Next, Running
<1> QED BY <1>1, <1>2, PTL DEF Spec

(* Whatever the kernel, the modules and the layout: every module is at its *)
(* address from the moment it is loaded, the kernel whole, and both BSS are*)
(* zero when their programs start.                                         *)
THEOREM MachineGetsReady == Spec => []MachineIsReady
<1>1. BootInv => MachineIsReady
  BY DEF BootInv
<1> QED BY <1>1, BootInvHolds, PTL

(* Whatever the arguments: the first process finds its entry point, argc,  *)
(* argv and every argument, on a stack within its page.                    *)
THEOREM FirstProcessFindsItsArguments == Spec => []FirstProcessStarts
<1>1. BootInv => FirstProcessStarts
  <2> SUFFICES ASSUME BootInv, regs # <<>> PROVE FirstProcessStarts
    BY DEF FirstProcessStarts
  <2>1. Given /\ Shape /\ StackIsBuilt /\ RegistersAre
    BY DEF BootInv
  <2>2. stage \in Started
    BY <2>1 DEF RegistersAre
  <2>3. regs = [rsi |-> userStackTop + 24, rdi |-> Len(args), rip |-> Entry, rsp |-> userStackTop + 22]
    BY <2>1, <2>2 DEF RegistersAre
  <2>4. regs.rsi = userStackTop + 24 /\ regs.rdi = Len(args) /\ regs.rip = Entry /\ regs.rsp = userStackTop + 22
    BY <2>3
  <2>5. /\ userStackTop \in Nat /\ StackPage <= userStackTop /\ memory[userStackTop + 24 + Len(args)] = 0
        /\ \A i \in 1 .. Len(args) : PointsTo(memory[userStackTop + 24 + i - 1], args[i])
    BY <2>1, <2>2 DEF StackIsBuilt
  <2>6. ASSUME NEW i \in DOMAIN args PROVE StringIsAt(memory[regs.rsi + i - 1], args[i])
    <3>1. i \in 1 .. Len(args) /\ args[i] \in Seq(1 .. 255)
      <4>1. args \in ArgVectors /\ args \in Seq(Seq(1 .. 255))
        BY <2>1, ArgumentsAre DEF Given
      <4>2. i \in 1 .. Len(args)
        BY <4>1
      <4> QED BY <4>1, <4>2, ArgumentsAre
    <3>2. PICK q : q = memory[userStackTop + 24 + i - 1] /\ PointsTo(q, args[i])
      BY <2>5, <3>1
    <3>3. q \in Nat /\ \A w \in 1 .. Words(args[i]) : memory[q + w - 1] = Word(args[i], w)
      BY <3>2 DEF PointsTo
    <3>4. StringIsAt(q, args[i])
      BY <3>1, <3>3, StringIsFound
    <3> QED BY <2>4, <3>2, <3>4
  <2>7. regs.rsp < regs.rsi /\ userStackTop >= StackPage
    <3>1. StackPage \in Int
      <4>1. modules \in Files
        BY <2>1, GivenFiles
      <4> QED BY <4>1, LayoutIs
    <3> QED BY <2>4, <2>5, <3>1
  <2> QED BY <2>4, <2>5, <2>6, <2>7 DEF FirstProcessStarts
<1> QED BY <1>1, BootInvHolds, PTL

-----------------------------------------------------------------------------
(* stringToInt: the values of the first digits, one after the other.       *)
ValueOf(s) == FoldLeft(LAMBDA result, digit : result * 10 + digit, 0, s)
Values(g, s) ==
    /\ g \in [0 .. Len(s) -> Nat] /\ g[0] = 0
    /\ \A i \in 1 .. Len(s) : g[i] = g[i - 1] * 10 + s[i]

LEMMA ValuesAre ==
  ASSUME NEW str \in Seq(Nat)
  PROVE  \E g : Values(g, str) /\ ValueOf(str) = g[Len(str)]
<1> DEFINE n == Len(str)
           One(result, digit) == result * 10 + digit
           Reads(f) == f = [s \in SUBSET DOMAIN str |->
                              IF s = {} THEN 0 ELSE LET x == Max(s) IN One(f[s \ {x}], str[x])]
           iter == CHOOSE f : Reads(f)
<1>1. ValueOf(str) = iter[DOMAIN str]
  BY DEF ValueOf, FoldLeft, MapThenFoldSet
<1>2. DOMAIN str = 1 .. n /\ n \in Nat
  OBVIOUS
<1>3. ASSUME NEW c \in Nat, NEW i \in 1 .. n PROVE One(c, str[i]) \in Nat
  <2>1. str[i] \in Nat
    BY ElementOfSeq
  <2>2. \A d \in Nat : c * 10 + d \in Nat
    OBVIOUS
  <2> QED BY <2>1, <2>2
<1> HIDE DEF One, n
<1>4. Reads(iter)
  <2> DEFINE step == [i \in 1 .. n |-> [c \in Nat |-> One(c, str[i])]]
             pick == [s \in SUBSET (1 .. n) |-> Max(s)]
  <2>1. step \in [1 .. n -> [Nat -> Nat]] /\ \A i \in 1 .. n, c \in Nat : step[i][c] = One(c, str[i])
    BY <1>3
  <2>2. \A s \in SUBSET (1 .. n) : s # {} => pick[s] = Max(s) /\ pick[s] \in s
    <3> SUFFICES ASSUME NEW s \in SUBSET (1 .. n), s # {} PROVE Max(s) \in s
      OBVIOUS
    <3>1. s \in SUBSET Nat /\ s \subseteq 1 .. n
      BY <1>2
    <3> QED BY <1>2, <3>1, MaxIs
  <2> HIDE DEF step, pick
  <2>f. PICK f : Folds(f, Nat, 0, n, step, pick)
    <3>1. FoldInputs(Nat, 0, n, step, pick)
      BY <1>2, <2>1, <2>2 DEF FoldInputs
    <3> QED BY <3>1, FoldIsDefined
  <2>3. /\ f \in [SUBSET (1 .. n) -> Nat]
        /\ \A s \in SUBSET (1 .. n) : f[s] = IF s = {} THEN 0 ELSE step[pick[s]][f[s \ {pick[s]}]]
    BY <2>f DEF Folds
  <2>4. ASSUME NEW s \in SUBSET (1 .. n)
        PROVE  f[s] = IF s = {} THEN 0 ELSE One(f[s \ {Max(s)}], str[Max(s)])
    <3>1. CASE s = {}
      BY <2>3, <3>1
    <3>2. CASE s # {}
      <4>1. Max(s) = pick[s] /\ pick[s] \in 1 .. n /\ s \ {pick[s]} \in SUBSET (1 .. n)
        BY <2>2, <3>2
      <4>2. f[s \ {pick[s]}] \in Nat
        BY <2>3, <4>1
      <4>3. step[pick[s]][f[s \ {pick[s]}]] = One(f[s \ {pick[s]}], str[pick[s]])
        BY <2>1, <4>1, <4>2
      <4>4. f[s] = step[pick[s]][f[s \ {pick[s]}]]
        BY <2>3, <3>2
      <4> QED BY <3>2, <4>1, <4>3, <4>4
    <3> QED BY <3>1, <3>2
  <2>5. Reads(f)
    BY <1>2, <2>3, <2>4
  <2> HIDE DEF Reads
  <2> QED BY <2>5
<1> HIDE DEF iter
<1>5. \A s \in SUBSET (1 .. n) : iter[s] = IF s = {} THEN 0 ELSE One(iter[s \ {Max(s)}], str[Max(s)])
  BY <1>2, <1>4
<1> DEFINE g == [i \in 0 .. n |-> iter[1 .. i]]
<1>6. ASSUME NEW i \in 1 .. n PROVE g[i] = One(g[i - 1], str[i])
  <2>1. 1 .. i \in SUBSET Nat /\ i \in Nat /\ 1 .. i # {} /\ i \in 1 .. i /\ 1 .. i \in SUBSET (1 .. n)
    <3>1. i \in Nat /\ 1 <= i /\ i <= n
      BY <1>2
    <3>2. i \in 1 .. i /\ 1 .. i \in SUBSET (1 .. n)
      BY <1>2, <3>1
    <3>3. 1 .. i \in SUBSET Nat
      OBVIOUS
    <3> QED BY <3>1, <3>2, <3>3
  <2>2. Max(1 .. i) \in 1 .. i /\ i <= Max(1 .. i)
    BY <2>1, MaxIs
  <2>3. Max(1 .. i) = i /\ (1 .. i) \ {i} = 1 .. i - 1
    BY <2>1, <2>2
  <2>4. iter[1 .. i] = One(iter[1 .. i - 1], str[i])
    BY <1>5, <2>1, <2>3
  <2>5. i \in 0 .. n /\ i - 1 \in 0 .. n
    BY <1>2
  <2> QED BY <2>4, <2>5
<1>7. g[0] = 0
  <2>1. 1 .. 0 = {} /\ {} \in SUBSET (1 .. n) /\ 0 \in 0 .. n
    BY <1>2
  <2>2. iter[{}] = 0
    BY <1>5, <2>1
  <2> QED BY <2>1, <2>2
<1> HIDE DEF Reads
<1>8. DOMAIN g = 0 .. n /\ g[n] = iter[1 .. n] /\ g = [i \in 0 .. n |-> g[i]]
  BY <1>2
<1> HIDE DEF g
<1> DEFINE Typed == {i \in Nat : i <= n => g[i] \in Nat}
<1>9. 0 \in Typed
  BY <1>7
<1>10. ASSUME NEW i \in Typed \cap Nat PROVE i + 1 \in Typed
  <2> SUFFICES ASSUME i + 1 <= n PROVE g[i + 1] \in Nat
    OBVIOUS
  <2>1. i + 1 \in 1 .. n /\ (i + 1) - 1 = i /\ g[i] \in Nat
    BY <1>2
  <2> QED BY <1>3, <1>6, <2>1
<1>11. \A i \in 0 .. n : g[i] \in Nat
  <2>1. Nat \subseteq Typed
    <3> HIDE DEF Typed
    <3> QED BY <1>9, <1>10, NatIsInductive
  <2> QED BY <1>2, <2>1
<1>12. Values(g, str)
  BY <1>6, <1>7, <1>8, <1>11 DEF Values, One, n
<1>13. ValueOf(str) = g[n]
  BY <1>1, <1>2, <1>8
<1> QED BY <1>12, <1>13 DEF n

(* Dividing a number by 10 until nothing is left.                          *)
Tenths(q, value, places) ==
    /\ places \in Nat \ {0} /\ q \in [0 .. places -> Nat] /\ q[0] = value /\ q[places] = 0
    /\ \A i \in 1 .. places : q[i] = q[i - 1] \div 10
    /\ \A i \in 1 .. places - 1 : q[i] > 0

LEMMA TenthsAgree ==
  ASSUME NEW value, NEW q, NEW m, Tenths(q, value, m), NEW r, NEW n, Tenths(r, value, n)
  PROVE  m <= n
<1> SUFFICES ASSUME ~(m <= n) PROVE FALSE
  OBVIOUS
<1>1. m \in Nat /\ n \in Nat /\ n \in 1 .. m - 1
  BY DEF Tenths
<1> DEFINE Same == {i \in Nat : i <= n => q[i] = r[i]}
<1>2. 0 \in Same
  BY DEF Tenths
<1>3. ASSUME NEW i \in Same \cap Nat PROVE i + 1 \in Same
  <2> SUFFICES ASSUME i + 1 <= n PROVE q[i + 1] = r[i + 1]
    OBVIOUS
  <2>1. i + 1 \in 1 .. m /\ i + 1 \in 1 .. n /\ (i + 1) - 1 = i /\ q[i] = r[i]
    BY <1>1
  <2> QED BY <2>1 DEF Tenths
<1>4. Nat \subseteq Same
  <2> HIDE DEF Same
  <2> QED BY <1>2, <1>3, NatIsInductive
<1>5. q[n] = r[n]
  BY <1>1, <1>4
<1> QED BY <1>1, <1>5 DEF Tenths

LEMMA TenthIs ==
  ASSUME NEW v \in Nat
  PROVE  /\ v \div 10 \in Nat /\ v % 10 \in 0 .. 9 /\ v = 10 * (v \div 10) + (v % 10)
         /\ v < 10 => v \div 10 = 0 /\ v % 10 = v
         /\ v > 0 => v \div 10 < v
         /\ v >= 10 => v \div 10 > 0
OBVIOUS

LEMMA OneDigit ==
  ASSUME NEW v \in Nat, v < 10
  PROVE  Tenths([i \in 0 .. 1 |-> IF i = 0 THEN v ELSE 0], v, 1)
<1> DEFINE q == [i \in 0 .. 1 |-> IF i = 0 THEN v ELSE 0]
<1>1. q \in [0 .. 1 -> Nat] /\ q[0] = v /\ q[1] = 0
  OBVIOUS
<1>2. v \div 10 = 0
  BY TenthIs
<1> HIDE DEF q
<1>3. \A i \in 1 .. 1 : q[i] = q[i - 1] \div 10
  <2>1. \A i \in 1 .. 1 : i = 1 /\ i - 1 = 0
    OBVIOUS
  <2> QED BY <1>1, <1>2, <2>1
<1>4. \A i \in 1 .. 1 - 1 : q[i] > 0
  OBVIOUS
<1>5. Tenths(q, v, 1)
  BY <1>1, <1>3, <1>4 DEF Tenths
<1> QED BY <1>5 DEF q

LEMMA OneDigitMore ==
  ASSUME NEW v \in Nat, v >= 10, NEW r, NEW n, Tenths(r, v \div 10, n)
  PROVE  Tenths([i \in 0 .. n + 1 |-> IF i = 0 THEN v ELSE r[i - 1]], v, n + 1)
<1> DEFINE q == [i \in 0 .. n + 1 |-> IF i = 0 THEN v ELSE r[i - 1]]
<1>1. /\ n \in Nat \ {0} /\ r \in [0 .. n -> Nat] /\ r[0] = v \div 10 /\ r[n] = 0
      /\ \A i \in 1 .. n : r[i] = r[i - 1] \div 10
      /\ \A i \in 1 .. n - 1 : r[i] > 0
  BY DEF Tenths
<1>2. n + 1 \in Nat \ {0} /\ (n + 1) - 1 = n /\ v \div 10 > 0 /\ v \div 10 \in Nat
  BY <1>1, TenthIs
<1>3. \A i \in 1 .. n + 1 : i - 1 \in 0 .. n /\ i \in 0 .. n + 1 /\ i # 0
  BY <1>1
<1>4. q[0] = v /\ \A i \in 1 .. n + 1 : q[i] = r[i - 1]
  BY <1>1, <1>3
<1>5. q \in [0 .. n + 1 -> Nat]
  <2>1. \A i \in 0 .. n + 1 : i # 0 => i - 1 \in 0 .. n
    BY <1>1
  <2> QED BY <1>1, <2>1
<1> HIDE DEF q
<1>6. q[n + 1] = 0
  BY <1>1, <1>2, <1>4
<1>7. ASSUME NEW i \in 1 .. n + 1 PROVE q[i] = q[i - 1] \div 10
  <2>1. CASE i = 1
    <3>1. q[1] = r[1 - 1] /\ 1 - 1 = 0
      BY <1>3, <1>4, <2>1
    <3> QED BY <1>1, <1>4, <2>1, <3>1
  <2>2. CASE i # 1
    <3>1. i - 1 \in 1 .. n /\ i - 1 \in 1 .. n + 1
      BY <1>1, <2>2
    <3>2. q[i] = r[i - 1] /\ q[i - 1] = r[(i - 1) - 1] /\ r[i - 1] = r[(i - 1) - 1] \div 10
      BY <1>1, <1>4, <3>1
    <3> QED BY <3>2
  <2> QED BY <2>1, <2>2
<1>8. ASSUME NEW i \in 1 .. (n + 1) - 1 PROVE q[i] > 0
  <2>1. i \in 1 .. n /\ i \in 1 .. n + 1
    BY <1>1
  <2>2. q[i] = r[i - 1]
    BY <1>4, <2>1
  <2>3. CASE i = 1
    BY <1>1, <1>2, <2>2, <2>3
  <2>4. CASE i # 1
    <3>1. i - 1 \in 1 .. n - 1
      BY <1>1, <2>1, <2>4
    <3> QED BY <1>1, <2>2, <3>1
  <2> QED BY <2>3, <2>4
<1>9. Tenths(q, v, n + 1)
  BY <1>2, <1>4, <1>5, <1>6, <1>7, <1>8 DEF Tenths
<1> QED BY <1>9 DEF q

(* The digits of a number, the lowest first.                               *)
DigitsOf(q, n) == [j \in 1 .. n |-> q[j - 1] % 10]

LEMMA LowDigitsAre ==
  ASSUME NEW value \in Nat
  PROVE  \E n, q : Tenths(q, value, n) /\ LowDigits(value, 10) = DigitsOf(q, n)
<1> DEFINE Next10(f, v) == IF v < 10 THEN <<v>> ELSE <<v % 10>> \o f[v \div 10]
           Writes(f) == f = [v \in 0 .. value |-> Next10(f, v)]
           digits == CHOOSE f : Writes(f)
           Done == {n \in Nat : \E f : DOMAIN f = 0 .. n /\ \A v \in 0 .. n : f[v] = Next10(f, v)}
<1>1. LowDigits(value, 10) = digits[value]
  BY DEF LowDigits
<1>2. 0 \in Done
  <2> DEFINE f == [v \in 0 .. 0 |-> <<v>>]
  <2>1. DOMAIN f = 0 .. 0 /\ \A v \in 0 .. 0 : f[v] = Next10(f, v)
    OBVIOUS
  <2> HIDE DEF f, Next10
  <2> QED BY <2>1
<1>3. ASSUME NEW n \in Done \cap Nat PROVE n + 1 \in Done
  <2>1. PICK f : DOMAIN f = 0 .. n /\ \A v \in 0 .. n : f[v] = Next10(f, v)
    OBVIOUS
  <2> DEFINE h == [v \in 0 .. n + 1 |-> IF v <= n THEN f[v] ELSE Next10(f, v)]
  <2>2. ASSUME NEW v \in 0 .. n + 1 PROVE h[v] = Next10(h, v)
    <3>1. h[v] = Next10(f, v)
      <4>1. v <= n => v \in 0 .. n
        OBVIOUS
      <4> HIDE DEF Next10
      <4> QED BY <2>1, <4>1
    <3>2. v >= 10 => h[v \div 10] = f[v \div 10]
      <4>1. v >= 10 => v \div 10 \in 0 .. n
        BY TenthIs
      <4>2. v >= 10 => v \div 10 \in 0 .. n + 1 /\ v \div 10 <= n
        BY <4>1
      <4> QED BY <4>2
    <3>3. v < 10 \/ v >= 10
      OBVIOUS
    <3> HIDE DEF h
    <3> QED BY <3>1, <3>2, <3>3
  <2>3. DOMAIN h = 0 .. n + 1
    OBVIOUS
  <2> HIDE DEF h, Next10
  <2>4. n + 1 \in Nat
    OBVIOUS
  <2> QED BY <2>2, <2>3, <2>4
<1>4. PICK f : DOMAIN f = 0 .. value /\ \A v \in 0 .. value : f[v] = Next10(f, v)
  <2>1. value \in Done
    <3> HIDE DEF Done
    <3> QED BY <1>2, <1>3, NatIsInductive
  <2> QED BY <2>1
<1> HIDE DEF Next10
<1>5. \A v \in 0 .. value : digits[v] = Next10(digits, v)
  <2> DEFINE g == [v \in 0 .. value |-> f[v]]
  <2>1. \A v \in 0 .. value : g[v] = Next10(g, v)
    <3> SUFFICES ASSUME NEW v \in 0 .. value PROVE Next10(f, v) = Next10(g, v)
      BY <1>4
    <3>1. v >= 10 => v \div 10 \in 0 .. value
      BY TenthIs
    <3>2. v >= 10 => g[v \div 10] = f[v \div 10]
      BY <3>1
    <3>3. v < 10 \/ v >= 10
      OBVIOUS
    <3> HIDE DEF g
    <3> QED BY <3>2, <3>3 DEF Next10
  <2>2. Writes(g)
    BY <2>1
  <2> HIDE DEF g
  <2>3. Writes(digits)
    <3> HIDE DEF Writes
    <3> QED BY <2>2
  <2> QED BY <2>3
<1> HIDE DEF digits, Writes
<1> DEFINE Written10(v) == \E n, q : Tenths(q, v, n) /\ digits[v] = DigitsOf(q, n)
           Right == {n \in Nat : \A v \in 0 .. n : v <= value => Written10(v)}
<1>6. ASSUME NEW v \in 0 .. value, \A u \in 0 .. value : u < v => Written10(u) PROVE Written10(v)
  <2>1. v \in Nat /\ digits[v] = IF v < 10 THEN <<v>> ELSE <<v % 10>> \o digits[v \div 10]
    BY <1>5 DEF Next10
  <2>2. CASE v < 10
    <3> DEFINE q == [i \in 0 .. 1 |-> IF i = 0 THEN v ELSE 0]
    <3>1. Tenths(q, v, 1)
      BY <2>1, <2>2, OneDigit
    <3>2. q[0] = v /\ v % 10 = v
      BY <2>1, <2>2, TenthIs
    <3> HIDE DEF q
    <3>3. DigitsOf(q, 1) = <<v>>
      <4>1. \A j \in 1 .. 1 : q[j - 1] % 10 = v
        <5>1. \A j \in 1 .. 1 : j - 1 = 0
          OBVIOUS
        <5> QED BY <3>2, <5>1
      <4> QED BY <4>1 DEF DigitsOf
    <3> QED BY <2>1, <2>2, <3>1, <3>3
  <2>3. CASE ~(v < 10)
    <3>1. v \div 10 \in 0 .. value /\ v \div 10 < v /\ v >= 10 /\ v % 10 \in Nat
      BY <2>1, <2>3, TenthIs
    <3>2. PICK n, r : Tenths(r, v \div 10, n) /\ digits[v \div 10] = DigitsOf(r, n)
      BY <1>6, <3>1
    <3> DEFINE q == [i \in 0 .. n + 1 |-> IF i = 0 THEN v ELSE r[i - 1]]
    <3>3. Tenths(q, v, n + 1)
      BY <2>1, <3>1, <3>2, OneDigitMore
    <3>4. n \in Nat /\ r \in [0 .. n -> Nat]
      BY <3>2 DEF Tenths
    <3>5. q[0] = v /\ \A i \in 1 .. n + 1 : q[i] = r[i - 1]
      BY <3>4
    <3> HIDE DEF q
    <3>6. DigitsOf(r, n) \in Seq(Nat) /\ Len(DigitsOf(r, n)) = n /\ \A j \in 1 .. n : DigitsOf(r, n)[j] = r[j - 1] % 10
      <4>1. \A j \in 1 .. n : r[j - 1] % 10 \in Nat
        <5> SUFFICES ASSUME NEW j \in 1 .. n PROVE r[j - 1] % 10 \in Nat
          OBVIOUS
        <5>1. j - 1 \in 0 .. n
          BY <3>4
        <5>2. r[j - 1] \in Nat
          BY <3>4, <5>1
        <5>3. r[j - 1] % 10 \in 0 .. 9
          BY <5>2, TenthIs
        <5> QED BY <5>3
      <4>2. DigitsOf(r, n) \in [1 .. n -> Nat]
        BY <4>1 DEF DigitsOf
      <4> QED BY <3>4, <4>2, SeqIs DEF DigitsOf
    <3>7. <<v % 10>> \o DigitsOf(r, n) = DigitsOf(q, n + 1)
      <4> DEFINE t == DigitsOf(r, n)
                 one == <<v % 10>>
      <4>1. one \in Seq(Nat) /\ Len(one) = 1 /\ one[1] = v % 10
        BY <3>1
      <4>2. t \in Seq(Nat) /\ Len(t) = n
        BY <3>6
      <4> HIDE DEF one, t
      <4>3. one \o t \in Seq(Nat) /\ Len(one \o t) = n + 1 /\ (one \o t)[1] = v % 10
        BY <3>4, <4>1, <4>2
      <4>4. \A j \in 1 .. n : (one \o t)[j + 1] = t[j]
        <5>1. \A j \in 1 .. Len(t) : (one \o t)[Len(one) + j] = t[j]
          <6>1. one \in Seq(Nat) /\ t \in Seq(Nat)
            BY <4>1, <4>2
          <6> QED BY <6>1, ConcatIs
        <5>2. \A j \in 1 .. n : Len(one) + j = j + 1
          BY <3>4, <4>1
        <5> QED BY <4>2, <5>1, <5>2
      <4>5. ASSUME NEW j \in 1 .. n + 1 PROVE (one \o t)[j] = q[j - 1] % 10
        <5>1. CASE j = 1
          BY <3>5, <4>3, <5>1, SMTT(30)
        <5>2. CASE j # 1
          <6>1. j - 1 \in 1 .. n /\ j - 1 \in 1 .. n + 1 /\ (j - 1) + 1 = j
            BY <3>4, <5>2
          <6>2. (one \o t)[j] = t[j - 1] /\ q[j - 1] = r[(j - 1) - 1] /\ t[j - 1] = r[(j - 1) - 1] % 10
            BY <3>5, <3>6, <4>4, <6>1 DEF t
          <6> QED BY <6>2
        <5> QED BY <5>1, <5>2
      <4>6. one \o t = [j \in 1 .. n + 1 |-> q[j - 1] % 10]
        <5>1. PICK u \in Seq(Nat) : u = one \o t
          BY <4>3
        <5>2. u = [j \in 1 .. Len(u) |-> u[j]]
          OBVIOUS
        <5>3. Len(u) = n + 1 /\ \A j \in 1 .. n + 1 : u[j] = q[j - 1] % 10
          BY <4>3, <4>5, <5>1
        <5> QED BY <5>1, <5>2, <5>3
      <4> QED BY <4>6 DEF one, t, DigitsOf
    <3> QED BY <2>1, <2>3, <3>2, <3>3, <3>7
  <2> QED BY <2>2, <2>3
<1> HIDE DEF Written10
<1>7. 0 \in Right
  <2>1. Written10(0)
    <3>1. 0 \in 0 .. value /\ \A u \in 0 .. value : ~(u < 0)
      OBVIOUS
    <3> QED BY <1>6, <3>1
  <2> QED BY <2>1
<1>8. ASSUME NEW n \in Right \cap Nat PROVE n + 1 \in Right
  <2> SUFFICES ASSUME n + 1 <= value PROVE Written10(n + 1)
    OBVIOUS
  <2>1. n + 1 \in 0 .. value /\ \A u \in 0 .. value : u < n + 1 => u \in 0 .. n /\ u <= value
    OBVIOUS
  <2> QED BY <1>6, <2>1
<1>9. Written10(value)
  <2>1. value \in Right
    <3> HIDE DEF Right
    <3> QED BY <1>7, <1>8, NatIsInductive
  <2> QED BY <2>1
<1> QED BY <1>1, <1>9 DEF Written10

(* decimalDigits counts them.                                              *)
LEMMA decimalDigitsIs ==
  ASSUME NEW value \in Nat
  PROVE  \E q : Tenths(q, value, decimalDigits(value))
<1> DEFINE Count(f, v) == IF v = 0 THEN 0 ELSE 1 + f[v \div 10]
           Counts(f) == f = [n \in 0 .. value |-> Count(f, n)]
           digits == CHOOSE f : Counts(f)
           Done == {n \in Nat : \E f : DOMAIN f = 0 .. n /\ \A v \in 0 .. n : f[v] = Count(f, v)}
<1>1. decimalDigits(value) = IF value = 0 THEN 1 ELSE digits[value]
  BY DEF decimalDigits
<1>2. 0 \in Done
  <2> DEFINE f == [v \in 0 .. 0 |-> 0]
  <2>1. DOMAIN f = 0 .. 0 /\ \A v \in 0 .. 0 : f[v] = Count(f, v)
    OBVIOUS
  <2> HIDE DEF f, Count
  <2> QED BY <2>1
<1>3. ASSUME NEW n \in Done \cap Nat PROVE n + 1 \in Done
  <2>1. PICK f : DOMAIN f = 0 .. n /\ \A v \in 0 .. n : f[v] = Count(f, v)
    OBVIOUS
  <2> DEFINE h == [v \in 0 .. n + 1 |-> IF v <= n THEN f[v] ELSE Count(f, v)]
  <2>2. ASSUME NEW v \in 0 .. n + 1 PROVE h[v] = Count(h, v)
    <3>1. h[v] = Count(f, v)
      <4>1. v <= n => v \in 0 .. n
        OBVIOUS
      <4> HIDE DEF Count
      <4> QED BY <2>1, <4>1
    <3>2. v > 0 => h[v \div 10] = f[v \div 10]
      <4>1. v > 0 => v \div 10 \in 0 .. n
        BY TenthIs
      <4>2. v > 0 => v \div 10 \in 0 .. n + 1 /\ v \div 10 <= n
        BY <4>1
      <4> QED BY <4>2
    <3>3. v = 0 \/ v > 0
      OBVIOUS
    <3> HIDE DEF h
    <3> QED BY <3>1, <3>2, <3>3
  <2>3. DOMAIN h = 0 .. n + 1
    OBVIOUS
  <2> HIDE DEF h, Count
  <2>4. n + 1 \in Nat
    OBVIOUS
  <2> QED BY <2>2, <2>3, <2>4
<1>4. PICK f : DOMAIN f = 0 .. value /\ \A v \in 0 .. value : f[v] = Count(f, v)
  <2>1. value \in Done
    <3> HIDE DEF Done
    <3> QED BY <1>2, <1>3, NatIsInductive
  <2> QED BY <2>1
<1> HIDE DEF Count
<1>5. \A v \in 0 .. value : digits[v] = Count(digits, v)
  <2> DEFINE g == [v \in 0 .. value |-> f[v]]
  <2>1. \A v \in 0 .. value : g[v] = Count(g, v)
    <3> SUFFICES ASSUME NEW v \in 0 .. value PROVE Count(f, v) = Count(g, v)
      BY <1>4
    <3>1. v > 0 => v \div 10 \in 0 .. value
      BY TenthIs
    <3>2. v > 0 => g[v \div 10] = f[v \div 10]
      BY <3>1
    <3>3. v = 0 \/ v > 0
      OBVIOUS
    <3> HIDE DEF g
    <3> QED BY <3>2, <3>3 DEF Count
  <2>2. Counts(g)
    BY <2>1
  <2> HIDE DEF g
  <2>3. Counts(digits)
    <3> HIDE DEF Counts
    <3> QED BY <2>2
  <2> QED BY <2>3
<1> HIDE DEF digits, Counts
<1> DEFINE Counted(v) == v > 0 => \E q : Tenths(q, v, digits[v])
           Right == {n \in Nat : \A v \in 0 .. n : v <= value => Counted(v)}
<1>6. ASSUME NEW v \in 0 .. value, \A u \in 0 .. value : u < v => Counted(u) PROVE Counted(v)
  <2> SUFFICES ASSUME v > 0 PROVE \E q : Tenths(q, v, digits[v])
    OBVIOUS
  <2>1. v \in Nat /\ v \div 10 \in 0 .. value /\ v \div 10 < v /\ digits[v] = 1 + digits[v \div 10]
    BY <1>5, TenthIs DEF Count
  <2>2. CASE v < 10
    <3>1. v \div 10 = 0
      BY <2>1, <2>2, TenthIs
    <3>2. 0 \in 0 .. value
      OBVIOUS
    <3>3. digits[v] = 1
      BY <1>5, <2>1, <3>1, <3>2 DEF Count
    <3> QED BY <2>1, <2>2, <3>3, OneDigit
  <2>3. CASE ~(v < 10)
    <3>1. v >= 10 /\ v \div 10 > 0
      BY <2>1, <2>3, TenthIs
    <3>2. PICK r : Tenths(r, v \div 10, digits[v \div 10])
      BY <1>6, <2>1, <3>1
    <3>3. digits[v] = digits[v \div 10] + 1
      BY <2>1, <3>2 DEF Tenths
    <3> QED BY <2>1, <3>1, <3>2, <3>3, OneDigitMore
  <2> QED BY <2>2, <2>3
<1>7. 0 \in Right
  OBVIOUS
<1> HIDE DEF Counted
<1>8. ASSUME NEW n \in Right \cap Nat PROVE n + 1 \in Right
  <2> SUFFICES ASSUME n + 1 <= value PROVE Counted(n + 1)
    OBVIOUS
  <2>1. n + 1 \in 0 .. value /\ \A u \in 0 .. value : u < n + 1 => u \in 0 .. n /\ u <= value
    OBVIOUS
  <2> QED BY <1>6, <2>1
<1>9. Counted(value)
  <2>1. value \in Right
    <3> HIDE DEF Right
    <3> QED BY <1>7, <1>8, NatIsInductive
  <2> QED BY <2>1
<1>10. CASE value = 0
  <2>1. decimalDigits(value) = 1 /\ 0 < 10
    BY <1>1, <1>10
  <2> QED BY <1>10, <2>1, OneDigit
<1>11. CASE value # 0
  BY <1>1, <1>9, <1>11 DEF Counted
<1> QED BY <1>10, <1>11

LEMMA TimesIs ==
  ASSUME NEW a \in Nat, NEW b \in Nat, NEW c \in Nat, a <= b
  PROVE  a * c <= b * c /\ a * c \in Nat /\ b * c \in Nat /\ (a * 10) * c = a * (c * 10)
<1>1. PICK d \in Nat : b = a + d
  <2>1. b - a \in Nat /\ b = a + (b - a)
    OBVIOUS
  <2> QED BY <2>1
<1>2. (a + d) * c = a * c + d * c /\ a * c \in Nat /\ d * c \in Nat
  OBVIOUS
<1>3. (a * 10) * c = a * (c * 10)
  OBVIOUS
<1> QED BY <1>1, <1>2, <1>3

(* What is left after some divisions, against the power of 10.             *)
LEMMA TenthsPowers ==
  ASSUME NEW v, NEW q, NEW n, Tenths(q, v, n)
  PROVE  \A i \in 0 .. n : q[i] * ipow(10, i) <= v /\ v < (q[i] + 1) * ipow(10, i)
<1> DEFINE p(i) == ipow(10, i)
           Between(i) == q[i] * p(i) <= v /\ v < (q[i] + 1) * p(i)
           Good == {i \in Nat : i <= n => Between(i)}
<1>1. p(0) = 1 /\ \A i \in Nat : p(i) \in Nat /\ p(i + 1) = p(i) * 10
  BY ipowIs
<1>2. /\ n \in Nat /\ q \in [0 .. n -> Nat] /\ q[0] = v /\ \A i \in 1 .. n : q[i] = q[i - 1] \div 10
  BY DEF Tenths
<1> HIDE DEF p
<1>3. 0 \in Good
  <2>1. v \in Nat
    BY <1>2
  <2>2. v * 1 <= v /\ v < (v + 1) * 1
    BY <2>1
  <2>3. Between(0)
    BY <1>1, <1>2, <2>2
  <2> QED BY <2>3
<1>4. ASSUME NEW i \in Good \cap Nat PROVE i + 1 \in Good
  <2> SUFFICES ASSUME i + 1 <= n PROVE Between(i + 1)
    OBVIOUS
  <2>1. i \in 0 .. n /\ i + 1 \in 1 .. n /\ (i + 1) - 1 = i /\ i \in Nat
    BY <1>2
  <2>2. PICK a \in Nat, b \in Nat, c \in Nat, w \in Nat :
           /\ a = q[i + 1] /\ b = q[i] /\ c = p(i) /\ p(i + 1) = c * 10 /\ a = b \div 10 /\ w = v
           /\ b * c <= w /\ w < (b + 1) * c
    <3>1. q[i] \in Nat /\ q[i + 1] \in Nat /\ p(i) \in Nat /\ v \in Nat
      BY <1>1, <1>2, <2>1
    <3>2. p(i + 1) = p(i) * 10 /\ q[i + 1] = q[i] \div 10
      BY <1>1, <1>2, <2>1
    <3>3. Between(i)
      BY <2>1
    <3> QED BY <3>1, <3>2, <3>3
  <2>3. a * 10 <= b /\ b + 1 <= (a + 1) * 10
    BY <2>2, TenthIs
  <2>4. (a * 10) * c <= b * c /\ a * (c * 10) = (a * 10) * c /\ (a * 10) * c \in Nat /\ b * c \in Nat
    BY <2>3, TimesIs
  <2>5. (b + 1) * c <= ((a + 1) * 10) * c /\ ((a + 1) * 10) * c = (a + 1) * (c * 10)
        /\ (b + 1) * c \in Nat /\ ((a + 1) * 10) * c \in Nat
    <3>1. b + 1 \in Nat /\ (a + 1) * 10 \in Nat /\ a + 1 \in Nat
      OBVIOUS
    <3>2. (b + 1) * c <= ((a + 1) * 10) * c /\ (b + 1) * c \in Nat /\ ((a + 1) * 10) * c \in Nat
      BY <2>3, <3>1, TimesIs
    <3>3. ((a + 1) * 10) * c = (a + 1) * (c * 10)
      BY <3>1, TimesIs
    <3> QED BY <3>2, <3>3
  <2>6. a * (c * 10) <= w /\ w < (a + 1) * (c * 10)
    <3>1. PICK x \in Nat, y \in Nat, z \in Nat, u \in Nat :
             x = a * (c * 10) /\ y = b * c /\ z = (b + 1) * c /\ u = (a + 1) * (c * 10)
      BY <2>4, <2>5
    <3>2. x <= y /\ y <= w /\ w < z /\ z <= u
      BY <2>2, <2>4, <2>5, <3>1
    <3>3. x <= w /\ w < u
      BY <3>2
    <3> QED BY <3>1, <3>3
  <2> QED BY <2>2, <2>6
<1>5. Nat \subseteq Good
  <2> HIDE DEF Good
  <2> QED BY <1>3, <1>4, NatIsInductive
<1> QED BY <1>2, <1>5 DEF p

(* The digits, the highest first, have the value of the number.            *)
LEMMA DigitsReadBack ==
  ASSUME NEW value \in Nat
  PROVE  intToStr(value, 10) \in Seq(Nat) /\ ValueOf(intToStr(value, 10)) = value
         /\ \E q : Tenths(q, value, Len(intToStr(value, 10)))
<1>1. PICK n, q : Tenths(q, value, n) /\ LowDigits(value, 10) = DigitsOf(q, n)
  BY LowDigitsAre
<1>2. /\ n \in Nat \ {0} /\ q \in [0 .. n -> Nat] /\ q[0] = value /\ q[n] = 0
      /\ \A i \in 1 .. n : q[i] = q[i - 1] \div 10
  BY <1>1 DEF Tenths
<1> DEFINE low == DigitsOf(q, n)
           str == Reverse(low)
<1>3. ASSUME NEW j \in 1 .. n PROVE low[j] = q[j - 1] % 10 /\ low[j] \in Nat
  <2>1. j - 1 \in 0 .. n
    BY <1>2
  <2>2. q[j - 1] \in Nat
    BY <1>2, <2>1
  <2>3. low[j] = q[j - 1] % 10
    BY DEF DigitsOf
  <2> HIDE DEF low
  <2> QED BY <2>2, <2>3, TenthIs
<1>4. DOMAIN low = 1 .. n /\ low \in [1 .. n -> Nat]
  BY <1>3 DEF DigitsOf
<1> HIDE DEF low
<1>5. Len(low) = n
  BY <1>2, <1>4, SeqIs
<1>6. str = [i \in 1 .. n |-> low[(n - i) + 1]]
  BY <1>5 DEF Reverse
<1>7. \A i \in 1 .. n : (n - i) + 1 \in 1 .. n /\ ((n - i) + 1) - 1 = n - i
  BY <1>2
<1> HIDE DEF str
<1>8. str \in [1 .. n -> Nat]
  BY <1>4, <1>6, <1>7
<1>9. str \in Seq(Nat) /\ Len(str) = n
  BY <1>2, <1>8, SeqIs
<1>10. \A i \in 1 .. n : str[i] = q[n - i] % 10
  BY <1>3, <1>6, <1>7
<1>11. intToStr(value, 10) = str
  BY <1>1 DEF intToStr, str, low
<1>12. PICK g : Values(g, str) /\ ValueOf(str) = g[n]
  BY <1>9, ValuesAre
<1>13. g[0] = 0 /\ \A i \in 1 .. n : g[i] = g[i - 1] * 10 + str[i]
  BY <1>9, <1>12 DEF Values
<1> DEFINE Good == {i \in Nat : i <= n => g[i] = q[n - i]}
<1>14. 0 \in Good
  <2>1. n - 0 = n
    BY <1>2
  <2> QED BY <1>2, <1>13, <2>1
<1>15. ASSUME NEW i \in Good \cap Nat PROVE i + 1 \in Good
  <2> SUFFICES ASSUME i + 1 <= n PROVE g[i + 1] = q[n - (i + 1)]
    OBVIOUS
  <2>1. i + 1 \in 1 .. n /\ (i + 1) - 1 = i /\ n - i \in 1 .. n /\ (n - i) - 1 = n - (i + 1) /\ n - (i + 1) \in 0 .. n /\ i <= n
    BY <1>2
  <2>2. PICK a \in Nat : a = q[n - (i + 1)]
    BY <1>2, <2>1
  <2>3. q[n - i] = a \div 10
    BY <1>2, <2>1, <2>2
  <2>4. g[i] = a \div 10
    BY <2>1, <2>3
  <2>5. g[i + 1] = g[i] * 10 + str[i + 1] /\ str[i + 1] = a % 10
    BY <1>10, <1>13, <2>1, <2>2
  <2>6. (a \div 10) * 10 + (a % 10) = a
    BY TenthIs
  <2> QED BY <2>2, <2>4, <2>5, <2>6
<1>16. ValueOf(str) = value
  <2>1. n \in Good
    <3> HIDE DEF Good
    <3>1. Nat \subseteq Good
      BY <1>14, <1>15, NatIsInductive
    <3> QED BY <1>2, <3>1
  <2>2. n - n = 0 /\ n <= n
    BY <1>2
  <2> QED BY <1>2, <1>12, <2>1, <2>2
<1> QED BY <1>1, <1>9, <1>11, <1>16

(* What is printed of a number is read as that number.                     *)
LEMMA NumbersReadBack ==
  ASSUME NEW num \in Int
  PROVE  stringToInt(printNum(num)) = num
<1>1. ASSUME NEW str \in Seq(Nat), NEW v \in Nat, ValueOf(str) = v, Len(str) \in Nat \ {0}
      PROVE  stringToInt(str) = v /\ stringToInt(<<Minus>> \o str) = -v
  <2>1. At(str, 1) # Minus
    <3>1. 1 <= Len(str) /\ 1 \in 1 .. Len(str)
      BY <1>1
    <3>2. str[1] \in Nat
      BY <3>1, ElementOfSeq
    <3> QED BY <3>1, <3>2 DEF At, Minus
  <2>2. stringToInt(str) = ValueOf(str)
    BY <2>1 DEF stringToInt, ValueOf
  <2> DEFINE neg == <<Minus>> \o str
  <2>3. Minus \in Int
    BY DEF Minus
  <2>4. neg \in Seq(Int) /\ Len(neg) = 1 + Len(str) /\ neg[1] = Minus /\ Tail(neg) = str
    BY <2>3
  <2>5. At(neg, 1) = Minus
    <3> HIDE DEF neg
    <3>1. 1 <= Len(neg)
      BY <1>1, <2>4
    <3> QED BY <2>4, <3>1 DEF At
  <2> HIDE DEF neg
  <2>6. stringToInt(neg) = -ValueOf(str)
    BY <2>4, <2>5 DEF stringToInt, ValueOf
  <2> QED BY <1>1, <2>2, <2>6 DEF neg
<1>2. ASSUME NEW v \in Nat PROVE stringToInt(intToStr(v, 10)) = v /\ stringToInt(<<Minus>> \o intToStr(v, 10)) = -v
  <2>1. intToStr(v, 10) \in Seq(Nat) /\ ValueOf(intToStr(v, 10)) = v /\ Len(intToStr(v, 10)) \in Nat \ {0}
    BY DigitsReadBack DEF Tenths
  <2> QED BY <1>1, <2>1
<1>3. CASE num < 0
  <2>1. -num \in Nat /\ -(-num) = num
    BY <1>3
  <2> QED BY <1>2, <1>3, <2>1 DEF printNum
<1>4. CASE ~(num < 0)
  BY <1>2, <1>4 DEF printNum
<1> QED BY <1>3, <1>4

(* The loops of streql and strcmp stop at the same character, and at the   *)
(* end only of equal strings.                                              *)
LEMMA StopIs ==
  ASSUME NEW s \in Seq(1 .. 255), NEW t \in Seq(1 .. 255)
  PROVE  /\ Stop(s, t) \in Nat \ {0} /\ Stop(s, t) <= Len(s) + 1 /\ Stop(s, t) <= Len(t) + 1
         /\ Stops(s, t, Stop(s, t)) /\ \A j \in 1 .. Stop(s, t) - 1 : ~Stops(s, t, j)
<1> DEFINE Ends == {i \in Nat \ {0} : Stops(s, t, i)}
<1>1. Len(s) \in Nat /\ Len(t) \in Nat
  OBVIOUS
<1>2. At(s, Len(s) + 1) = NUL /\ At(t, Len(t) + 1) = NUL
  <2>1. ~(Len(s) + 1 <= Len(s)) /\ ~(Len(t) + 1 <= Len(t))
    BY <1>1
  <2> QED BY <2>1 DEF At
<1>3. Len(s) + 1 \in Ends /\ Len(t) + 1 \in Ends
  BY <1>1, <1>2 DEF Stops
<1>4. PICK m \in Ends : \A n \in Ends : m <= n
  <2>1. Ends \in SUBSET Nat /\ Ends # {}
    BY <1>3
  <2> HIDE DEF Ends
  <2> QED BY <2>1, LeastNat
<1>5. m \in 1 .. Len(s) + 1 /\ m <= Len(t) + 1 /\ Stops(s, t, m)
  BY <1>1, <1>3, <1>4
<1>6. \A j \in 1 .. m - 1 : ~Stops(s, t, j)
  <2> SUFFICES ASSUME NEW j \in 1 .. m - 1, Stops(s, t, j) PROVE FALSE
    OBVIOUS
  <2>1. j \in Ends
    BY <1>4
  <2>2. m <= j
    BY <1>4, <2>1
  <2> QED BY <1>4, <2>2
<1>7. /\ Stop(s, t) \in 1 .. Len(s) + 1 /\ Stops(s, t, Stop(s, t)) /\ \A j \in 1 .. Stop(s, t) - 1 : ~Stops(s, t, j)
  BY <1>5, <1>6 DEF Stop
<1>8. Stop(s, t) <= m
  <2> SUFFICES ASSUME ~(Stop(s, t) <= m) PROVE FALSE
    OBVIOUS
  <2>1. m \in 1 .. Stop(s, t) - 1
    BY <1>1, <1>5, <1>7
  <2> QED BY <1>5, <1>7, <2>1
<1> QED BY <1>1, <1>5, <1>7, <1>8

LEMMA CharIs ==
  ASSUME NEW s \in Seq(1 .. 255), NEW i \in Nat \ {0}
  PROVE  At(s, i) \in Nat /\ (At(s, i) = NUL <=> i > Len(s)) /\ (i <= Len(s) => At(s, i) = s[i])
<1>1. CASE i <= Len(s)
  <2>1. i \in 1 .. Len(s)
    BY <1>1
  <2>2. s[i] \in 1 .. 255
    BY <2>1, ElementOfSeq
  <2>3. At(s, i) = s[i] /\ ~(i > Len(s))
    <3>1. Len(s) \in Nat
      OBVIOUS
    <3> QED BY <1>1, <3>1 DEF At
  <2>4. \A c \in 1 .. 255 : c # 0 /\ c \in Nat
    OBVIOUS
  <2>5. s[i] # 0 /\ s[i] \in Nat
    BY <2>2, <2>4, Zenon
  <2> QED BY <2>3, <2>5 DEF NUL
<1>2. CASE ~(i <= Len(s))
  <2>1. Len(s) \in Nat
    OBVIOUS
  <2> QED BY <1>2, <2>1 DEF At, NUL
<1> QED BY <1>1, <1>2

LEMMA StopAgrees ==
  ASSUME NEW s \in Seq(1 .. 255), NEW t \in Seq(1 .. 255), At(s, Stop(s, t)) = At(t, Stop(s, t))
  PROVE  s = t
<1>1. PICK p \in Nat \ {0} :
         /\ p = Stop(s, t) /\ p <= Len(s) + 1 /\ p <= Len(t) + 1
         /\ Stops(s, t, p) /\ \A j \in 1 .. p - 1 : ~Stops(s, t, j)
  BY StopIs
<1>2. At(s, p) = NUL /\ At(t, p) = NUL
  BY <1>1 DEF Stops
<1>3. p > Len(s) /\ p > Len(t)
  BY <1>2, CharIs
<1>4. Len(s) = p - 1 /\ Len(t) = p - 1
  <2>1. Len(s) \in Nat /\ Len(t) \in Nat
    OBVIOUS
  <2> QED BY <1>1, <1>3, <2>1
<1>5. ASSUME NEW j \in 1 .. p - 1 PROVE s[j] = t[j]
  <2>1. At(s, j) = At(t, j)
    BY <1>1 DEF Stops
  <2>2. j \in Nat \ {0} /\ j <= Len(s) /\ j <= Len(t)
    BY <1>4
  <2> QED BY <2>1, <2>2, CharIs
<1>6. s = [j \in 1 .. p - 1 |-> s[j]] /\ t = [j \in 1 .. p - 1 |-> t[j]]
  BY <1>4
<1> QED BY <1>5, <1>6

LEMMA StringsCompare ==
  ASSUME NEW s \in Seq(1 .. 255), NEW t \in Seq(1 .. 255)
  PROVE  /\ streql(s, t) <=> s = t
         /\ strcmp(s, t) = 0 <=> s = t
         /\ strcmp(s, t) = -strcmp(t, s)
<1>1. PICK p \in Nat \ {0} :
         /\ p = Stop(s, t) /\ p <= Len(s) + 1 /\ p <= Len(t) + 1
         /\ Stops(s, t, p) /\ \A j \in 1 .. p - 1 : ~Stops(s, t, j)
  BY StopIs
<1>2. PICK r \in Nat \ {0} :
         /\ r = Stop(t, s) /\ Stops(t, s, r) /\ \A j \in 1 .. r - 1 : ~Stops(t, s, j)
  BY StopIs
<1>3. \A j : Stops(s, t, j) <=> Stops(t, s, j)
  BY DEF Stops
<1>4. p = r
  <2>1. ~(p < r)
    <3> SUFFICES ASSUME p < r PROVE FALSE
      OBVIOUS
    <3>1. p \in 1 .. r - 1
      OBVIOUS
    <3> QED BY <1>1, <1>2, <1>3, <3>1
  <2>2. ~(r < p)
    <3> SUFFICES ASSUME r < p PROVE FALSE
      OBVIOUS
    <3>1. r \in 1 .. p - 1
      OBVIOUS
    <3> QED BY <1>1, <1>2, <1>3, <3>1
  <2> QED BY <2>1, <2>2
<1>5. PICK a \in Nat, b \in Nat : a = At(s, p) /\ b = At(t, p)
  BY CharIs
<1>6. strcmp(s, t) = a - b /\ strcmp(t, s) = b - a /\ (streql(s, t) <=> a = b)
  BY <1>1, <1>2, <1>4, <1>5 DEF strcmp, streql
<1>7. a = b <=> s = t
  BY <1>1, <1>5, StopAgrees
<1>8. (a - b = 0 <=> a = b) /\ a - b = -(b - a)
  OBVIOUS
<1> QED BY <1>6, <1>7, <1>8

(* The number of digits is that of the smallest power of 10 above.         *)
LEMMA DigitsAreCounted ==
  ASSUME NEW value \in Nat
  PROVE  /\ Len(intToStr(value, 10)) = decimalDigits(value)
         /\ ipow(10, decimalDigits(value)) > value
         /\ value # 0 => ipow(10, decimalDigits(value) - 1) <= value
<1>1. PICK r : Tenths(r, value, Len(intToStr(value, 10)))
  BY DigitsReadBack
<1>2. PICK n, q : n = decimalDigits(value) /\ Tenths(q, value, n)
  BY decimalDigitsIs
<1>3. Len(intToStr(value, 10)) = n
  <2>1. PICK m : m = Len(intToStr(value, 10)) /\ Tenths(r, value, m)
    BY <1>1
  <2>2. m <= n /\ n <= m
    BY <1>2, <2>1, TenthsAgree
  <2>3. m \in Nat /\ n \in Nat
    BY <1>2, <2>1 DEF Tenths
  <2> QED BY <2>1, <2>2, <2>3
<1>4. /\ n \in Nat \ {0} /\ q \in [0 .. n -> Nat] /\ q[0] = value /\ q[n] = 0
      /\ \A i \in 1 .. n - 1 : q[i] > 0
  BY <1>2 DEF Tenths
<1>5. \A i \in 0 .. n : q[i] * ipow(10, i) <= value /\ value < (q[i] + 1) * ipow(10, i)
  BY <1>2, TenthsPowers
<1>6. ipow(10, n) > value
  <2>1. PICK c \in Nat : c = ipow(10, n)
    BY <1>4, ipowIs
  <2>2. n \in 0 .. n
    BY <1>4
  <2>3. value < (0 + 1) * c
    BY <1>4, <1>5, <2>1, <2>2
  <2> QED BY <2>1, <2>3
<1>7. ASSUME value # 0 PROVE ipow(10, n - 1) <= value
  <2>1. n - 1 \in Nat /\ n - 1 \in 0 .. n
    BY <1>4
  <2>2. PICK c \in Nat, a \in Nat : c = ipow(10, n - 1) /\ a = q[n - 1] /\ a * c <= value
    BY <1>4, <1>5, <2>1, ipowIs
  <2>3. 1 <= a
    <3>1. CASE n - 1 = 0
      BY <1>4, <1>7, <2>2, <3>1
    <3>2. CASE n - 1 # 0
      <4>1. n - 1 \in 1 .. n - 1
        <5>1. PICK m \in Nat : m = n - 1 /\ m # 0
          BY <2>1, <3>2
        <5>2. \A k \in Nat : k # 0 => k \in 1 .. k
          <6> TAKE k \in Nat
          <6> HAVE k # 0
          <6>1. 1 <= k /\ k <= k
            OBVIOUS
          <6> QED BY <6>1
        <5> QED BY <5>1, <5>2
      <4> QED BY <1>4, <2>2, <4>1
    <3> QED BY <3>1, <3>2
  <2>4. 1 * c <= a * c /\ a * c \in Nat /\ 1 * c = c
    BY <2>3, TimesIs
  <2> QED BY <2>2, <2>4
<1> QED BY <1>2, <1>3, <1>6, <1>7

(* Whatever the arguments and the number: strings compare as they should,  *)
(* and numbers are read as they were printed, in as many digits as counted.*)
THEOREM LibraryAlwaysAgrees == Spec => []LibraryAgrees
<1>1. BootInv => LibraryAgrees
  <2> SUFFICES ASSUME BootInv PROVE LibraryAgrees
    OBVIOUS
  <2>1. args \in ArgVectors /\ number \in Int
    BY CellsAssumption DEF BootInv, Given
  <2>2. \A i \in DOMAIN args : args[i] \in Seq(1 .. 255)
    <3>1. args \in Seq(Seq(1 .. 255))
      BY <2>1, ArgumentsAre
    <3>2. \A i \in 1 .. Len(args) : args[i] \in Seq(1 .. 255)
      BY <2>1, ArgumentsAre
    <3>3. DOMAIN args = 1 .. Len(args)
      BY <3>1
    <3> QED BY <3>2, <3>3
  <2>3. \A i, j \in DOMAIN args :
          /\ streql(args[i], args[j]) <=> args[i] = args[j]
          /\ strcmp(args[i], args[j]) = 0 <=> args[i] = args[j]
          /\ strcmp(args[i], args[j]) = -strcmp(args[j], args[i])
    <3> SUFFICES ASSUME NEW i \in DOMAIN args, NEW j \in DOMAIN args
                 PROVE  /\ streql(args[i], args[j]) <=> args[i] = args[j]
                        /\ strcmp(args[i], args[j]) = 0 <=> args[i] = args[j]
                        /\ strcmp(args[i], args[j]) = -strcmp(args[j], args[i])
      OBVIOUS
    <3>1. PICK s \in Seq(1 .. 255), t \in Seq(1 .. 255) : s = args[i] /\ t = args[j]
      BY <2>2
    <3>2. (streql(s, t) <=> s = t) /\ (strcmp(s, t) = 0 <=> s = t) /\ strcmp(s, t) = -strcmp(t, s)
      BY StringsCompare
    <3> QED BY <3>1, <3>2, Zenon
  <2>4. stringToInt(printNum(number)) = number
    BY <2>1, NumbersReadBack
  <2>5. Abs(number) \in Nat /\ (number # 0 => Abs(number) # 0)
    BY <2>1 DEF Abs
  <2>6. /\ Len(intToStr(Abs(number), 10)) = decimalDigits(Abs(number))
        /\ ipow(10, decimalDigits(Abs(number))) > Abs(number)
        /\ Abs(number) # 0 => ipow(10, decimalDigits(Abs(number)) - 1) <= Abs(number)
    BY <2>5, DigitsAreCounted
  <2> QED BY <2>3, <2>4, <2>5, <2>6, Zenon DEF LibraryAgrees
<1> QED BY <1>1, BootInvHolds, PTL

-----------------------------------------------------------------------------
(* A file in memory, as its reader finds it.                               *)
Holds(mem, file, cells) == file \in Nat /\ \A c \in 1 .. Len(cells) : mem[file + c - 1] = cells[c]

LEMMA CharIsSigned == \A n \in 0 .. 127 : SignedChar(n) = n
BY DEF SignedChar

(* Behind the number of songs comes each song at its place.                *)
LEMMA SongsAreFound ==
  ASSUME NEW book \in SongBooks, NEW mem, NEW file, Holds(mem, file, Compiled(book))
  PROVE  /\ file \in Nat /\ mem[file] = Len(book) /\ Len(book) \in 0 .. 127
         /\ \A s \in 1 .. Len(book) :
               /\ Before(SongPieces(book), s - 1) \in Nat /\ Len(book[s]) \in 1 .. 127
               /\ Before(SongPieces(book), s) = Before(SongPieces(book), s - 1) + 1 + 2 * Len(book[s])
               /\ \A c \in 1 .. 1 + 2 * Len(book[s]) :
                     mem[file + 1 + Before(SongPieces(book), s - 1) + (c - 1)] = SongPieces(book)[s][c]
<1> DEFINE P == SongPieces(book)
           f == FlattenSeq(P)
<1>1. /\ P \in Seq(Seq(Nat)) /\ Len(P) = Len(book) /\ Compiled(book) = <<Len(book)>> \o f
      /\ \A s \in 1 .. Len(book) : Len(book[s]) \in 1 .. 127 /\ Len(P[s]) = 1 + 2 * Len(book[s])
  BY CompiledIs
<1>2. Len(book) \in 0 .. 127
  <2>1. book \in Seq(Seq(Note)) /\ Len(book) <= 127
    BY DataAssumption
  <2>2. PICK n \in Nat : n = Len(book)
    BY <2>1
  <2>3. n <= 127
    BY <2>1, <2>2, Zenon
  <2>4. \A m \in Nat : m <= 127 => m \in 0 .. 127
    OBVIOUS
  <2>5. n \in 0 .. 127
    BY <2>3, <2>4
  <2> QED BY <2>2, <2>5
<1> HIDE DEF P
<1>3. f \in Seq(Nat)
  BY <1>1, FlattenSteps
<1> DEFINE head == <<Len(book)>>
<1>4. head \in Seq(Nat) /\ Len(head) = 1 /\ head[1] = Len(book)
  BY <1>2
<1> HIDE DEF head, f
<1>5. /\ Len(head \o f) = Len(head) + Len(f) /\ Len(f) \in Nat
      /\ \A i \in 1 .. Len(head) : (head \o f)[i] = head[i]
      /\ \A i \in 1 .. Len(f) : (head \o f)[Len(head) + i] = f[i]
  <2>1. head \in Seq(Nat) /\ f \in Seq(Nat)
    BY <1>3, <1>4
  <2> QED BY <2>1, ConcatIs
<1>6. Compiled(book) = head \o f
  BY <1>1 DEF head
<1>7. PICK l \in Nat : l = Len(f) /\ Len(Compiled(book)) = 1 + l /\ Compiled(book)[1] = Len(book)
                       /\ \A i \in 1 .. l : Compiled(book)[1 + i] = f[i]
  <2>1. 1 \in 1 .. Len(head)
    BY <1>4
  <2> QED BY <1>4, <1>5, <1>6, <2>1
<1>8. file \in Nat /\ \A c \in 1 .. 1 + l : mem[file + c - 1] = Compiled(book)[c]
  BY <1>7 DEF Holds
<1>9. mem[file] = Len(book)
  <2>1. 1 \in 1 .. 1 + l /\ file + 1 - 1 = file
    BY <1>8
  <2> QED BY <1>7, <1>8, <2>1
<1>10. \A i \in 1 .. l : mem[file + i] = f[i]
  <2>1. \A i \in 1 .. l : 1 + i \in 1 .. 1 + l /\ file + (1 + i) - 1 = file + i
    BY <1>8
  <2> QED BY <1>7, <1>8, <2>1
<1>11. ASSUME NEW s \in 1 .. Len(book)
       PROVE  /\ Before(P, s - 1) \in Nat /\ Len(book[s]) \in 1 .. 127
              /\ Before(P, s) = Before(P, s - 1) + 1 + 2 * Len(book[s])
              /\ \A c \in 1 .. 1 + 2 * Len(book[s]) : mem[file + 1 + Before(P, s - 1) + (c - 1)] = P[s][c]
  <2>1. s \in 1 .. Len(P) /\ Len(P[s]) = 1 + 2 * Len(book[s]) /\ Len(book[s]) \in 1 .. 127
    BY <1>1
  <2>2. /\ Before(P, s - 1) \in Nat /\ Before(P, s) \in Nat
        /\ Before(P, s) = Before(P, s - 1) + Len(P[s]) /\ Before(P, s) <= Len(FlattenSeq(P))
        /\ \A c \in 1 .. Len(P[s]) : FlattenSeq(P)[Before(P, s - 1) + c] = P[s][c]
    <3>1. P \in Seq(Seq(Nat))
      BY <1>1
    <3> QED BY <2>1, <3>1, FlattenPlaces
  <2>3. PICK b \in Nat, n \in Nat : b = Before(P, s - 1) /\ n = Len(book[s]) /\ Len(P[s]) = 1 + 2 * n /\ n \in 1 .. 127
    <3>1. PICK n \in 1 .. 127 : n = Len(book[s])
      BY <2>1
    <3>2. n \in Nat /\ Len(P[s]) = 1 + 2 * n
      BY <2>1, <3>1
    <3> QED BY <2>2, <3>1, <3>2
  <2>4. Before(P, s) = b + 1 + 2 * n /\ b + 1 + 2 * n <= l
    <3>1. Before(P, s) = b + (1 + 2 * n) /\ b + (1 + 2 * n) <= Len(FlattenSeq(P))
      BY <2>2, <2>3
    <3>2. b + (1 + 2 * n) = b + 1 + 2 * n
      OBVIOUS
    <3> QED BY <1>7, <3>1, <3>2 DEF f
  <2>5. ASSUME NEW c \in 1 .. 1 + 2 * n PROVE mem[file + 1 + b + (c - 1)] = P[s][c]
    <3>1. b + c \in 1 .. l /\ file + 1 + b + (c - 1) = file + (b + c)
      <4>1. file \in Nat /\ b + 1 + 2 * n <= l
        BY <1>8, <2>4
      <4>2. c \in Nat /\ 1 <= c /\ c <= 1 + 2 * n
        OBVIOUS
      <4>3. b + c <= l /\ 1 <= b + c
        BY <4>1, <4>2
      <4> QED BY <4>1, <4>2, <4>3
    <3>2. f[b + c] = P[s][c]
      BY <2>2, <2>3 DEF f
    <3> QED BY <1>10, <3>1, <3>2
  <2> QED BY <2>1, <2>3, <2>4, <2>5
<1> QED BY <1>2, <1>8, <1>9, <1>11 DEF P

(* playSong skips to the place of its song.                                *)
LEMMA songDataIs ==
  ASSUME NEW book \in SongBooks, NEW mem, NEW file, Holds(mem, file, Compiled(book)), NEW k \in 1 .. Len(book)
  PROVE  songData(mem, file, k) = file + 1 + Before(SongPieces(book), k - 1)
<1> DEFINE At1(s) == file + 1 + Before(SongPieces(book), s - 1)
           Next1(f, s) == IF s = 1 THEN file + 1 ELSE f[s - 1] + 1 + 2 * SignedChar(mem[f[s - 1]])
           Skips(f) == f = [s \in 1 .. k |-> Next1(f, s)]
           data == CHOOSE f : Skips(f)
           g == [s \in 1 .. k |-> At1(s)]
<1>1. songData(mem, file, k) = data[k]
  BY DEF songData
<1>2. /\ file \in Nat /\ Len(book) \in 0 .. 127
      /\ \A s \in 1 .. Len(book) :
            /\ Before(SongPieces(book), s - 1) \in Nat /\ Len(book[s]) \in 1 .. 127
            /\ Before(SongPieces(book), s) = Before(SongPieces(book), s - 1) + 1 + 2 * Len(book[s])
            /\ \A c \in 1 .. 1 + 2 * Len(book[s]) :
                  mem[file + 1 + Before(SongPieces(book), s - 1) + (c - 1)] = SongPieces(book)[s][c]
  BY SongsAreFound
<1>3. At1(1) = file + 1
  <2>1. SongPieces(book) \in Seq(Seq(Nat))
    BY CompiledIs
  <2>2. Before(SongPieces(book), 0) = 0
    BY <2>1, BeforeIs
  <2> QED BY <1>2, <2>2
<1>4. ASSUME NEW s \in 1 .. Len(book), s # 1
      PROVE  At1(s) = At1(s - 1) + 1 + 2 * SignedChar(mem[At1(s - 1)])
  <2>1. PICK t \in 1 .. Len(book) : t = s - 1
    BY <1>4
  <2>2. PICK b \in Nat, n \in 1 .. 127 :
           /\ b = Before(SongPieces(book), t - 1) /\ n = Len(book[t]) /\ Before(SongPieces(book), t) = b + 1 + 2 * n
    BY <1>2
  <2>3. At1(t) = file + 1 + b
    BY <2>2
  <2>4. mem[file + 1 + b] = n
    <3>1. 1 \in 1 .. 1 + 2 * Len(book[t]) /\ file + 1 + b + (1 - 1) = file + 1 + b
      <4>1. 1 \in 1 .. 1 + 2 * n
        OBVIOUS
      <4>2. file + 1 + b + (1 - 1) = file + 1 + b
        BY <1>2
      <4> QED BY <2>2, <4>1, <4>2
    <3>2. mem[file + 1 + b + (1 - 1)] = SongPieces(book)[t][1]
      BY <1>2, <2>2, <3>1
    <3>3. SongPieces(book)[t][1] = Len(book[t])
      BY CompiledIs
    <3> QED BY <2>2, <3>1, <3>2, <3>3
  <2>5. SignedChar(mem[At1(t)]) = n
    <3>1. n \in 0 .. 127
      OBVIOUS
    <3> QED BY <2>3, <2>4, <3>1, CharIsSigned
  <2>6. At1(s) = file + 1 + (b + 1 + 2 * n)
    BY <2>1, <2>2
  <2>7. file + 1 + (b + 1 + 2 * n) = (file + 1 + b) + 1 + 2 * n
    BY <1>2
  <2> HIDE DEF At1
  <2> QED BY <2>1, <2>3, <2>5, <2>6, <2>7
<1>5. k \in Nat /\ \A s \in 1 .. k : s \in 1 .. Len(book) /\ (s # 1 => s - 1 \in 1 .. k)
  BY <1>2
<1> HIDE DEF At1
<1>6. Skips(g)
  <2>1. ASSUME NEW s \in 1 .. k PROVE g[s] = Next1(g, s)
    <3>1. CASE s = 1
      BY <1>3, <3>1
    <3>2. CASE s # 1
      <4>1. g[s] = At1(s) /\ g[s - 1] = At1(s - 1)
        BY <1>5, <3>2
      <4>2. At1(s) = At1(s - 1) + 1 + 2 * SignedChar(mem[At1(s - 1)])
        BY <1>4, <1>5, <3>2
      <4> HIDE DEF g
      <4> QED BY <3>2, <4>1, <4>2
    <3> QED BY <3>1, <3>2
  <2> HIDE DEF Next1
  <2> QED BY <2>1
<1>7. Skips(data)
  <2> HIDE DEF Skips, g
  <2> QED BY <1>6
<1> HIDE DEF data
<1>8. \A s \in 1 .. k : data[s] = Next1(data, s)
  <2> HIDE DEF Next1
  <2> QED BY <1>7
<1> HIDE DEF Skips
<1> DEFINE Good == {n \in Nat : n + 1 <= k => data[n + 1] = At1(n + 1)}
<1>9. 0 \in Good
  <2>1. 1 \in 1 .. k /\ 0 + 1 = 1
    BY <1>5
  <2>2. data[1] = file + 1
    BY <1>8, <2>1
  <2> QED BY <1>3, <2>1, <2>2
<1>10. ASSUME NEW n \in Good \cap Nat PROVE n + 1 \in Good
  <2> SUFFICES ASSUME (n + 1) + 1 <= k PROVE data[(n + 1) + 1] = At1((n + 1) + 1)
    OBVIOUS
  <2>1. PICK s \in 1 .. k : s = (n + 1) + 1 /\ s - 1 = n + 1 /\ s # 1
    BY <1>5
  <2>2. data[s - 1] = At1(s - 1)
    BY <1>5, <2>1
  <2>3. data[s] = data[s - 1] + 1 + 2 * SignedChar(mem[data[s - 1]])
    BY <1>8, <2>1
  <2>4. At1(s) = At1(s - 1) + 1 + 2 * SignedChar(mem[At1(s - 1)])
    BY <1>4, <1>5, <2>1
  <2>5. data[s] = At1(s)
    BY <2>2, <2>3, <2>4
  <2> QED BY <2>1, <2>5
<1>11. data[k] = At1(k)
  <2>1. Nat \subseteq Good
    <3> HIDE DEF Good
    <3> QED BY <1>9, <1>10, NatIsInductive
  <2>2. k - 1 \in Nat /\ (k - 1) + 1 = k /\ k <= k
    BY <1>5
  <2> QED BY <2>1, <2>2
<1> QED BY <1>1, <1>11 DEF At1

(* And plays its notes.                                                    *)
LEMMA playSongIs ==
  ASSUME NEW book \in SongBooks, NEW mem, NEW file, Holds(mem, file, Compiled(book)), NEW k \in 1 .. Len(book)
  PROVE  playSong(mem, file, k) = book[k]
<1>1. /\ file \in Nat /\ Before(SongPieces(book), k - 1) \in Nat /\ Len(book[k]) \in 1 .. 127
      /\ \A c \in 1 .. 1 + 2 * Len(book[k]) :
            mem[file + 1 + Before(SongPieces(book), k - 1) + (c - 1)] = SongPieces(book)[k][c]
  BY SongsAreFound
<1>2. /\ book[k] \in Seq(Note) /\ SongPieces(book)[k][1] = Len(book[k])
      /\ \A n \in 1 .. Len(book[k]) : /\ SongPieces(book)[k][2 * n] = book[k][n].freq
                                      /\ SongPieces(book)[k][2 * n + 1] = book[k][n].duration
  BY CompiledIs
<1>3. PICK song \in Seq(Note), m \in 1 .. 127 : song = book[k] /\ m = Len(song)
  BY <1>1, <1>2
<1>4. PICK d \in Nat : d = file + 1 + Before(SongPieces(book), k - 1)
  BY <1>1
<1>5. \A c \in 1 .. 1 + 2 * m : mem[d + (c - 1)] = SongPieces(book)[k][c]
  BY <1>1, <1>3, <1>4
<1>6. songData(mem, file, k) = d
  BY <1>4, songDataIs
<1>7. mem[d] = m
  <2>1. 1 \in 1 .. 1 + 2 * m /\ d + (1 - 1) = d
    OBVIOUS
  <2> QED BY <1>2, <1>3, <1>5, <2>1
<1>8. SignedChar(mem[d]) = m
  <2>1. m \in 0 .. 127
    OBVIOUS
  <2> QED BY <1>7, <2>1, CharIsSigned
<1> DEFINE Read(i) == [freq |-> mem[d + 2 * i - 1] % 65536, duration |-> mem[d + 2 * i]]
<1>9. ASSUME NEW i \in 1 .. m PROVE Read(i) = song[i]
  <2>1. song[i] \in Note
    BY <1>3, ElementOfSeq
  <2>2. PICK t \in Note : t = song[i]
    BY <2>1
  <2>3. t.freq \in Nat /\ t.freq <= 4978 /\ t = [freq |-> t.freq, duration |-> t.duration]
    <3>1. t.freq \in Nat /\ (t.freq # 0 => t.freq <= 4978)
      BY NoteIs
    <3>2. t = [freq |-> t.freq, duration |-> t.duration]
      BY DEF Note
    <3> QED BY <3>1, <3>2
  <2>4. 2 * i \in 1 .. 1 + 2 * m /\ 2 * i + 1 \in 1 .. 1 + 2 * m
        /\ d + (2 * i - 1) = d + 2 * i - 1 /\ d + ((2 * i + 1) - 1) = d + 2 * i
    OBVIOUS
  <2>5. mem[d + 2 * i - 1] = t.freq /\ mem[d + 2 * i] = t.duration
    BY <1>2, <1>3, <1>5, <2>2, <2>4
  <2>6. PICK f \in Nat : f = t.freq /\ f <= 4978
    BY <2>3
  <2>7. f % 65536 = f
    BY <2>6, SMT
  <2> QED BY <2>2, <2>3, <2>5, <2>6, <2>7, SMT
<1>10. playSong(mem, file, k) = [i \in 1 .. m |-> Read(i)]
  BY <1>6, <1>8, SMT DEF playSong
<1> HIDE DEF Read
<1>11. song = [i \in 1 .. m |-> song[i]]
  BY <1>3
<1> QED BY <1>3, <1>9, <1>10, <1>11

(* The timer's divisor is at least 239, so what is left of the division    *)
(* changes a frequency by less than a hundredth.                           *)
LEMMA SoundIsNear ==
  ASSUME NEW f \in Nat, f # 0 => 31 <= f /\ f <= 4978
  PROVE  playSound(f) - f \in -(f \div 100 + 1) .. f \div 100 + 1
<1>1. f \div 100 \in Nat /\ f < 100 * (f \div 100) + 100
  BY SMT
<1>2. PICK h \in Nat : h = f \div 100 /\ f < 100 * h + 100
  BY <1>1, SMT
<1>3. CASE f = 0
  <2>1. playSound(f) - f = 0
    BY <1>3, SMT DEF playSound
  <2> QED BY <1>2, <2>1, SMT
<1>4. CASE f # 0
  <2>1. f \in 31 .. 4978
    BY <1>4, SMT
  <2>2. PICK d \in Nat : d = 1193180 \div f
    BY <2>1, SMTT(30)
  <2>3. PICK x \in Nat : x = d * f /\ x <= 1193180 /\ 1193180 < x + f
    <3>1. d * f \in Nat /\ d * f <= 1193180 /\ 1193180 < d * f + f
      BY <2>1, <2>2, SMT
    <3> QED BY <3>1, SMT
  <2>4. d >= 239
    <3> SUFFICES ASSUME d <= 238 PROVE FALSE
      BY SMT
    <3>1. d * f <= 238 * f
      BY <2>1, SMT
    <3>2. x <= 238 * f
      BY <2>3, <3>1, SMT
    <3> QED BY <2>1, <2>3, <3>2, SMTT(30)
  <2>5. d < 65536
    <3> SUFFICES ASSUME d >= 65536 PROVE FALSE
      BY SMT
    <3>1. d * f >= 65536 * f
      BY <2>1, SMT
    <3>2. x >= 65536 * f
      BY <2>3, <3>1, SMT
    <3> QED BY <2>1, <2>3, <3>2, SMTT(30)
  <2>6. Divisor(f) = d
    <3>1. d % 65536 = d
      BY <2>5, SMT
    <3>2. Timer \div f = d
      BY <2>2, SMT DEF Timer
    <3> QED BY <3>1, <3>2, SMT DEF Divisor
  <2>7. PICK s \in Nat : s = 1193180 \div d /\ playSound(f) = s
    <3>1. 1193180 \div d \in Nat
      BY <2>4, SMT
    <3>2. playSound(f) = 1193180 \div d
      BY <1>4, <2>6, SMT DEF playSound, Timer
    <3> QED BY <3>1, <3>2, SMT
  <2>8. d * s <= 1193180 /\ 1193180 < d * s + d
    BY <2>4, <2>7, SMT
  <2>9. s >= f
    <3> SUFFICES ASSUME s + 1 <= f PROVE FALSE
      BY SMT
    <3>1. d * (s + 1) <= d * f
      BY <2>4, SMT
    <3>2. d * (s + 1) = d * s + d
      BY SMT
    <3> QED BY <2>3, <2>8, <3>1, <3>2, SMT
  <2>10. PICK e \in Nat : s = f + e
    <3>1. s - f \in Nat /\ s = f + (s - f)
      BY <2>9, SMT
    <3> QED BY <3>1, SMT
  <2>11. d * e < f
    <3>1. d * s = d * f + d * e /\ d * e \in Nat /\ d * f = x
      BY <2>3, <2>10, SMT
    <3> QED BY <2>3, <2>8, <3>1, SMT
  <2>12. 100 * e <= d * e
    BY <2>4, SMT
  <2>13. 100 * e < f
    BY <2>11, <2>12, SMT
  <2>14. e <= h
    BY <1>2, <2>13, SMT
  <2>15. playSound(f) - f = e
    BY <2>7, <2>10, SMT
  <2> QED BY <1>2, <2>14, <2>15, SMT
<1> QED BY <1>3, <1>4, SMT

(* The pixels that come before one are those of the rows before its own,   *)
(* and those before it in its own.                                         *)
LEMMA PixelsBefore ==
  ASSUME NEW w \in Nat, NEW row \in Nat, NEW col \in 0 .. w - 1
  PROVE  Cardinality({rc \in (0 .. row) \X (0 .. w - 1) : rc[1] < row \/ rc[2] < col}) = row * w + col
<1> DEFINE S == {rc \in (0 .. row) \X (0 .. w - 1) : rc[1] < row \/ rc[2] < col}
           Rows == (0 .. row - 1) \X (0 .. w - 1)
           Own == {row} \X (0 .. col - 1)
<1>1. S = Rows \cup Own
  <2>1. ASSUME NEW rc \in S PROVE rc \in Rows \cup Own
    <3>1. PICK r \in 0 .. row, c \in 0 .. w - 1 : rc = <<r, c>> /\ (r < row \/ c < col)
      BY <2>1
    <3>2. r \in 0 .. row - 1 \/ (r = row /\ c \in 0 .. col - 1)
      BY <3>1
    <3> QED BY <3>1, <3>2
  <2>2. ASSUME NEW rc \in Rows PROVE rc \in S
    <3>1. PICK r \in 0 .. row - 1, c \in 0 .. w - 1 : rc = <<r, c>>
      BY <2>2
    <3>2. r \in 0 .. row /\ r < row
      OBVIOUS
    <3> QED BY <3>1, <3>2
  <2>3. ASSUME NEW rc \in Own PROVE rc \in S
    <3>1. PICK c \in 0 .. col - 1 : rc = <<row, c>>
      BY <2>3
    <3>2. row \in 0 .. row /\ c \in 0 .. w - 1 /\ c < col
      OBVIOUS
    <3> QED BY <3>1, <3>2
  <2> HIDE DEF S, Rows, Own
  <2> QED BY <2>1, <2>2, <2>3
<1>2. Rows \cap Own = {}
  <2> SUFFICES ASSUME NEW rc \in Rows, rc \in Own PROVE FALSE
    OBVIOUS
  <2>1. rc[1] \in 0 .. row - 1 /\ rc[1] = row
    OBVIOUS
  <2> QED BY <2>1
<1>3. IsFiniteSet(0 .. row - 1) /\ Cardinality(0 .. row - 1) = row
  <2>1. 0 \in Int /\ row - 1 \in Int /\ (0 > row - 1 => row = 0) /\ (row - 1) - 0 + 1 = row
    OBVIOUS
  <2> QED BY <2>1, FS_Interval
<1>4. IsFiniteSet(0 .. w - 1) /\ Cardinality(0 .. w - 1) = w
  <2>1. 0 \in Int /\ w - 1 \in Int /\ (0 > w - 1 => w = 0) /\ (w - 1) - 0 + 1 = w
    OBVIOUS
  <2> QED BY <2>1, FS_Interval
<1>5. IsFiniteSet(0 .. col - 1) /\ Cardinality(0 .. col - 1) = col
  <2>1. 0 \in Int /\ col - 1 \in Int /\ (0 > col - 1 => col = 0) /\ (col - 1) - 0 + 1 = col
    OBVIOUS
  <2> QED BY <2>1, FS_Interval
<1>6. IsFiniteSet(Rows) /\ Cardinality(Rows) = row * w
  BY <1>3, <1>4, FS_Product, ZenonT(40)
<1>7. IsFiniteSet(Own) /\ Cardinality(Own) = 1 * col
  <2>1. IsFiniteSet({row}) /\ Cardinality({row}) = 1
    BY FS_Singleton
  <2>2. /\ IsFiniteSet({row} \X (0 .. col - 1))
        /\ Cardinality({row} \X (0 .. col - 1)) = Cardinality({row}) * Cardinality(0 .. col - 1)
    BY <1>5, <2>1, FS_Product
  <2> QED BY <1>5, <2>1, <2>2, Zenon
<1> HIDE DEF S, Rows, Own
<1>8. Cardinality(Rows \cup Own) = row * w + 1 * col - 0
  <2>1. Cardinality(Rows \cup Own) = Cardinality(Rows) + Cardinality(Own) - Cardinality(Rows \cap Own)
    BY <1>6, <1>7, FS_Union
  <2>2. Cardinality(Rows \cap Own) = 0
    BY <1>2, FS_EmptySet
  <2> QED BY <1>6, <1>7, <2>1, <2>2, Zenon
<1>9. row * w + 1 * col - 0 = row * w + col
  <2>1. row * w \in Nat /\ col \in Nat
    OBVIOUS
  <2> QED BY <2>1
<1>10. Cardinality(S) = row * w + col
  BY <1>1, <1>8, <1>9
<1> QED BY <1>10 DEF S

(* A pixel's number gives its row and column, and they give its number.    *)
LEMMA PixelPlace ==
  ASSUME NEW w \in Nat, NEW row \in Nat, NEW col \in 0 .. w - 1
  PROVE  (row * w + col) \div w = row /\ (row * w + col) % w = col
<1>1. w \in Nat \ {0} /\ col \in Nat /\ col < w
  OBVIOUS
<1>2. PICK k \in Nat : k = row * w + col /\ k = col + w * row
  <2>1. row * w + col \in Nat /\ row * w + col = col + w * row
    OBVIOUS
  <2> QED BY <2>1
<1>3. k \div w = row
  BY <1>1, <1>2, DivIs
<1>4. k = (k \div w) * w + (k % w)
  BY <1>1, DivModIs
<1>5. k % w = col
  <2>1. PICK z \in Nat : z = row * w
    OBVIOUS
  <2>2. k % w \in Nat
    BY <1>1, DivModIs
  <2> QED BY <1>2, <1>3, <1>4, <2>1, <2>2
<1> QED BY <1>2, <1>3, <1>5

(* The screens after each pixel, painted one by one.                       *)
Pixels == (0 .. WIDTH - 1) \X (0 .. HEIGHT - 1)
Screens == [Pixels -> Nat \X Nat \X Nat]
PaintOne(screen, x, y, k) ==
    paintColorPixel(screen, x + ((k - 1) % image.width), y + ((k - 1) \div image.width), image.pixels[k])
Paints(g, x, y) ==
    /\ g \in [0 .. Len(image.pixels) -> Screens] /\ g[0] = Blank
    /\ \A k \in 1 .. Len(image.pixels) : g[k] = PaintOne(g[k - 1], x, y, k)

LEMMA ColourIs ==
  ASSUME NEW rgb \in (0 .. 255) \X (0 .. 255) \X (0 .. 255)
  PROVE  hexToBGR(rgb) \in Nat \X Nat \X Nat
BY DEF hexToBGR

LEMMA PaintOneIs ==
  ASSUME image \in Images, NEW screen \in Screens, NEW x, NEW y, NEW k \in 1 .. Len(image.pixels)
  PROVE  PaintOne(screen, x, y, k) \in Screens
<1>1. image.pixels[k] \in (0 .. 255) \X (0 .. 255) \X (0 .. 255)
  <2>1. image.pixels \in Seq((0 .. 255) \X (0 .. 255) \X (0 .. 255))
    BY WrittenIs
  <2> QED BY <2>1, ElementOfSeq
<1>2. PICK bgr \in Nat \X Nat \X Nat : bgr = hexToBGR(image.pixels[k])
  BY <1>1, ColourIs
<1> DEFINE a == x + ((k - 1) % image.width)
           b == y + ((k - 1) \div image.width)
<1>3. PaintOne(screen, x, y, k) = IF <<a, b>> \in DOMAIN screen THEN [screen EXCEPT ![<<a, b>>] = bgr] ELSE screen
  BY <1>2 DEF PaintOne, paintColorPixel, findPixel
<1> HIDE DEF a, b
<1>4. [screen EXCEPT ![<<a, b>>] = bgr] \in Screens
  BY <1>2 DEF Screens
<1> QED BY <1>3, <1>4

LEMMA OneByOneSteps ==
  ASSUME image \in Images, NEW x, NEW y
  PROVE  \E g : Paints(g, x, y) /\ OneByOne(x, y) = g[Len(image.pixels)]
<1> DEFINE n == Len(image.pixels)
           id == [k \in DOMAIN image.pixels |-> k]
           One(screen, k) == PaintOne(screen, x, y, k)
           All(f) == f = [s \in SUBSET DOMAIN id |->
                            IF s = {} THEN Blank ELSE LET m == Max(s) IN One(f[s \ {m}], id[m])]
           iter == CHOOSE f : All(f)
<1>1. OneByOne(x, y) = iter[DOMAIN id]
  BY DEF OneByOne, FoldLeft, MapThenFoldSet, PaintOne
<1>2. n \in Nat /\ DOMAIN id = 1 .. n /\ \A k \in 1 .. n : id[k] = k
  <2>1. image.pixels \in Seq((0 .. 255) \X (0 .. 255) \X (0 .. 255))
    BY WrittenIs
  <2> QED BY <2>1
<1>3. ASSUME NEW c \in Screens, NEW k \in 1 .. n PROVE One(c, k) \in Screens
  BY PaintOneIs
<1>0. Blank \in Screens
  BY DEF Blank, Black, Screens, Pixels
<1> HIDE DEF One, n, id
<1>4. All(iter)
  <2> DEFINE step == [i \in 1 .. n |-> [c \in Screens |-> One(c, i)]]
             pick == [s \in SUBSET (1 .. n) |-> Max(s)]
  <2>1. step \in [1 .. n -> [Screens -> Screens]] /\ \A i \in 1 .. n, c \in Screens : step[i][c] = One(c, i)
    BY <1>3
  <2>2. \A s \in SUBSET (1 .. n) : s # {} => pick[s] = Max(s) /\ pick[s] \in s
    <3> SUFFICES ASSUME NEW s \in SUBSET (1 .. n), s # {} PROVE Max(s) \in s
      OBVIOUS
    <3>1. s \in SUBSET Nat /\ s \subseteq 1 .. n
      BY <1>2
    <3> QED BY <1>2, <3>1, MaxIs
  <2> HIDE DEF step, pick
  <2>f. PICK f : Folds(f, Screens, Blank, n, step, pick)
    <3>1. FoldInputs(Screens, Blank, n, step, pick)
      BY <1>0, <1>2, <2>1, <2>2 DEF FoldInputs
    <3> QED BY <3>1, FoldIsDefined
  <2>3. /\ f \in [SUBSET (1 .. n) -> Screens]
        /\ \A s \in SUBSET (1 .. n) : f[s] = IF s = {} THEN Blank ELSE step[pick[s]][f[s \ {pick[s]}]]
    BY <2>f DEF Folds
  <2>4. ASSUME NEW s \in SUBSET (1 .. n)
        PROVE  f[s] = IF s = {} THEN Blank ELSE One(f[s \ {Max(s)}], id[Max(s)])
    <3>1. CASE s = {}
      BY <2>3, <3>1
    <3>2. CASE s # {}
      <4>1. Max(s) = pick[s] /\ pick[s] \in 1 .. n /\ s \ {pick[s]} \in SUBSET (1 .. n)
        BY <2>2, <3>2
      <4>2. f[s \ {pick[s]}] \in Screens /\ id[pick[s]] = pick[s]
        BY <1>2, <2>3, <4>1
      <4>3. step[pick[s]][f[s \ {pick[s]}]] = One(f[s \ {pick[s]}], pick[s])
        BY <2>1, <4>1, <4>2
      <4>4. f[s] = step[pick[s]][f[s \ {pick[s]}]]
        BY <2>3, <3>2
      <4> QED BY <3>2, <4>1, <4>2, <4>3, <4>4
    <3> QED BY <3>1, <3>2
  <2>5. All(f)
    BY <1>2, <2>3, <2>4
  <2> HIDE DEF All
  <2> QED BY <2>5
<1> HIDE DEF iter
<1>5. \A s \in SUBSET (1 .. n) : iter[s] = IF s = {} THEN Blank ELSE One(iter[s \ {Max(s)}], id[Max(s)])
  BY <1>2, <1>4
<1> HIDE DEF All
<1> DEFINE g == [i \in 0 .. n |-> iter[1 .. i]]
<1>6. ASSUME NEW i \in 1 .. n PROVE g[i] = One(g[i - 1], i)
  <2>0. i \in Nat /\ 1 <= i /\ i <= n
    BY <1>2
  <2>1. 1 .. i \in SUBSET Nat /\ i \in Nat /\ 1 .. i # {} /\ i \in 1 .. i /\ 1 .. i \in SUBSET (1 .. n)
    <3>1. i \in 1 .. i /\ 1 .. i \in SUBSET (1 .. n)
      BY <1>2, <2>0
    <3>2. 1 .. i \in SUBSET Nat
      OBVIOUS
    <3> QED BY <2>0, <3>1, <3>2
  <2>2. Max(1 .. i) \in 1 .. i /\ i <= Max(1 .. i)
    BY <2>1, MaxIs
  <2>3. Max(1 .. i) = i /\ (1 .. i) \ {i} = 1 .. i - 1
    BY <2>1, <2>2
  <2>4. iter[1 .. i] = One(iter[1 .. i - 1], i)
    BY <1>2, <1>5, <2>1, <2>3
  <2>5. i \in 0 .. n /\ i - 1 \in 0 .. n
    BY <1>2
  <2> QED BY <2>4, <2>5
<1>7. g[0] = Blank
  <2>1. 1 .. 0 = {} /\ {} \in SUBSET (1 .. n) /\ 0 \in 0 .. n
    BY <1>2
  <2>2. iter[{}] = Blank
    BY <1>5, <2>1
  <2> QED BY <2>1, <2>2
<1>8. DOMAIN g = 0 .. n /\ g[n] = iter[1 .. n] /\ g = [i \in 0 .. n |-> g[i]]
  BY <1>2
<1> HIDE DEF g
<1> DEFINE Typed == {i \in Nat : i <= n => g[i] \in Screens}
<1>9. 0 \in Typed
  BY <1>0, <1>7
<1>10. ASSUME NEW i \in Typed \cap Nat PROVE i + 1 \in Typed
  <2> SUFFICES ASSUME i + 1 <= n PROVE g[i + 1] \in Screens
    OBVIOUS
  <2>1. i + 1 \in 1 .. n /\ (i + 1) - 1 = i /\ g[i] \in Screens
    BY <1>2
  <2> QED BY <1>3, <1>6, <2>1
<1>11. \A i \in 0 .. n : g[i] \in Screens
  <2>1. Nat \subseteq Typed
    <3> HIDE DEF Typed
    <3> QED BY <1>9, <1>10, NatIsInductive
  <2> QED BY <1>2, <2>1
<1>12. Paints(g, x, y)
  BY <1>6, <1>7, <1>8, <1>11 DEF Paints, One, n
<1>13. OneByOne(x, y) = g[n]
  BY <1>1, <1>2, <1>8
<1> QED BY <1>12, <1>13 DEF n

(* After k pixels, those with the numbers below k have their colours.      *)
Number(p, x, y) == (p[2] - y) * image.width + (p[1] - x)
Covered(p, x, y, k) == p[1] - x \in 0 .. image.width - 1 /\ p[2] - y \in Nat /\ Number(p, x, y) < k
Shown(p, x, y, k) == IF Covered(p, x, y, k) THEN hexToBGR(image.pixels[Number(p, x, y) + 1]) ELSE Blank[p]

LEMMA OnePixelMore ==
  ASSUME image \in Images, NEW x \in Nat, NEW y \in Nat, NEW k \in Nat, k + 1 <= Len(image.pixels), NEW p \in Pixels,
         NEW screen \in Screens, screen[p] = Shown(p, x, y, k)
  PROVE  PaintOne(screen, x, y, k + 1)[p] = Shown(p, x, y, k + 1)
<1>0. image.width \in Nat /\ image.height \in Nat /\ Len(image.pixels) = image.width * image.height
  BY WrittenIs
<1>1. PICK w \in Nat, h \in Nat : w = image.width /\ Len(image.pixels) = w * h
  BY <1>0
<1>2. w > 0
  <2> SUFFICES ASSUME w = 0 PROVE FALSE
    BY <1>1
  <2>1. w * h = 0
    BY <1>1
  <2> QED BY <1>1, <2>1
<1>3. PICK q \in Nat, r \in Nat : q = k \div w /\ r = k % w /\ r < w /\ k = q * w + r
  <2>1. k \div w \in Nat /\ k % w \in 0 .. w - 1 /\ k = (k \div w) * w + (k % w)
    BY <1>1, <1>2, DivModIs
  <2> QED BY <1>1, <2>1
<1>4. PICK c \in 0 .. WIDTH - 1, d \in 0 .. HEIGHT - 1 : p = <<c, d>>
  BY DEF Pixels
<1>5. p[1] = c /\ p[2] = d
  BY <1>4
<1>6. (k + 1) - 1 = k
  OBVIOUS
<1>7. PaintOne(screen, x, y, k + 1)
        = IF <<x + r, y + q>> \in DOMAIN screen
          THEN [screen EXCEPT ![<<x + r, y + q>>] = hexToBGR(image.pixels[k + 1])] ELSE screen
  BY <1>1, <1>3, <1>6 DEF PaintOne, paintColorPixel, findPixel
<1>8. DOMAIN screen = Pixels
  BY DEF Screens
<1>9. CASE p = <<x + r, y + q>>
  <2>1. PaintOne(screen, x, y, k + 1)[p] = hexToBGR(image.pixels[k + 1])
    BY <1>7, <1>8, <1>9
  <2>2. p[1] - x = r /\ p[2] - y = q
    <3>1. c = x + r /\ d = y + q
      BY <1>4, <1>9
    <3>2. (x + r) - x = r /\ (y + q) - y = q
      OBVIOUS
    <3> QED BY <1>5, <3>1, <3>2, Zenon
  <2>3. Number(p, x, y) = k
    BY <1>1, <1>3, <2>2 DEF Number
  <2>4. r \in 0 .. w - 1 /\ k < k + 1
    <3>1. \A a, b \in Nat : a < b => a \in 0 .. b - 1
      OBVIOUS
    <3>2. r < w /\ k < k + 1
      BY <1>3
    <3> QED BY <3>1, <3>2
  <2>5. Covered(p, x, y, k + 1)
    BY <1>1, <2>2, <2>3, <2>4 DEF Covered
  <2> QED BY <2>1, <2>3, <2>5 DEF Shown
<1>10. CASE p # <<x + r, y + q>>
  <2>1. PaintOne(screen, x, y, k + 1)[p] = screen[p]
    BY <1>7, <1>8, <1>10
  <2>2. Covered(p, x, y, k) <=> Covered(p, x, y, k + 1)
    <3>1. ASSUME p[1] - x \in 0 .. w - 1, p[2] - y \in Nat PROVE Number(p, x, y) \in Nat /\ Number(p, x, y) # k
      <4>1. PICK row \in Nat, col \in 0 .. w - 1 : row = p[2] - y /\ col = p[1] - x
        BY <3>1
      <4>2. Number(p, x, y) = row * w + col
        BY <1>1, <4>1 DEF Number
      <4>3. (row * w + col) \div w = row /\ (row * w + col) % w = col
        BY PixelPlace, Zenon
      <4>4. ASSUME Number(p, x, y) = k PROVE FALSE
        <5>1. row = q /\ col = r
          BY <1>3, <4>2, <4>3, <4>4
        <5>2. c = x + r /\ d = y + q
          BY <1>4, <1>5, <4>1, <5>1
        <5> QED BY <1>4, <1>10, <5>2
      <4>5. row * w + col \in Nat
        BY <1>1, SMTT(30)
      <4> QED BY <4>2, <4>4, <4>5
    <3>2. \A m \in Nat : m # k => (m < k <=> m < k + 1)
      OBVIOUS
    <3> QED BY <1>1, <3>1, <3>2 DEF Covered
  <2>3. Shown(p, x, y, k) = Shown(p, x, y, k + 1)
    BY <2>2 DEF Shown
  <2> QED BY <2>1, <2>3
<1> QED BY <1>9, <1>10

LEMMA OneByOneIs ==
  ASSUME image \in Images, NEW x \in Nat, NEW y \in Nat
  PROVE  OneByOne(x, y) \in Screens /\ \A p \in Pixels : OneByOne(x, y)[p] = Shown(p, x, y, Len(image.pixels))
<1>1. PICK g : Paints(g, x, y) /\ OneByOne(x, y) = g[Len(image.pixels)]
  BY OneByOneSteps
<1>2. PICK n \in Nat : n = Len(image.pixels)
  <2>1. image.pixels \in Seq((0 .. 255) \X (0 .. 255) \X (0 .. 255))
    BY WrittenIs
  <2> QED BY <2>1
<1>3. /\ g \in [0 .. n -> Screens] /\ g[0] = Blank
      /\ \A k \in 1 .. n : g[k] = PaintOne(g[k - 1], x, y, k)
  BY <1>1, <1>2 DEF Paints
<1> DEFINE Good == {k \in Nat : k <= n => \A p \in Pixels : g[k][p] = Shown(p, x, y, k)}
<1>4. 0 \in Good
  <2>1. ASSUME NEW p \in Pixels PROVE Blank[p] = Shown(p, x, y, 0)
    <3>1. ~Covered(p, x, y, 0)
      <4> SUFFICES ASSUME p[1] - x \in 0 .. image.width - 1, p[2] - y \in Nat, Number(p, x, y) < 0 PROVE FALSE
        BY DEF Covered
      <4>1. PICK a \in Nat, b \in Nat, w \in Nat : a = p[1] - x /\ b = p[2] - y /\ w = image.width
        <5>1. image.width \in Nat
          BY WrittenIs
        <5> QED BY <5>1
      <4>2. b * w + a \in Nat
        BY <4>1
      <4>3. Number(p, x, y) = b * w + a
        BY <4>1 DEF Number
      <4> QED BY <4>2, <4>3
    <3> QED BY <3>1 DEF Shown
  <2> QED BY <1>3, <2>1
<1>5. ASSUME NEW k \in Good \cap Nat PROVE k + 1 \in Good
  <2> SUFFICES ASSUME k + 1 <= n, NEW p \in Pixels PROVE g[k + 1][p] = Shown(p, x, y, k + 1)
    OBVIOUS
  <2>1. k \in 0 .. n /\ k <= n /\ k + 1 \in 1 .. n /\ (k + 1) - 1 = k
    BY <1>2
  <2>2. g[k] \in Screens /\ g[k][p] = Shown(p, x, y, k) /\ g[k + 1] = PaintOne(g[k], x, y, k + 1)
    BY <1>3, <2>1
  <2>3. PICK screen \in Screens : screen = g[k]
    BY <2>2
  <2>4. PaintOne(screen, x, y, k + 1)[p] = Shown(p, x, y, k + 1)
    BY <1>2, <2>2, <2>3, OnePixelMore
  <2> QED BY <2>2, <2>3, <2>4
<1>6. n \in Good
  <2> HIDE DEF Good
  <2>1. Nat \subseteq Good
    BY <1>4, <1>5, NatIsInductive
  <2> QED BY <1>2, <2>1
<1>7. n <= n /\ n \in 0 .. n
  BY <1>2
<1> QED BY <1>1, <1>2, <1>3, <1>6, <1>7

(* paintImg gives every pixel of the screen the cells of its number.       *)
LEMMA RowsAndNumbers ==
  ASSUME NEW w \in Nat, NEW h \in Nat, NEW row \in Nat, NEW col \in 0 .. w - 1
  PROVE  row \in 0 .. h - 1 <=> row * w + col < w * h
<1>1. row + 1 <= h => row * w + col < w * h
  <2> SUFFICES ASSUME row + 1 <= h PROVE row * w + col < w * h
    OBVIOUS
  <2>1. PICK d \in Nat : h = row + 1 + d
    <3>1. h - (row + 1) \in Nat /\ h = row + 1 + (h - (row + 1))
      OBVIOUS
    <3> QED BY <3>1
  <2>2. w * h = row * w + w + d * w
    BY <2>1
  <2>3. PICK a \in Nat, b \in Nat : a = row * w /\ b = d * w
    OBVIOUS
  <2> QED BY <2>2, <2>3
<1>2. h <= row => ~(row * w + col < w * h)
  <2> SUFFICES ASSUME h <= row PROVE ~(row * w + col < w * h)
    OBVIOUS
  <2>1. PICK d \in Nat : row = h + d
    <3>1. row - h \in Nat /\ row = h + (row - h)
      OBVIOUS
    <3> QED BY <3>1
  <2>2. row * w = w * h + d * w
    BY <2>1
  <2>3. PICK a \in Nat, b \in Nat : a = w * h /\ b = d * w
    OBVIOUS
  <2> QED BY <2>2, <2>3
<1>3. (row \in 0 .. h - 1 <=> row + 1 <= h) /\ (h <= row <=> ~(row + 1 <= h))
  OBVIOUS
<1> QED BY <1>1, <1>2, <1>3

LEMMA paintImgIs ==
  ASSUME image \in Images, NEW mem, NEW file, Holds(mem, file, Written(image)),
         NEW x \in 0 .. WIDTH - image.width, NEW y \in 0 .. HEIGHT, NEW p \in Pixels
  PROVE  /\ DOMAIN paintImg(Blank, mem, file, x, y) = Pixels
         /\ paintImg(Blank, mem, file, x, y)[p] = Shown(p, x, y, Len(image.pixels))
<1>0. image.width \in Nat /\ image.height \in Nat /\ Len(image.pixels) = image.width * image.height
  BY WrittenIs
<1>1. PICK w \in Nat, h \in Nat, n \in Nat : w = image.width /\ h = image.height /\ n = Len(image.pixels) /\ n = w * h
  BY <1>0
<1>2. file \in Nat /\ mem[file] = w /\ mem[file + 1] = h
  <2>1. file \in Nat /\ \A c \in 1 .. 2 + 3 * n : mem[file + c - 1] = Written(image)[c]
    BY <1>1, WrittenIs DEF Holds
  <2>2. 1 \in 1 .. 2 + 3 * n /\ 2 \in 1 .. 2 + 3 * n
    BY <1>1
  <2>3. file + 1 - 1 = file /\ file + 2 - 1 = file + 1
    BY <2>1
  <2>4. mem[file + 1 - 1] = Written(image)[1] /\ mem[file + 2 - 1] = Written(image)[2]
    BY <2>1, <2>2
  <2> QED BY <1>1, <2>1, <2>3, <2>4, WrittenIs
<1>3. ASSUME NEW k \in 1 .. n, NEW c \in 1 .. 3 PROVE mem[file + 2 + 3 * (k - 1) + (c - 1)] = image.pixels[k][c]
  <2>1. file \in Nat /\ \A d \in 1 .. 2 + 3 * n : mem[file + d - 1] = Written(image)[d]
    BY <1>1, WrittenIs DEF Holds
  <2>2. PICK d \in 1 .. 2 + 3 * n : d = 2 + 3 * (k - 1) + c
    BY <1>1
  <2>3. file + 2 + 3 * (k - 1) + (c - 1) = file + d - 1
    BY <1>1, <1>2, <2>2
  <2>4. Written(image)[d] = image.pixels[k][c]
    BY <1>1, <2>2, WrittenIs
  <2> QED BY <2>1, <2>2, <2>3, <2>4
<1>4. PICK a \in 0 .. WIDTH - 1, b \in 0 .. HEIGHT - 1 : p = <<a, b>> /\ p[1] = a /\ p[2] = b
  BY DEF Pixels
<1>5. WIDTH \in Nat /\ HEIGHT \in Nat /\ x \in Nat /\ y \in Nat /\ x + w <= WIDTH
  <2>1. WIDTH \in Nat /\ HEIGHT \in Nat
    BY CellsAssumption
  <2>2. x \in 0 .. WIDTH - w /\ y \in 0 .. HEIGHT
    BY <1>1
  <2> QED BY <2>1, <2>2
<1>6. DOMAIN Blank = Pixels
  BY DEF Blank, Pixels
<1>7. CASE <<x, y>> \notin Pixels
  <2>1. paintImg(Blank, mem, file, x, y) = Blank
    BY <1>6, <1>7 DEF paintImg, findPixel
  <2>2. ~Covered(p, x, y, n)
    <3> SUFFICES ASSUME p[1] - x \in 0 .. w - 1, p[2] - y \in Nat PROVE FALSE
      BY <1>1 DEF Covered
    <3>1. a - x \in 0 .. w - 1 /\ b - y \in Nat
      BY <1>4
    <3>2. x \in 0 .. WIDTH - 1 /\ y \in 0 .. HEIGHT - 1
      BY <1>4, <1>5, <3>1
    <3> QED BY <1>7, <3>2 DEF Pixels
  <2> QED BY <1>1, <1>6, <2>1, <2>2 DEF Shown
<1>8. CASE <<x, y>> \in Pixels
  <2> DEFINE Before2(row, col) == {rc \in (0 .. row) \X (0 .. mem[file] - 1) :
                findPixel(Blank, x + rc[2], y + rc[1]) /\ (rc[1] < row \/ rc[2] < col)}
             Data(row, col) == file + 2 + 3 * Cardinality(Before2(row, col))
             col == p[1] - x
             row == p[2] - y
  <2>1. /\ DOMAIN paintImg(Blank, mem, file, x, y) = Pixels
        /\ paintImg(Blank, mem, file, x, y)[p]
             = IF col \in 0 .. mem[file] - 1 /\ row \in 0 .. mem[file + 1] - 1
               THEN <<mem[Data(row, col) + 2], mem[Data(row, col) + 1], mem[Data(row, col)]>>
               ELSE Blank[p]
    <3>1. findPixel(Blank, x, y)
      BY <1>6, <1>8 DEF findPixel
    <3> QED BY <1>6, <3>1 DEF paintImg
  <2>2. col = a - x /\ row = b - y
    BY <1>4
  <2> HIDE DEF col, row
  <2>3. col \in 0 .. w - 1 /\ row \in 0 .. h - 1 <=> Covered(p, x, y, n)
    <3>1. ASSUME NEW r \in Nat, NEW c \in 0 .. w - 1 PROVE r \in 0 .. h - 1 <=> r * w + c < n
      BY <1>1, RowsAndNumbers
    <3>2. Covered(p, x, y, n) <=> col \in 0 .. w - 1 /\ row \in Nat /\ row * w + col < n
      BY <1>1 DEF Covered, Number, col, row
    <3>3. row \in 0 .. h - 1 => row \in Nat
      OBVIOUS
    <3> QED BY <3>1, <3>2, <3>3
  <2>4. ASSUME col \in 0 .. w - 1, row \in 0 .. h - 1
        PROVE  <<mem[Data(row, col) + 2], mem[Data(row, col) + 1], mem[Data(row, col)]>> = hexToBGR(image.pixels[Number(p, x, y) + 1])
    <3>1. PICK r \in Nat, c \in 0 .. w - 1 : r = row /\ c = col
      BY <2>4
    <3>2. Before2(r, c) = {rc \in (0 .. r) \X (0 .. w - 1) : rc[1] < r \/ rc[2] < c}
      <4>1. ASSUME NEW rc \in (0 .. r) \X (0 .. w - 1) PROVE findPixel(Blank, x + rc[2], y + rc[1])
        <5>1. PICK e \in 0 .. r, f \in 0 .. w - 1 : rc = <<e, f>> /\ rc[1] = e /\ rc[2] = f
          BY <4>1
        <5>2. x + f \in 0 .. WIDTH - 1 /\ y + e \in 0 .. HEIGHT - 1
          BY <1>4, <1>5, <2>2, <3>1
        <5>3. <<x + f, y + e>> \in Pixels
          BY <5>2 DEF Pixels
        <5> QED BY <1>6, <5>1, <5>3 DEF findPixel
      <4> QED BY <1>2, <4>1
    <3>3. Data(r, c) = file + 2 + 3 * (r * w + c)
      BY <3>2, PixelsBefore, ZenonT(40)
    <3>4. PICK k \in Nat : k = r * w + c
      OBVIOUS
    <3>5. k < n /\ Number(p, x, y) = k
      <4>1. r \in 0 .. h - 1
        BY <2>4, <3>1
      <4>2. r * w + c < w * h
        BY <4>1, RowsAndNumbers
      <4>3. Number(p, x, y) = row * w + col
        BY <1>1 DEF Number, row, col
      <4> QED BY <1>1, <3>1, <3>4, <4>2, <4>3
    <3>6. Data(row, col) = file + 2 + 3 * k
      BY <3>1, <3>3, <3>4, Zenon
    <3> HIDE DEF Data, Before2
    <3>7. PICK d \in Nat : d = file + 2 + 3 * k
      BY <1>2, <3>4
    <3>8. mem[d + 2] = image.pixels[k + 1][3] /\ mem[d + 1] = image.pixels[k + 1][2] /\ mem[d] = image.pixels[k + 1][1]
      <4>1. k + 1 \in 1 .. n
        BY <1>1, <3>5
      <4>2. \A e \in 1 .. 3 : mem[file + 2 + 3 * ((k + 1) - 1) + (e - 1)] = image.pixels[k + 1][e]
        BY <1>3, <4>1
      <4>3. \A e \in 1 .. 3 : file + 2 + 3 * ((k + 1) - 1) + (e - 1) = d + (e - 1)
        BY <1>2, <3>7
      <4>4. \A e \in 1 .. 3 : mem[d + (e - 1)] = image.pixels[k + 1][e]
        BY <4>2, <4>3
      <4>5. d + (1 - 1) = d /\ d + (2 - 1) = d + 1 /\ d + (3 - 1) = d + 2 /\ 1 \in 1 .. 3 /\ 2 \in 1 .. 3 /\ 3 \in 1 .. 3
        OBVIOUS
      <4>6. mem[d + (1 - 1)] = image.pixels[k + 1][1] /\ mem[d + (2 - 1)] = image.pixels[k + 1][2] /\ mem[d + (3 - 1)] = image.pixels[k + 1][3]
        BY <4>4, <4>5
      <4> QED BY <4>5, <4>6
    <3> QED BY <3>5, <3>6, <3>7, <3>8, Zenon DEF hexToBGR
  <2> HIDE DEF Data, Before2
  <2>5. Shown(p, x, y, Len(image.pixels))
          = IF Covered(p, x, y, n) THEN hexToBGR(image.pixels[Number(p, x, y) + 1]) ELSE Blank[p]
    BY <1>1 DEF Shown
  <2> QED BY <1>2, <2>1, <2>3, <2>4, <2>5
<1> QED BY <1>7, <1>8

LEMMA ImagesAgree ==
  ASSUME image \in Images, NEW mem, NEW file, Holds(mem, file, Written(image)),
         NEW x \in 0 .. WIDTH - image.width, NEW y \in 0 .. HEIGHT
  PROVE  paintImg(Blank, mem, file, x, y) = OneByOne(x, y)
<1>1. x \in Nat /\ y \in Nat
  <2>1. image.width \in Nat /\ WIDTH \in Nat /\ HEIGHT \in Nat
    BY WrittenIs, CellsAssumption
  <2> QED BY <2>1
<1>2. OneByOne(x, y) \in Screens /\ \A p \in Pixels : OneByOne(x, y)[p] = Shown(p, x, y, Len(image.pixels))
  BY <1>1, OneByOneIs
<1>3. \A p \in Pixels : /\ DOMAIN paintImg(Blank, mem, file, x, y) = Pixels
                        /\ paintImg(Blank, mem, file, x, y)[p] = Shown(p, x, y, Len(image.pixels))
  BY paintImgIs
<1>4. DOMAIN paintImg(Blank, mem, file, x, y) = Pixels
  <2>1. DOMAIN Blank = Pixels
    BY DEF Blank, Pixels
  <2> QED BY <2>1 DEF paintImg
<1>5. paintImg(Blank, mem, file, x, y) = [p \in Pixels |-> paintImg(Blank, mem, file, x, y)[p]]
  <2> DEFINE painted == paintImg(Blank, mem, file, x, y)
  <2>1. CASE findPixel(Blank, x, y)
    <3>1. \E P : painted = [p \in DOMAIN Blank |-> P[p]]
      <4> DEFINE Rows(row, col) == {rc \in (0 .. row) \X (0 .. mem[file] - 1) :
                    findPixel(Blank, x + rc[2], y + rc[1]) /\ (rc[1] < row \/ rc[2] < col)}
                 Data(row, col) == file + 2 + 3 * Cardinality(Rows(row, col))
                 Pixel(p) == IF p[1] - x \in 0 .. mem[file] - 1 /\ p[2] - y \in 0 .. mem[file + 1] - 1
                             THEN <<mem[Data(p[2] - y, p[1] - x) + 2], mem[Data(p[2] - y, p[1] - x) + 1], mem[Data(p[2] - y, p[1] - x)]>>
                             ELSE Blank[p]
      <4>1. painted = [p \in DOMAIN Blank |-> Pixel(p)]
        BY <2>1, Zenon DEF paintImg
      <4> HIDE DEF Pixel, painted
      <4> QED BY <4>1
    <3> HIDE DEF painted
    <3> QED BY <1>4, <3>1 DEF painted
  <2>2. CASE ~findPixel(Blank, x, y)
    <3>1. painted = Blank
      BY <2>2 DEF paintImg
    <3> QED BY <3>1 DEF Blank, Pixels
  <2> QED BY <2>1, <2>2
<1> QED BY <1>2, <1>3, <1>4, <1>5 DEF Screens

(* Whatever was put into the build, the programs find it: SongPlayer reads *)
(* every song as songmaker was given it, the speaker sounds within a       *)
(* hundredth of every note, and the game paints every pixel of its image.  *)
THEOREM ProgramsUseTheirData == Spec => []DataIsUsed
<1>1. BootInv => DataIsUsed
  <2> SUFFICES ASSUME BootInv, stage = "running" PROVE SongsArePlayed /\ ImageIsPainted
    BY DEF DataIsUsed, SongsArePlayed, ImageIsPainted
  <2>1. PICK code \in UserCodes : modules = <<code, Compiled(songs), Written(image)>>
    BY DEF BootInv, Given
  <2>2. songs \in SongBooks /\ image \in Images /\ modules \in Files
    BY GivenFiles DEF BootInv, Given
  <2>3. modules[2] = Compiled(songs) /\ modules[3] = Written(image)
    BY <2>1
  <2>4. \A i \in 1 .. 3 : \A c \in DOMAIN modules[i] : memory[ModuleAddr[i] + c - 1] = modules[i][c]
    <3>1. loaded = 3
      BY DEF BootInv, Shape
    <3> QED BY <3>1 DEF BootInv, MachineIsReady, ModulesArrive
  <2>5. \A i \in 1 .. 3 : ModuleAddr[i] \in Nat /\ DOMAIN modules[i] = 1 .. Len(modules[i])
    BY <2>2, PlacesAre
  <2>6. Holds(memory, SongsAt, Compiled(songs))
    BY <2>3, <2>4, <2>5 DEF Holds, SongsAt
  <2>7. Holds(memory, ImageAt, Written(image))
    BY <2>3, <2>4, <2>5 DEF Holds, ImageAt
  <2>8. SongsArePlayed
    <3>1. PICK book \in SongBooks : book = songs
      BY <2>2
    <3>2. songMaxNum(memory, SongsAt) = Len(book)
      <4>1. memory[SongsAt] = Len(book) /\ Len(book) \in 0 .. 127
        BY <2>6, <3>1, SongsAreFound
      <4> QED BY <4>1, CharIsSigned DEF songMaxNum
    <3>3. DOMAIN book = 1 .. Len(book)
      BY DataAssumption
    <3>4. ASSUME NEW k \in 1 .. Len(book)
          PROVE  /\ playSong(memory, SongsAt, k) = book[k]
                 /\ \A i \in DOMAIN book[k] : playSound(book[k][i].freq) - book[k][i].freq
                                                \in -(book[k][i].freq \div 100 + 1) .. book[k][i].freq \div 100 + 1
      <4>1. playSong(memory, SongsAt, k) = book[k]
        BY <2>6, <3>1, playSongIs
      <4>2. book[k] \in Seq(Note)
        BY CompiledIs
      <4>3. PICK song \in Seq(Note) : song = book[k]
        BY <4>2
      <4>4. ASSUME NEW i \in DOMAIN song
            PROVE  playSound(song[i].freq) - song[i].freq \in -(song[i].freq \div 100 + 1) .. song[i].freq \div 100 + 1
        <5>1. i \in 1 .. Len(song)
          BY <4>3
        <5>2. song[i] \in Note
          BY <5>1, ElementOfSeq
        <5>3. PICK t \in Note : t = song[i]
          BY <5>2
        <5>4. PICK f \in Nat : f = t.freq /\ (f # 0 => 31 <= f /\ f <= 4978)
          BY NoteIs
        <5>5. f # 0 => 31 <= f /\ f <= 4978
          BY <5>4
        <5>6. playSound(f) - f \in -(f \div 100 + 1) .. f \div 100 + 1
          BY <5>5, SoundIsNear, SMT
        <5>7. song[i].freq = f
          BY <5>3, <5>4
        <5> QED BY <5>6, <5>7, Zenon
      <4> QED BY <4>1, <4>3, <4>4, Zenon
    <3> QED BY <3>1, <3>2, <3>3, <3>4, ZenonT(40) DEF SongsArePlayed
  <2>9. ImageIsPainted
    <3>1. \A x \in 0 .. WIDTH - image.width, y \in 0 .. HEIGHT : paintImg(Blank, memory, ImageAt, x, y) = OneByOne(x, y)
      BY <2>2, <2>7, ImagesAgree
    <3> QED BY <3>1 DEF ImageIsPainted
  <2> QED BY <2>8, <2>9
<1> QED BY <1>1, BootInvHolds, PTL
=============================================================================

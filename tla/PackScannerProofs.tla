------------------------- MODULE PackScannerProofs -------------------------
(***************************************************************************)
(* Proofs about PackScanner: for all packs, however they are cut into      *)
(* chunks, and all widths of bytes, ids and buffers.                       *)
(*                                                                         *)
(* The parser of the whole pack is made of folds and of a function that is *)
(* defined on itself; the first part shows that these are the functions    *)
(* that their definitions ask for, the second what the parser finds, the   *)
(* third that the scanner has found the same at every byte.                *)
(***************************************************************************)
EXTENDS PackScanner, SequenceTheorems, FiniteSetTheorems, WellFoundedInduction, TLAPS

-----------------------------------------------------------------------------
(***************************************************************************)
(* Functions defined on themselves.                                        *)
(***************************************************************************)

\* What holds of 0, and of the next number with each below a bound, holds up to the bound.
LEMMA UpTo ==
  ASSUME NEW n \in Nat, NEW T, 0 \in T, \A k \in 0 .. n : k \in T /\ k < n => k + 1 \in T
  PROVE  \A k \in 0 .. n : k \in T
<1> SUFFICES ASSUME NEW bad \in 0 .. n, bad \notin T PROVE FALSE
  OBVIOUS
<1> DEFINE Less == {ss \in Nat \X Nat : ss[1] < ss[2]}
           Out == {k \in 0 .. n : k \notin T}
<1>1. IsWellFoundedOn(Less, Nat)
  BY NatLessThanWellFounded DEF OpToRel
<1>2. Out \subseteq Nat /\ Out # {}
  OBVIOUS
<1>3. PICK x \in Out : \A y \in Out : <<y, x>> \notin Less
  <2> HIDE DEF Out, Less
  <2> QED
    BY <1>1, <1>2, WFMin
<1>4. x \in 0 .. n /\ x \notin T /\ x # 0
  BY <1>3
<1>5. x - 1 \in 0 .. n /\ (x - 1) + 1 = x /\ x - 1 < n /\ x - 1 < x
  BY <1>4
<1>6. x - 1 \notin T
  BY <1>4, <1>5
<1>7. x - 1 \in Out /\ <<x - 1, x>> \in Less
  BY <1>4, <1>5, <1>6
<1> QED
  BY <1>3, <1>7

\* A set of numbers that is not empty has a least one, and that is its Min.
LEMMA MinIs ==
  ASSUME NEW S, S \subseteq Nat, S # {}
  PROVE  Min(S) \in S /\ \A y \in S : Min(S) <= y
<1> DEFINE Less == {ss \in Nat \X Nat : ss[1] < ss[2]}
<1>1. IsWellFoundedOn(Less, Nat)
  BY NatLessThanWellFounded DEF OpToRel
<1>2. PICK x \in S : \A y \in S : <<y, x>> \notin Less
  <2> HIDE DEF Less
  <2> QED
    BY <1>1, WFMin
<1>3. ASSUME NEW y \in S PROVE x <= y
  <2>1. x \in Nat /\ y \in Nat /\ <<y, x>> \notin Less
    BY <1>2
  <2> QED
    BY <2>1
<1> QED
  BY <1>3 DEF Min

\* A set of numbers up to a bound that is not empty has a greatest one, its Max.
LEMMA MaxIs ==
  ASSUME NEW n \in Nat, NEW S, S \subseteq 1 .. n, S # {}
  PROVE  Max(S) \in S /\ \A y \in S : Max(S) >= y
<1> DEFINE R == {n - y : y \in S}
<1>0. \A y \in S : y \in 1 .. n /\ n - y \in Nat
  OBVIOUS
<1>1. R \subseteq Nat /\ R # {}
  BY <1>0
<1>2. PICK r \in R : \A q \in R : r <= q
  <2> HIDE DEF R
  <2> QED
    BY <1>1, MinIs
<1>3. PICK x \in S : r = n - x
  BY <1>2
<1>4. \A y \in S : x >= y
  <2> SUFFICES ASSUME NEW y \in S PROVE x >= y
    OBVIOUS
  <2>1. n - x <= n - y
    BY <1>2, <1>3
  <2> QED
    BY <1>0, <2>1
<1> QED
  BY <1>4 DEF Max

\* From a start, a function can be applied as often as one likes.
Repeats(n, S, start, f, g) ==
  g \in [0 .. n -> S] /\ g[0] = start /\ \A k \in 1 .. n : g[k] = f[g[k - 1]]

Repeatable(n, S, start, f) == \E g : Repeats(n, S, start, f, g)

\* A function that is defined on itself, step by step, exists, and is the one that CHOOSE takes.
LEMMA Repeated ==
  ASSUME NEW n \in Nat, NEW S, NEW start \in S, NEW f \in [S -> S]
  PROVE  Repeatable(n, S, start, f)
<1> DEFINE Up(m, g) == g[0] = start /\ \A k \in 1 .. m : g[k] = f[g[k - 1]]
           T == {m \in 0 .. n : \E g \in [0 .. m -> S] : Up(m, g)}
<1>1. 0 \in T
  <2> DEFINE g == [k \in 0 .. 0 |-> start]
  <2>1. g \in [0 .. 0 -> S] /\ Up(0, g) /\ 0 \in 0 .. n
    OBVIOUS
  <2> HIDE DEF g, Up
  <2> QED
    BY <2>1
<1>2. ASSUME NEW m \in 0 .. n, m \in T, m < n PROVE m + 1 \in T
  <2>1. PICK g \in [0 .. m -> S] : Up(m, g)
    BY <1>2
  <2> DEFINE h == [k \in 0 .. m + 1 |-> IF k = m + 1 THEN f[g[m]] ELSE g[k]]
  <2>2. h \in [0 .. m + 1 -> S]
    <3>1. m \in 0 .. m /\ \A k \in 0 .. m + 1 : k # m + 1 => k \in 0 .. m
      OBVIOUS
    <3> QED
      BY <3>1
  <2>3. h[0] = start
    BY <2>1
  <2>4. ASSUME NEW k \in 1 .. m + 1 PROVE h[k] = f[h[k - 1]]
    <3>1. k \in 0 .. m + 1 /\ k - 1 \in 0 .. m + 1 /\ k - 1 # m + 1
      OBVIOUS
    <3>2. h[k - 1] = g[k - 1]
      BY <3>1
    <3>3. CASE k = m + 1
      BY <3>2, <3>3
    <3>4. CASE k # m + 1
      BY <2>1, <3>2, <3>4
    <3> QED
      BY <3>3, <3>4
  <2>5. m + 1 \in 0 .. n
    BY <1>2
  <2> HIDE DEF h
  <2>6. Up(m + 1, h)
    BY <2>3, <2>4
  <2> QED
    BY <2>2, <2>5, <2>6
<1>3. n \in T
  <2> HIDE DEF T
  <2>1. \A k \in 0 .. n : k \in T
    BY <1>1, <1>2, UpTo
  <2> QED
    BY <2>1
<1> QED
  BY <1>3 DEF Repeatable, Repeats

\* A finite set can be folded in whatever order its elements are chosen.
Chooses(D, choice) == \A T \in SUBSET D : T # {} => choice[T] \in T

Folds(D, choice, op, base, V, g) ==
  /\ g \in [SUBSET D -> V] /\ g[{}] = base
  /\ \A T \in SUBSET D : T # {} => g[T] = op[<<choice[T], g[T \ {choice[T]}]>>]

Foldable(D, choice, op, base, V) == \E g : Folds(D, choice, op, base, V, g)

\* A fold over a set, in the order that the choice gives, has a value for each of its subsets.
LEMMA Folded ==
  ASSUME NEW D, IsFiniteSet(D), NEW choice, Chooses(D, choice),
         NEW V, NEW base \in V, NEW op \in [D \X V -> V]
  PROVE  Foldable(D, choice, op, base, V)
<1> DEFINE Small(m) == {S \in SUBSET D : Cardinality(S) <= m}
           Up(m, g) == /\ g \in [Small(m) -> V] /\ g[{}] = base
                       /\ \A S \in Small(m) : S # {} => g[S] = op[<<choice[S], g[S \ {choice[S]}]>>]
           n == Cardinality(D)
           T == {m \in 0 .. n : \E g : Up(m, g)}
<1>1. n \in Nat
  BY FS_CardinalityType
<1>2. \A S \in SUBSET D : IsFiniteSet(S) /\ Cardinality(S) \in Nat /\ Cardinality(S) <= n
  BY FS_Subset, FS_CardinalityType
<1>3. ASSUME NEW S \in SUBSET D, S # {}
      PROVE  /\ choice[S] \in S /\ S \ {choice[S]} \in SUBSET D
             /\ Cardinality(S \ {choice[S]}) = Cardinality(S) - 1
  <2>1. choice[S] \in S
    BY <1>3 DEF Chooses
  <2> QED
    BY <1>2, <2>1, FS_RemoveElement
<1>4. {} \in SUBSET D /\ Cardinality({}) = 0 /\ \A S \in SUBSET D : Cardinality(S) = 0 => S = {}
  BY <1>2, FS_EmptySet
<1>5. 0 \in T
  <2> DEFINE g == [S \in Small(0) |-> base]
  <2>1. \A S \in Small(0) : S = {}
    BY <1>2, <1>4
  <2>2. {} \in Small(0)
    BY <1>4
  <2>3. Up(0, g)
    BY <2>1, <2>2
  <2> HIDE DEF g, Up
  <2> QED
    BY <1>1, <2>3
<1>6. ASSUME NEW m \in 0 .. n, m \in T, m < n PROVE m + 1 \in T
  <2>1. PICK g : Up(m, g)
    BY <1>6
  <2> DEFINE h == [S \in Small(m + 1) |->
                     IF S \in Small(m) THEN g[S] ELSE op[<<choice[S], g[S \ {choice[S]}]>>]]
  <2>2. ASSUME NEW S \in Small(m + 1), S # {}
        PROVE  S \ {choice[S]} \in Small(m) /\ choice[S] \in D
    <3>1. /\ choice[S] \in S /\ S \ {choice[S]} \in SUBSET D
          /\ Cardinality(S \ {choice[S]}) = Cardinality(S) - 1
      BY <1>3, <2>2
    <3>2. Cardinality(S) \in Nat /\ Cardinality(S) <= m + 1
      BY <1>2
    <3> QED
      BY <3>1, <3>2
  <2>3. \A S \in Small(m) : S \in Small(m + 1)
    BY <1>2
  <2>4. {} \in Small(m)
    BY <1>4
  <2> HIDE DEF Small
  <2>5. ASSUME NEW S \in Small(m + 1) PROVE h[S] \in V
    <3>1. CASE S \in Small(m)
      BY <2>1, <3>1
    <3>2. CASE S \notin Small(m)
      <4>1. S \ {choice[S]} \in Small(m) /\ choice[S] \in D
        BY <2>2, <2>4, <3>2
      <4>2. g[S \ {choice[S]}] \in V
        BY <2>1, <4>1
      <4> QED
        BY <3>2, <4>1, <4>2
    <3> QED
      BY <3>1, <3>2
  <2>6. h[{}] = base
    BY <2>1, <2>3, <2>4
  <2>7. ASSUME NEW S \in Small(m + 1), S # {}
        PROVE  h[S] = op[<<choice[S], h[S \ {choice[S]}]>>]
    <3>1. S \ {choice[S]} \in Small(m)
      BY <2>2, <2>7
    <3>2. h[S \ {choice[S]}] = g[S \ {choice[S]}]
      BY <2>3, <3>1
    <3>3. h[S] = op[<<choice[S], g[S \ {choice[S]}]>>]
      BY <2>1, <2>7
    <3> QED
      BY <3>2, <3>3
  <2>8. h \in [Small(m + 1) -> V]
    <3>1. h = [S \in Small(m + 1) |-> h[S]]
      OBVIOUS
    <3> HIDE DEF h
    <3> QED
      BY <2>5, <3>1
  <2> HIDE DEF h
  <2>9. Up(m + 1, h)
    BY <2>6, <2>7, <2>8
  <2>10. m + 1 \in 0 .. n
    <3> HIDE DEF n
    <3> QED
      BY <1>1, <1>6
  <2> QED
    BY <2>9, <2>10
<1>7. n \in T
  <2> HIDE DEF T, n
  <2>1. \A k \in 0 .. n : k \in T
    BY <1>1, <1>5, <1>6, UpTo
  <2> QED
    BY <1>1, <2>1
<1>8. Small(n) = SUBSET D
  BY <1>2
<1>9. PICK g : Up(n, g)
  BY <1>7
<1> QED
  BY <1>8, <1>9 DEF Foldable, Folds
-----------------------------------------------------------------------------
(***************************************************************************)
(* Bytes, and what the folds of the format make of them.                   *)
(***************************************************************************)
Byte == 0 .. 2 * Radix - 1

\* The widths are positive.
LEMMA Widths ==
  /\ SizeRadix \in Nat /\ SizeRadix > 0 /\ Radix \in Nat /\ Radix > 0
  /\ OidLen \in Nat /\ OidLen > 0 /\ TrailerLen \in Nat /\ TrailerLen > 0
  /\ OutputLen \in Nat /\ OutputLen > 0
BY FormatAssumption, ScannerAssumption DEF Radix

\* What is read from a byte are numbers.
LEMMA Bytes ==
  ASSUME NEW byte \in Byte
  PROVE  /\ byte \in Nat /\ Group(byte) \in Nat /\ KindOf(byte) \in Nat /\ SizeOf(byte) \in Nat
         /\ Inflates(byte) \in Nat
<1>1. PICK r : r = Radix
  OBVIOUS
<1>2. PICK q : q = SizeRadix
  OBVIOUS
<1>3. r \in Nat /\ r > 0 /\ q \in Nat /\ q > 0 /\ byte \in Nat
  BY <1>1, <1>2, Widths DEF Byte
<1>4. byte % r \in Nat /\ byte % q \in Nat
  BY <1>3
<1>5. (byte % r) \div q \in Nat /\ (byte % r) % 4 \in Nat
  BY <1>3, <1>4
<1> QED
  BY <1>1, <1>2, <1>3, <1>4, <1>5 DEF Group, KindOf, SizeOf, Inflates

\* The greatest and the least number of each set of them.
Greatest(n) == [T \in SUBSET (1 .. n) |-> Max(T)]
Least(n) == [T \in SUBSET (1 .. n) |-> Min(T)]

\* Both are choices that a fold can be made with.
LEMMA ChoosesEnds ==
  ASSUME NEW n \in Nat
  PROVE  IsFiniteSet(1 .. n) /\ Chooses(1 .. n, Greatest(n)) /\ Chooses(1 .. n, Least(n))
<1>1. IsFiniteSet(1 .. n)
  BY FS_Interval
<1>2. ASSUME NEW T \in SUBSET (1 .. n), T # {} PROVE Greatest(n)[T] \in T /\ Least(n)[T] \in T
  <2>1. T \subseteq Nat /\ T \subseteq 1 .. n
    OBVIOUS
  <2> QED
    BY <1>2, <2>1, MaxIs, MinIs DEF Greatest, Least
<1> QED
  BY <1>1, <1>2 DEF Chooses

\* The first numbers without the last of them, and the last ones without the first.
LEMMA LastOf ==
  ASSUME NEW n \in Nat, NEW k \in 1 .. n
  PROVE  /\ 1 .. k \in SUBSET (1 .. n) /\ 1 .. k # {} /\ Max(1 .. k) = k
         /\ (1 .. k) \ {k} = 1 .. k - 1
<1>1. 1 .. k \in SUBSET (1 .. n) /\ k \in 1 .. k /\ 1 .. k # {}
  OBVIOUS
<1>2. Max(1 .. k) \in 1 .. k /\ Max(1 .. k) >= k
  <2> DEFINE S == 1 .. k
  <2>1. S \subseteq 1 .. n /\ S # {} /\ k \in S
    BY <1>1
  <2> HIDE DEF S
  <2>2. Max(S) \in S /\ \A y \in S : Max(S) >= y
    BY <2>1, MaxIs
  <2> QED
    BY <2>1, <2>2 DEF S
<1> QED
  BY <1>1, <1>2

\* Without its first, it begins one behind.
LEMMA FirstOf ==
  ASSUME NEW n \in Nat, NEW k \in 1 .. n
  PROVE  /\ k .. n \in SUBSET (1 .. n) /\ k .. n # {} /\ Min(k .. n) = k
         /\ (k .. n) \ {k} = k + 1 .. n
<1>1. k .. n \in SUBSET (1 .. n) /\ k \in k .. n /\ k .. n # {} /\ k .. n \subseteq Nat
  OBVIOUS
<1>2. Min(k .. n) \in k .. n /\ Min(k .. n) <= k
  <2> DEFINE S == k .. n
  <2>1. S \subseteq Nat /\ S # {} /\ k \in S
    BY <1>1
  <2> HIDE DEF S
  <2>2. Min(S) \in S /\ \A y \in S : Min(S) <= y
    BY <2>1, MinIs
  <2> QED
    BY <2>1, <2>2 DEF S
<1> QED
  BY <1>1, <1>2

\* What a stream inflates to: byte after byte.
Sums(s, v) ==
  /\ v \in [0 .. Len(s) -> Nat] /\ v[0] = 0
  /\ \A k \in 1 .. Len(s) : v[k] = v[k - 1] + Inflates(s[k])

SumsTo(s, x) == \E v : Sums(s, v) /\ v[Len(s)] = x

\* What a sequence inflates to is the sum of what its bytes inflate to.
LEMMA InflatedIs ==
  ASSUME NEW s \in Seq(Byte)
  PROVE  SumsTo(s, Inflated(s))
<1> DEFINE n == Len(s)
           Unfolds(g) == g = [S \in SUBSET DOMAIN s |->
                                IF S = {} THEN 0
                                ELSE g[S \ {Max(S)}] + Inflates(s[Max(S)])]
           iter == CHOOSE g : Unfolds(g)
           op == [a \in (1 .. n) \X Nat |-> a[2] + Inflates(s[a[1]])]
<1>1. n \in Nat /\ DOMAIN s = 1 .. n
  BY LenProperties
<1>2. \A i \in 1 .. n : Inflates(s[i]) \in Nat
  BY Bytes, ElementOfSeq
<1>3. Inflated(s) = iter[DOMAIN s]
  BY DEF Inflated, FoldLeft, MapThenFoldSet
<1>4. op \in [(1 .. n) \X Nat -> Nat]
  BY <1>2
<1>5. \E g : Folds(1 .. n, Greatest(n), op, 0, Nat, g)
  <2> HIDE DEF n, op
  <2>1. Foldable(1 .. n, Greatest(n), op, 0, Nat)
    <3>1. 0 \in Nat
      OBVIOUS
    <3> QED
      BY <1>1, <1>4, <3>1, ChoosesEnds, Folded
  <2> QED
    BY <2>1 DEF Foldable
<1>6. PICK g : Folds(1 .. n, Greatest(n), op, 0, Nat, g)
  BY <1>5
<1>7. g \in [SUBSET (1 .. n) -> Nat] /\ g[{}] = 0
  BY <1>6 DEF Folds
<1>8. ASSUME NEW T \in SUBSET (1 .. n), T # {}
      PROVE  g[T] = g[T \ {Max(T)}] + Inflates(s[Max(T)])
  <2>1. Greatest(n)[T] = Max(T) /\ Max(T) \in 1 .. n
    BY <1>1, <1>8, ChoosesEnds DEF Greatest, Chooses
  <2>2. g[T] = op[<<Max(T), g[T \ {Max(T)}]>>]
    <3> HIDE DEF op
    <3> QED
      BY <1>6, <1>8, <2>1 DEF Folds
  <2>3. g[T \ {Max(T)}] \in Nat
    BY <1>7
  <2> QED
    BY <2>1, <2>2, <2>3
<1>9. Unfolds(g)
  <2> DEFINE h == [S \in SUBSET DOMAIN s |->
                     IF S = {} THEN 0 ELSE g[S \ {Max(S)}] + Inflates(s[Max(S)])]
  <2>1. ASSUME NEW T \in SUBSET (1 .. n) PROVE g[T] = h[T]
    BY <1>1, <1>7, <1>8
  <2>2. g = [T \in SUBSET (1 .. n) |-> g[T]] /\ h = [T \in SUBSET (1 .. n) |-> h[T]]
    BY <1>1, <1>7
  <2> HIDE DEF h
  <2>3. g = h
    BY <2>1, <2>2
  <2> QED
    BY <2>3 DEF h
<1>10. Unfolds(iter)
  <2> HIDE DEF Unfolds
  <2> QED
    BY <1>9
<1> HIDE DEF iter
<1> DEFINE v == [k \in 0 .. n |-> iter[1 .. k]]
<1>11. iter[{}] = 0 /\ \A T \in SUBSET (1 .. n) : T # {} =>
                          iter[T] = iter[T \ {Max(T)}] + Inflates(s[Max(T)])
  BY <1>1, <1>10
<1>12. ASSUME NEW k \in 1 .. n PROVE v[k] = v[k - 1] + Inflates(s[k])
  <2>1. /\ 1 .. k \in SUBSET (1 .. n) /\ 1 .. k # {} /\ Max(1 .. k) = k
        /\ (1 .. k) \ {k} = 1 .. k - 1
    BY <1>1, LastOf
  <2>2. iter[1 .. k] = iter[(1 .. k) \ {Max(1 .. k)}] + Inflates(s[Max(1 .. k)])
    BY <1>11, <2>1
  <2>3. k \in 0 .. n /\ k - 1 \in 0 .. n
    BY <1>1
  <2> HIDE DEF n
  <2> QED
    BY <2>1, <2>2, <2>3
<1>13. v[0] = 0
  <2>1. 1 .. 0 = {} /\ 0 \in 0 .. n
    BY <1>1
  <2> QED
    BY <1>11, <2>1
<1> DEFINE T == {k \in 0 .. n : v[k] \in Nat}
<1>14. \A k \in 0 .. n : k \in T
  <2>1. 0 \in T
    BY <1>1, <1>13
  <2>2. ASSUME NEW k \in 0 .. n, k \in T, k < n PROVE k + 1 \in T
    <3>1. k + 1 \in 1 .. n /\ (k + 1) - 1 = k /\ k + 1 \in 0 .. n
      BY <1>1, <2>2
    <3>2. v[k + 1] = v[k] + Inflates(s[k + 1])
      <4> HIDE DEF v
      <4> QED
        BY <1>12, <3>1
    <3> HIDE DEF v
    <3> QED
      BY <1>2, <2>2, <3>1, <3>2
  <2> HIDE DEF T, n
  <2> QED
    BY <1>1, <2>1, <2>2, UpTo
<1>15. v \in [0 .. n -> Nat] /\ v[n] = Inflated(s)
  BY <1>1, <1>3, <1>14
<1>16. Sums(s, v) /\ v[Len(s)] = Inflated(s)
  BY <1>12, <1>13, <1>15 DEF Sums
<1> HIDE DEF v
<1> QED
  BY <1>16 DEF SumsTo
\* How far a distance goes: byte after byte, from one less than nothing.
Far == Nat \cup {-1}
Further(n, byte) == (n + 1) * Radix + Group(byte)
FarOf(s) == FoldLeft(LAMBDA n, byte : (n + 1) * Radix + Group(byte), -1, s)

\* One byte more makes a distance, whatever was before.
LEMMA FurtherIs ==
  ASSUME NEW n \in Far, NEW byte \in Byte
  PROVE  Further(n, byte) \in Nat
<1>1. PICK r, g : r = Radix /\ g = Group(byte)
  OBVIOUS
<1>2. r \in Nat /\ g \in Nat /\ n + 1 \in Nat
  BY <1>1, Widths, Bytes DEF Far
<1>3. (n + 1) * r \in Nat
  BY <1>2
<1> QED
  BY <1>1, <1>2, <1>3 DEF Further

Reaches(s, v) ==
  /\ v \in [0 .. Len(s) -> Far] /\ v[0] = -1
  /\ \A k \in 1 .. Len(s) : v[k] = Further(v[k - 1], s[k])

ReachesTo(s, x) == \E v : Reaches(s, v) /\ v[Len(s)] = x

\* The distance of a sequence is reached from its first byte on.
LEMMA FarIs ==
  ASSUME NEW s \in Seq(Byte)
  PROVE  ReachesTo(s, FarOf(s))
<1> DEFINE n == Len(s)
           Unfolds(g) == g = [S \in SUBSET DOMAIN s |->
                                IF S = {} THEN -1
                                ELSE Further(g[S \ {Max(S)}], s[Max(S)])]
           iter == CHOOSE g : Unfolds(g)
           op == [a \in (1 .. n) \X Far |-> Further(a[2], s[a[1]])]
<1>1. n \in Nat /\ DOMAIN s = 1 .. n
  BY LenProperties
<1>2. \A i \in 1 .. n, x \in Far : Further(x, s[i]) \in Far
  BY FurtherIs, ElementOfSeq DEF Far
<1>3. FarOf(s) = iter[DOMAIN s]
  BY DEF FarOf, Further, FoldLeft, MapThenFoldSet
<1>4. op \in [(1 .. n) \X Far -> Far]
  BY <1>2
<1>5. \E g : Folds(1 .. n, Greatest(n), op, -1, Far, g)
  <2> HIDE DEF n, op
  <2>1. Foldable(1 .. n, Greatest(n), op, -1, Far)
    <3>1. -1 \in Far
      BY DEF Far
    <3> QED
      BY <1>1, <1>4, <3>1, ChoosesEnds, Folded
  <2> QED
    BY <2>1 DEF Foldable
<1>6. PICK g : Folds(1 .. n, Greatest(n), op, -1, Far, g)
  BY <1>5
<1>7. g \in [SUBSET (1 .. n) -> Far] /\ g[{}] = -1
  BY <1>6 DEF Folds
<1>8. ASSUME NEW T \in SUBSET (1 .. n), T # {}
      PROVE  g[T] = Further(g[T \ {Max(T)}], s[Max(T)])
  <2>1. Greatest(n)[T] = Max(T) /\ Max(T) \in 1 .. n
    BY <1>1, <1>8, ChoosesEnds DEF Greatest, Chooses
  <2>2. g[T] = op[<<Max(T), g[T \ {Max(T)}]>>]
    <3> HIDE DEF op
    <3> QED
      BY <1>6, <1>8, <2>1 DEF Folds
  <2>3. g[T \ {Max(T)}] \in Far
    BY <1>7
  <2> QED
    BY <2>1, <2>2, <2>3
<1>9. Unfolds(g)
  <2> DEFINE h == [S \in SUBSET DOMAIN s |->
                     IF S = {} THEN -1 ELSE Further(g[S \ {Max(S)}], s[Max(S)])]
  <2>1. ASSUME NEW T \in SUBSET (1 .. n) PROVE g[T] = h[T]
    BY <1>1, <1>7, <1>8
  <2>2. g = [T \in SUBSET (1 .. n) |-> g[T]] /\ h = [T \in SUBSET (1 .. n) |-> h[T]]
    BY <1>1, <1>7
  <2> HIDE DEF h
  <2>3. g = h
    BY <2>1, <2>2
  <2> QED
    BY <2>3 DEF h
<1>10. Unfolds(iter)
  <2> HIDE DEF Unfolds
  <2> QED
    BY <1>9
<1> HIDE DEF iter
<1> DEFINE v == [k \in 0 .. n |-> iter[1 .. k]]
<1>11. iter[{}] = -1 /\ \A T \in SUBSET (1 .. n) : T # {} =>
                          iter[T] = Further(iter[T \ {Max(T)}], s[Max(T)])
  BY <1>1, <1>10
<1>12. ASSUME NEW k \in 1 .. n PROVE v[k] = Further(v[k - 1], s[k])
  <2>1. /\ 1 .. k \in SUBSET (1 .. n) /\ 1 .. k # {} /\ Max(1 .. k) = k
        /\ (1 .. k) \ {k} = 1 .. k - 1
    BY <1>1, LastOf
  <2>2. iter[1 .. k] = Further(iter[(1 .. k) \ {Max(1 .. k)}], s[Max(1 .. k)])
    BY <1>11, <2>1
  <2>3. k \in 0 .. n /\ k - 1 \in 0 .. n
    BY <1>1
  <2> HIDE DEF n
  <2> QED
    BY <2>1, <2>2, <2>3
<1>13. v[0] = -1
  <2>1. 1 .. 0 = {} /\ 0 \in 0 .. n
    BY <1>1
  <2> QED
    BY <1>11, <2>1
<1> DEFINE T == {k \in 0 .. n : v[k] \in Far}
<1>14. \A k \in 0 .. n : k \in T
  <2>1. 0 \in T
    BY <1>1, <1>13 DEF Far
  <2>2. ASSUME NEW k \in 0 .. n, k \in T, k < n PROVE k + 1 \in T
    <3>1. k + 1 \in 1 .. n /\ (k + 1) - 1 = k /\ k + 1 \in 0 .. n
      BY <1>1, <2>2
    <3>2. v[k + 1] = Further(v[k], s[k + 1])
      <4> HIDE DEF v
      <4> QED
        BY <1>12, <3>1
    <3> HIDE DEF v
    <3> QED
      BY <1>2, <2>2, <3>1, <3>2
  <2> HIDE DEF T, n
  <2> QED
    BY <1>1, <2>1, <2>2, UpTo
<1>15. v \in [0 .. n -> Far] /\ v[n] = FarOf(s)
  BY <1>1, <1>3, <1>14
<1>16. Reaches(s, v) /\ v[Len(s)] = FarOf(s)
  BY <1>12, <1>13, <1>15 DEF Reaches
<1> HIDE DEF v
<1> QED
  BY <1>16 DEF ReachesTo
\* The groups of a size, the low ones first: byte after byte from the last.
Higher(n, byte) == Group(byte) + Radix * n
HighOf(s) == FoldRight(LAMBDA byte, n : Group(byte) + Radix * n, s, 0)

\* One byte more in front makes a size.
LEMMA HigherIs ==
  ASSUME NEW n \in Nat, NEW byte \in Byte
  PROVE  Higher(n, byte) \in Nat
<1>1. PICK r, g : r = Radix /\ g = Group(byte)
  OBVIOUS
<1>2. r \in Nat /\ g \in Nat
  BY <1>1, Widths, Bytes
<1>3. r * n \in Nat
  BY <1>2
<1> QED
  BY <1>1, <1>2, <1>3 DEF Higher

Mounts(s, v) ==
  /\ v \in [0 .. Len(s) -> Nat] /\ v[Len(s)] = 0
  /\ \A k \in 1 .. Len(s) : v[k - 1] = Higher(v[k], s[k])

MountsTo(s, x) == \E v : Mounts(s, v) /\ v[0] = x

\* The size of a sequence is reached from its last byte on.
LEMMA HighIs ==
  ASSUME NEW s \in Seq(Byte)
  PROVE  MountsTo(s, HighOf(s))
<1> DEFINE n == Len(s)
           Unfolds(g) == g = [S \in SUBSET DOMAIN s |->
                                IF S = {} THEN 0
                                ELSE Higher(g[S \ {Min(S)}], s[Min(S)])]
           iter == CHOOSE g : Unfolds(g)
           op == [a \in (1 .. n) \X Nat |-> Higher(a[2], s[a[1]])]
<1>1. n \in Nat /\ DOMAIN s = 1 .. n
  BY LenProperties
<1>2. \A i \in 1 .. n, x \in Nat : Higher(x, s[i]) \in Nat
  BY HigherIs, ElementOfSeq
<1>3. HighOf(s) = iter[DOMAIN s]
  BY DEF HighOf, Higher, FoldRight, MapThenFoldSet
<1>4. op \in [(1 .. n) \X Nat -> Nat]
  BY <1>2
<1>5. \E g : Folds(1 .. n, Least(n), op, 0, Nat, g)
  <2> HIDE DEF n, op
  <2>1. Foldable(1 .. n, Least(n), op, 0, Nat)
    <3>1. 0 \in Nat
      OBVIOUS
    <3> QED
      BY <1>1, <1>4, <3>1, ChoosesEnds, Folded
  <2> QED
    BY <2>1 DEF Foldable
<1>6. PICK g : Folds(1 .. n, Least(n), op, 0, Nat, g)
  BY <1>5
<1>7. g \in [SUBSET (1 .. n) -> Nat] /\ g[{}] = 0
  BY <1>6 DEF Folds
<1>8. ASSUME NEW T \in SUBSET (1 .. n), T # {}
      PROVE  g[T] = Higher(g[T \ {Min(T)}], s[Min(T)])
  <2>1. Least(n)[T] = Min(T) /\ Min(T) \in 1 .. n
    BY <1>1, <1>8, ChoosesEnds DEF Least, Chooses
  <2>2. g[T] = op[<<Min(T), g[T \ {Min(T)}]>>]
    <3> HIDE DEF op
    <3> QED
      BY <1>6, <1>8, <2>1 DEF Folds
  <2>3. g[T \ {Min(T)}] \in Nat
    BY <1>7
  <2> QED
    BY <2>1, <2>2, <2>3
<1>9. Unfolds(g)
  <2> DEFINE h == [S \in SUBSET DOMAIN s |->
                     IF S = {} THEN 0 ELSE Higher(g[S \ {Min(S)}], s[Min(S)])]
  <2>1. ASSUME NEW T \in SUBSET (1 .. n) PROVE g[T] = h[T]
    BY <1>1, <1>7, <1>8
  <2>2. g = [T \in SUBSET (1 .. n) |-> g[T]] /\ h = [T \in SUBSET (1 .. n) |-> h[T]]
    BY <1>1, <1>7
  <2> HIDE DEF h
  <2>3. g = h
    BY <2>1, <2>2
  <2> QED
    BY <2>3 DEF h
<1>10. Unfolds(iter)
  <2> HIDE DEF Unfolds
  <2> QED
    BY <1>9
<1> HIDE DEF iter
<1> DEFINE v == [k \in 0 .. n |-> iter[k + 1 .. n]]
<1>11. iter[{}] = 0 /\ \A T \in SUBSET (1 .. n) : T # {} =>
                          iter[T] = Higher(iter[T \ {Min(T)}], s[Min(T)])
  BY <1>1, <1>10
<1>12. ASSUME NEW k \in 1 .. n PROVE v[k - 1] = Higher(v[k], s[k])
  <2>1. /\ k .. n \in SUBSET (1 .. n) /\ k .. n # {} /\ Min(k .. n) = k
        /\ (k .. n) \ {k} = k + 1 .. n
    BY <1>1, FirstOf
  <2>2. iter[k .. n] = Higher(iter[(k .. n) \ {Min(k .. n)}], s[Min(k .. n)])
    BY <1>11, <2>1
  <2>3. k \in 0 .. n /\ k - 1 \in 0 .. n /\ (k - 1) + 1 = k
    BY <1>1
  <2> HIDE DEF n
  <2> QED
    BY <2>1, <2>2, <2>3
<1>13. v[n] = 0
  <2>1. n + 1 .. n = {} /\ n \in 0 .. n
    BY <1>1
  <2> QED
    BY <1>11, <2>1
<1> DEFINE T == {k \in 0 .. n : v[n - k] \in Nat}
<1>14. \A k \in 0 .. n : k \in T
  <2>1. 0 \in T
    <3>1. n - 0 = n
      BY <1>1
    <3> HIDE DEF v
    <3> QED
      BY <1>1, <1>13, <3>1
  <2>2. ASSUME NEW k \in 0 .. n, k \in T, k < n PROVE k + 1 \in T
    <3>1. n - k \in 1 .. n /\ n - (k + 1) = (n - k) - 1 /\ k + 1 \in 0 .. n
      BY <1>1, <2>2
    <3>2. v[(n - k) - 1] = Higher(v[n - k], s[n - k])
      <4> HIDE DEF v
      <4> QED
        BY <1>12, <3>1
    <3> HIDE DEF v
    <3> QED
      BY <1>2, <2>2, <3>1, <3>2
  <2> HIDE DEF T, n
  <2> QED
    BY <1>1, <2>1, <2>2, UpTo
<1>15. v \in [0 .. n -> Nat] /\ v[0] = HighOf(s)
  <2>1. ASSUME NEW k \in 0 .. n PROVE v[k] \in Nat
    <3>1. n - k \in 0 .. n /\ n - (n - k) = k
      BY <1>1
    <3> HIDE DEF v
    <3> QED
      BY <1>14, <3>1
  <2>2. v[0] = iter[1 .. n]
    BY <1>1
  <2> QED
    BY <1>1, <1>3, <2>1, <2>2
<1>16. Mounts(s, v) /\ v[0] = HighOf(s)
  BY <1>12, <1>13, <1>15 DEF Mounts
<1> HIDE DEF v
<1> QED
  BY <1>16 DEF MountsTo
-----------------------------------------------------------------------------
(***************************************************************************)
(* One byte more, or one slice more.                                       *)
(***************************************************************************)

\* Two slices inflate to what they inflate to one after the other.
LEMMA InflatedEmpty == Inflated(<<>>) = 0
<1>1. <<>> \in Seq(Byte) /\ Len(<<>>) = 0
  BY EmptySeq
<1>2. PICK v : Sums(<<>>, v) /\ v[Len(<<>>)] = Inflated(<<>>)
  BY <1>1, InflatedIs DEF SumsTo
<1> QED
  BY <1>1, <1>2 DEF Sums

\* Two sequences inflate to what each of them does, so a stream may be cut anywhere.
LEMMA InflatedConcat ==
  ASSUME NEW s \in Seq(Byte), NEW t \in Seq(Byte)
  PROVE  /\ Inflated(s) \in Nat /\ Inflated(t) \in Nat
         /\ Inflated(s \o t) = Inflated(s) + Inflated(t)
<1> DEFINE u == s \o t
           m == Len(s)
           n == Len(t)
<1>1. /\ u \in Seq(Byte) /\ Len(u) = m + n /\ m \in Nat /\ n \in Nat
      /\ \A i \in 1 .. m + n : u[i] = IF i <= m THEN s[i] ELSE t[i - m]
  BY ConcatProperties, LenProperties
<1> HIDE DEF u
<1>2. PICK v : Sums(s, v) /\ v[m] = Inflated(s)
  BY InflatedIs DEF SumsTo
<1>3. PICK w : Sums(t, w) /\ w[n] = Inflated(t)
  BY InflatedIs DEF SumsTo
<1>4. PICK x : Sums(u, x) /\ x[Len(u)] = Inflated(u)
  BY <1>1, InflatedIs DEF SumsTo
<1>5. /\ v \in [0 .. m -> Nat] /\ v[0] = 0 /\ \A k \in 1 .. m : v[k] = v[k - 1] + Inflates(s[k])
      /\ w \in [0 .. n -> Nat] /\ w[0] = 0 /\ \A k \in 1 .. n : w[k] = w[k - 1] + Inflates(t[k])
      /\ x[0] = 0 /\ \A k \in 1 .. m + n : x[k] = x[k - 1] + Inflates(u[k])
  BY <1>1, <1>2, <1>3, <1>4 DEF Sums
<1> HIDE DEF m, n
<1>6. x[m] = v[m]
  <2> DEFINE T == {k \in 0 .. m : x[k] = v[k]}
  <2>1. 0 \in T
    BY <1>1, <1>5
  <2>2. ASSUME NEW k \in 0 .. m, k \in T, k < m PROVE k + 1 \in T
    <3>1. /\ k + 1 \in 1 .. m /\ k + 1 \in 1 .. m + n /\ (k + 1) - 1 = k /\ k + 1 <= m
          /\ k + 1 \in 0 .. m
      BY <1>1, <2>2
    <3>2. u[k + 1] = s[k + 1]
      BY <1>1, <3>1
    <3>3. v[k + 1] = v[k] + Inflates(s[k + 1]) /\ x[k + 1] = x[k] + Inflates(u[k + 1])
      BY <1>5, <3>1
    <3> QED
      BY <2>2, <3>1, <3>2, <3>3
  <2>3. \A k \in 0 .. m : k \in T
    <3> HIDE DEF T
    <3> QED
      BY <1>1, <2>1, <2>2, UpTo
  <2> QED
    BY <1>1, <2>3
<1>7. x[m + n] = v[m] + w[n]
  <2> DEFINE T == {k \in 0 .. n : x[m + k] = v[m] + w[k]}
  <2>0. v[m] \in Nat /\ \A k \in 0 .. n : w[k] \in Nat
    BY <1>1, <1>5
  <2>1. 0 \in T
    <3>1. m + 0 = m /\ v[m] + 0 = v[m] /\ 0 \in 0 .. n
      BY <1>1, <2>0
    <3> QED
      BY <1>5, <1>6, <3>1
  <2>2. ASSUME NEW k \in 0 .. n, k \in T, k < n PROVE k + 1 \in T
    <3>1. /\ k + 1 \in 1 .. n /\ m + (k + 1) \in 1 .. m + n /\ (k + 1) - 1 = k
          /\ (m + (k + 1)) - 1 = m + k /\ ~(m + (k + 1) <= m) /\ (m + (k + 1)) - m = k + 1
          /\ k + 1 \in 0 .. n
      BY <1>1, <2>2
    <3>2. u[m + (k + 1)] = t[k + 1]
      BY <1>1, <3>1
    <3>3. /\ w[k + 1] = w[k] + Inflates(t[k + 1])
          /\ x[m + (k + 1)] = x[m + k] + Inflates(t[k + 1])
      BY <1>5, <3>1, <3>2
    <3>4. Inflates(t[k + 1]) \in Nat
      <4>1. t[k + 1] \in Byte
        BY <3>1, ElementOfSeq DEF n
      <4> QED
        BY <4>1, Bytes
    <3>5. x[m + k] = v[m] + w[k]
      BY <2>2
    <3>6. x[m + (k + 1)] = v[m] + w[k + 1]
      BY <2>0, <3>3, <3>4, <3>5
    <3> QED
      BY <3>1, <3>6
  <2>3. \A k \in 0 .. n : k \in T
    <3> HIDE DEF T
    <3> QED
      BY <1>1, <2>1, <2>2, UpTo
  <2> QED
    BY <1>1, <2>3
<1>8. v[m] \in Nat /\ w[n] \in Nat
  BY <1>1, <1>5
<1> QED
  BY <1>1, <1>2, <1>3, <1>4, <1>7, <1>8 DEF u

\* A distance after one byte more.
LEMMA FarEmpty == FarOf(<<>>) = -1
<1>1. <<>> \in Seq(Byte) /\ Len(<<>>) = 0
  BY EmptySeq
<1>2. PICK v : Reaches(<<>>, v) /\ v[Len(<<>>)] = FarOf(<<>>)
  BY <1>1, FarIs DEF ReachesTo
<1> QED
  BY <1>1, <1>2 DEF Reaches

\* A byte at the end takes the distance further.
LEMMA FarAppend ==
  ASSUME NEW s \in Seq(Byte), NEW byte \in Byte
  PROVE  FarOf(s) \in Far /\ FarOf(Append(s, byte)) = Further(FarOf(s), byte)
<1> DEFINE u == Append(s, byte)
           m == Len(s)
<1>1. /\ u \in Seq(Byte) /\ Len(u) = m + 1 /\ m \in Nat
      /\ \A i \in 1 .. m : u[i] = s[i]
      /\ u[m + 1] = byte
  BY AppendProperties, LenProperties
<1> HIDE DEF u
<1>2. PICK v : Reaches(s, v) /\ v[m] = FarOf(s)
  BY FarIs DEF ReachesTo
<1>3. PICK x : Reaches(u, x) /\ x[Len(u)] = FarOf(u)
  BY <1>1, FarIs DEF ReachesTo
<1>4. /\ v \in [0 .. m -> Far] /\ v[0] = -1 /\ \A k \in 1 .. m : v[k] = Further(v[k - 1], s[k])
      /\ x[0] = -1 /\ \A k \in 1 .. m + 1 : x[k] = Further(x[k - 1], u[k])
  BY <1>1, <1>2, <1>3 DEF Reaches
<1> HIDE DEF m
<1>5. x[m] = v[m]
  <2> DEFINE T == {k \in 0 .. m : x[k] = v[k]}
  <2>1. 0 \in T
    BY <1>1, <1>4
  <2>2. ASSUME NEW k \in 0 .. m, k \in T, k < m PROVE k + 1 \in T
    <3>1. k + 1 \in 1 .. m /\ k + 1 \in 1 .. m + 1 /\ (k + 1) - 1 = k /\ k + 1 \in 0 .. m
      BY <1>1, <2>2
    <3>2. v[k + 1] = Further(v[k], s[k + 1]) /\ x[k + 1] = Further(x[k], u[k + 1])
      BY <1>4, <3>1
    <3> QED
      BY <1>1, <2>2, <3>1, <3>2
  <2>3. \A k \in 0 .. m : k \in T
    <3> HIDE DEF T
    <3> QED
      BY <1>1, <2>1, <2>2, UpTo
  <2> QED
    BY <1>1, <2>3
<1>6. v[m] \in Far /\ m + 1 \in 1 .. m + 1 /\ (m + 1) - 1 = m
  BY <1>1, <1>4
<1>7. x[m + 1] = Further(x[m], byte)
  BY <1>1, <1>4, <1>6
<1> QED
  BY <1>1, <1>2, <1>3, <1>5, <1>6, <1>7 DEF u

\* The powers of the radix, by which the groups of a size are shifted.
Powers(n, g) == Repeats(n, Nat, 1, [x \in Nat |-> Radix * x], g)
Power(n) == (CHOOSE g : Powers(n, g))[n]

\* The powers are what they are meant to be, up to any number.
LEMMA PowersAre ==
  ASSUME NEW n \in Nat
  PROVE  \E g : /\ g \in [0 .. n -> Nat] /\ g[0] = 1 /\ \A k \in 1 .. n : g[k] = Radix * g[k - 1]
                /\ g[n] = Power(n)
<1> DEFINE f == [x \in Nat |-> Radix * x]
<1>1. f \in [Nat -> Nat]
  <2>1. PICK r : r = Radix
    OBVIOUS
  <2>2. \A x \in Nat : r * x \in Nat
    BY <2>1, Widths
  <2> QED
    BY <2>1, <2>2
<1>2. \E g : Repeats(n, Nat, 1, f, g)
  <2>1. 1 \in Nat
    OBVIOUS
  <2> HIDE DEF f
  <2> QED
    BY <1>1, <2>1, Repeated DEF Repeatable
<1>3. \E g : Powers(n, g)
  BY <1>2 DEF Powers
<1> DEFINE g == CHOOSE h : Powers(n, h)
<1>4. Powers(n, g)
  BY <1>3
<1> HIDE DEF g
<1>5. g \in [0 .. n -> Nat] /\ g[0] = 1 /\ \A k \in 1 .. n : g[k] = f[g[k - 1]]
  <2> HIDE DEF f
  <2>1. Repeats(n, Nat, 1, f, g)
    BY <1>4 DEF Powers, f
  <2> QED
    BY <2>1 DEF Repeats
<1>6. ASSUME NEW k \in 1 .. n PROVE g[k] = Radix * g[k - 1]
  <2>1. k - 1 \in 0 .. n
    OBVIOUS
  <2>2. g[k - 1] \in Nat
    BY <1>5, <2>1
  <2> QED
    BY <1>5, <2>2
<1>7. g[n] = Power(n)
  BY DEF Power, g
<1> QED
  BY <1>5, <1>6, <1>7

\* So are they at each number.
LEMMA PowerIs ==
  /\ Power(0) = 1
  /\ \A n \in Nat : Power(n) \in Nat /\ Power(n + 1) = Radix * Power(n)
<1>1. Power(0) = 1
  BY PowersAre
<1>2. ASSUME NEW n \in Nat PROVE Power(n) \in Nat /\ Power(n + 1) = Radix * Power(n)
  <2>1. PICK g : /\ g \in [0 .. n -> Nat] /\ g[0] = 1
                 /\ \A k \in 1 .. n : g[k] = Radix * g[k - 1]
                 /\ g[n] = Power(n)
    BY PowersAre
  <2>2. PICK h : /\ h \in [0 .. n + 1 -> Nat] /\ h[0] = 1
                 /\ \A k \in 1 .. n + 1 : h[k] = Radix * h[k - 1]
                 /\ h[n + 1] = Power(n + 1)
    <3>1. n + 1 \in Nat
      OBVIOUS
    <3> QED
      BY <3>1, PowersAre
  <2> DEFINE T == {k \in 0 .. n : g[k] = h[k]}
  <2>3. 0 \in T
    BY <2>1, <2>2
  <2>4. ASSUME NEW k \in 0 .. n, k \in T, k < n PROVE k + 1 \in T
    <3>1. k + 1 \in 1 .. n /\ k + 1 \in 1 .. n + 1 /\ (k + 1) - 1 = k /\ k + 1 \in 0 .. n
      BY <2>4
    <3>2. g[k + 1] = Radix * g[k] /\ h[k + 1] = Radix * h[k]
      BY <2>1, <2>2, <3>1
    <3> QED
      BY <2>4, <3>1, <3>2
  <2>5. \A k \in 0 .. n : k \in T
    <3> HIDE DEF T
    <3> QED
      BY <2>3, <2>4, UpTo
  <2>6. n \in 0 .. n /\ n + 1 \in 1 .. n + 1 /\ (n + 1) - 1 = n
    OBVIOUS
  <2>7. h[n] = g[n] /\ h[n + 1] = Radix * h[n]
    BY <2>2, <2>5, <2>6
  <2> QED
    BY <2>1, <2>2, <2>6, <2>7
<1> QED
  BY <1>1, <1>2

\* A size after one byte more: its group is shifted by all those before.
LEMMA Shifted ==
  ASSUME NEW r \in Nat, NEW g \in Nat, NEW a \in Nat, NEW p \in Nat, NEW c \in Nat
  PROVE  c + r * (a + g * p) = (c + r * a) + g * (r * p)
<1>1. r * (a + g * p) = r * a + r * (g * p)
  OBVIOUS
<1>2. r * (g * p) = g * (r * p)
  OBVIOUS
<1>3. r * a \in Nat /\ r * (g * p) \in Nat
  OBVIOUS
<1> QED
  BY <1>1, <1>2, <1>3

\* The size of no byte is zero.
LEMMA HighEmpty == HighOf(<<>>) = 0
<1>1. <<>> \in Seq(Byte) /\ Len(<<>>) = 0
  BY EmptySeq
<1>2. PICK v : Mounts(<<>>, v) /\ v[0] = HighOf(<<>>)
  BY <1>1, HighIs DEF MountsTo
<1> QED
  BY <1>1, <1>2 DEF Mounts

\* A byte at the end adds its group, shifted by the bytes before.
LEMMA HighAppend ==
  ASSUME NEW s \in Seq(Byte), NEW byte \in Byte
  PROVE  /\ HighOf(s) \in Nat
         /\ HighOf(Append(s, byte)) = HighOf(s) + Group(byte) * Power(Len(s))
<1> DEFINE u == Append(s, byte)
           m == Len(s)
           g == Group(byte)
<1>1. /\ u \in Seq(Byte) /\ Len(u) = m + 1 /\ m \in Nat
      /\ \A i \in 1 .. m : u[i] = s[i]
      /\ u[m + 1] = byte /\ g \in Nat /\ Radix \in Nat
  BY AppendProperties, LenProperties, Bytes, Widths
<1> HIDE DEF u
<1>2. PICK v : Mounts(s, v) /\ v[0] = HighOf(s)
  BY HighIs DEF MountsTo
<1>3. PICK x : Mounts(u, x) /\ x[0] = HighOf(u)
  BY <1>1, HighIs DEF MountsTo
<1>4. /\ v \in [0 .. m -> Nat] /\ v[m] = 0 /\ \A k \in 1 .. m : v[k - 1] = Higher(v[k], s[k])
      /\ x[m + 1] = 0 /\ \A k \in 1 .. m + 1 : x[k - 1] = Higher(x[k], u[k])
  BY <1>1, <1>2, <1>3 DEF Mounts
<1> HIDE DEF m, g
<1> DEFINE T == {k \in 0 .. m : x[m - k] = v[m - k] + g * Power(k)}
<1>5. 0 \in T
  <2>1. m + 1 \in 1 .. m + 1 /\ (m + 1) - 1 = m /\ m - 0 = m
    BY <1>1
  <2>2. x[m] = Group(byte) + Radix * 0
    BY <1>1, <1>4, <2>1 DEF Higher
  <2>3. x[m] = 0 + g * 1
    BY <1>1, <2>2 DEF g
  <2> QED
    BY <1>1, <1>4, <2>1, <2>3, PowerIs
<1>6. ASSUME NEW k \in 0 .. m, k \in T, k < m PROVE k + 1 \in T
  <2> DEFINE j == m - k
  <2>1. /\ j \in 1 .. m /\ j \in 1 .. m + 1 /\ j - 1 = m - (k + 1) /\ j \in 0 .. m
        /\ k + 1 \in 0 .. m /\ k \in Nat
    BY <1>1, <1>6
  <2>2. x[j] = v[j] + g * Power(k)
    BY <1>6
  <2> HIDE DEF j
  <2>3. x[j - 1] = Group(s[j]) + Radix * (v[j] + g * Power(k))
    BY <1>1, <1>4, <2>1, <2>2 DEF Higher
  <2>4. v[j - 1] = Group(s[j]) + Radix * v[j]
    BY <1>4, <2>1 DEF Higher
  <2>5. v[j] \in Nat /\ Power(k) \in Nat /\ Group(s[j]) \in Nat
    <3>1. s[j] \in Byte
      BY <2>1, ElementOfSeq DEF m
    <3> QED
      BY <1>4, <2>1, <3>1, PowerIs, Bytes
  <2>6. x[j - 1] = v[j - 1] + g * (Radix * Power(k))
    <3>1. PICK r, a, p, c : r = Radix /\ a = v[j] /\ p = Power(k) /\ c = Group(s[j])
      OBVIOUS
    <3>2. c + r * (a + g * p) = (c + r * a) + g * (r * p)
      BY <1>1, <2>5, <3>1, Shifted
    <3> QED
      BY <2>3, <2>4, <3>1, <3>2
  <2>7. Power(k + 1) = Radix * Power(k)
    BY <2>1, PowerIs
  <2> QED
    BY <2>1, <2>6, <2>7
<1>7. \A k \in 0 .. m : k \in T
  <2> HIDE DEF T
  <2> QED
    BY <1>1, <1>5, <1>6, UpTo
<1>8. m \in 0 .. m /\ m - m = 0 /\ 0 \in 0 .. m
  BY <1>1
<1>9. x[0] = v[0] + g * Power(m) /\ v[0] \in Nat
  BY <1>4, <1>7, <1>8
<1> QED
  BY <1>2, <1>3, <1>9 DEF u, m, g
-----------------------------------------------------------------------------
(***************************************************************************)
(* The parts of a pack.                                                    *)
(***************************************************************************)

\* A pack is a sequence of bytes.
LEMMA PackIs ==
  ASSUME NEW p \in Packs
  PROVE  /\ p \in Seq(Byte) /\ Len(p) \in Nat /\ \A i \in 1 .. Len(p) : p[i] \in Byte
BY ScannerAssumption, LenProperties, ElementOfSeq DEF Byte

\* The bytes between two offsets are those, one after the other.
LEMMA Slice ==
  ASSUME NEW p \in Packs, NEW b \in 0 .. Len(p), NEW a \in 0 .. b
  PROVE  /\ Between(p, a, b) = SubSeq(p, a + 1, b)
         /\ Between(p, a, b) \in Seq(Byte) /\ Len(Between(p, a, b)) = b - a
         /\ \A i \in 1 .. b - a : Between(p, a, b)[i] = p[a + i]
<1>1. Len(p) \in Nat /\ b \in Nat /\ a \in Nat /\ b <= Len(p) /\ a <= b
  BY PackIs
<1>2. Min({b, Len(p)}) = b
  <2>1. {b, Len(p)} \subseteq Nat /\ {b, Len(p)} # {}
    BY <1>1
  <2>2. PICK x : x = Min({b, Len(p)})
    OBVIOUS
  <2>3. x \in {b, Len(p)} /\ x <= b
    BY <2>1, <2>2, MinIs
  <2> QED
    BY <1>1, <2>2, <2>3
<1>3. Between(p, a, b) = SubSeq(p, a + 1, b)
  BY <1>2 DEF Between
<1>4. \A i \in a + 1 .. b : p[i] \in Byte
  BY <1>1, PackIs
<1>5. PICK m : m = a + 1
  OBVIOUS
<1>6. m \in Int /\ b \in Int
  BY <1>1, <1>5
<1>7. /\ SubSeq(p, m, b) \in Seq(Byte)
      /\ Len(SubSeq(p, m, b)) = IF m <= b THEN (b - m) + 1 ELSE 0
      /\ \A i \in 1 .. (b - m) + 1 : SubSeq(p, m, b)[i] = p[(m + i) - 1]
  BY <1>4, <1>5, <1>6, SubSeqProperties
<1>8. /\ (b - m) + 1 = b - a /\ (m <= b \/ b - a = 0)
      /\ \A i \in 1 .. b - a : (m + i) - 1 = a + i
  BY <1>1, <1>5
<1> QED
  BY <1>3, <1>5, <1>7, <1>8

\* Between an offset and itself is nothing.
LEMMA SliceEmpty ==
  ASSUME NEW p \in Packs, NEW a \in 0 .. Len(p)
  PROVE  Between(p, a, a) = <<>>
<1>1. a \in 0 .. a /\ a - a = 0
  BY PackIs
<1> QED
  BY <1>1, Slice, EmptySeq, SeqEqual

\* One byte more of a pack.
LEMMA SliceAppend ==
  ASSUME NEW p \in Packs, NEW b \in 0 .. Len(p) - 1, NEW a \in 0 .. b
  PROVE  /\ Append(Between(p, a, b), p[b + 1]) = Between(p, a, b + 1)
         /\ p[b + 1] \in Byte /\ Between(p, a, b) \in Seq(Byte)
<1>1. /\ Len(p) \in Nat /\ b \in 0 .. Len(p) /\ b + 1 \in 1 .. Len(p) /\ b + 1 \in 0 .. Len(p)
      /\ a \in 0 .. b + 1 /\ a + 1 \in 1 .. Len(p) /\ b + 1 \in a + 1 .. Len(p) /\ (b + 1) - 1 = b
  BY PackIs
<1>2. p \in Seq(Byte) /\ p[b + 1] \in Byte
  BY <1>1, PackIs
<1>3. Between(p, a, b) = SubSeq(p, a + 1, b) /\ Between(p, a, b) \in Seq(Byte)
  BY <1>1, Slice
<1>4. Between(p, a, b + 1) = SubSeq(p, a + 1, b + 1)
  <2>1. PICK c : c = b + 1
    OBVIOUS
  <2>2. c \in 0 .. Len(p) /\ a \in 0 .. c
    BY <1>1, <2>1
  <2> QED
    BY <2>1, <2>2, Slice
<1>5. SubSeq(p, a + 1, b + 1) = SubSeq(p, a + 1, b) \o <<p[b + 1]>>
  <2>1. PICK m, n : m = a + 1 /\ n = b + 1
    OBVIOUS
  <2>2. m \in 1 .. Len(p) /\ n \in m .. Len(p) /\ n - 1 = b
    BY <1>1, <2>1
  <2>3. SubSeq(p, m, n) = SubSeq(p, m, n - 1) \o <<p[n]>>
    BY <1>2, <2>2, SubSeqRecursiveSecond
  <2> QED
    BY <2>1, <2>2, <2>3
<1> QED
  BY <1>2, <1>3, <1>4, <1>5, AppendIsConcat

\* Two parts of a pack that meet.
LEMMA SliceJoin ==
  ASSUME NEW p \in Packs, NEW c \in 0 .. Len(p), NEW b \in 0 .. c, NEW a \in 0 .. b
  PROVE  Between(p, a, b) \o Between(p, b, c) = Between(p, a, c)
<1>1. /\ Len(p) \in Nat /\ b \in 0 .. Len(p) /\ a \in 0 .. c /\ a + 1 \in 1 .. Len(p) + 1
      /\ (a + 1) - 1 = a /\ b \in a .. Len(p) /\ c \in b .. Len(p)
  BY PackIs
<1>2. /\ Between(p, a, b) = SubSeq(p, a + 1, b) /\ Between(p, b, c) = SubSeq(p, b + 1, c)
      /\ Between(p, a, c) = SubSeq(p, a + 1, c)
  BY <1>1, Slice
<1>3. SubSeq(p, a + 1, b) \o SubSeq(p, b + 1, c) = SubSeq(p, a + 1, c)
  <2>1. PICK m : m = a + 1
    OBVIOUS
  <2>2. m \in 1 .. Len(p) + 1 /\ b \in m - 1 .. Len(p) /\ c \in b .. Len(p) /\ p \in Seq(Byte)
    BY <1>1, <2>1, PackIs
  <2> QED
    BY <2>1, <2>2, ConcatAdjacentSubSeq
<1> QED
  BY <1>2, <1>3

\* A varint ends with the first byte that does not go on.
GoesOn(p, from, to) == \A j \in from + 1 .. to : Continues(p[j])

\* It ends behind its start, with the first byte that does not go on or not in the pack.
LEMMA VarintFacts ==
  ASSUME NEW p \in Packs, NEW from \in 0 .. Len(p)
  PROVE  /\ VarintEnd(p, from) \in from + 1 .. Len(p) + 1
         /\ GoesOn(p, from, VarintEnd(p, from) - 1)
         /\ VarintEnd(p, from) <= Len(p) => ~Continues(p[VarintEnd(p, from)])
<1> DEFINE S == {j \in from + 1 .. Len(p) : ~Continues(p[j])} \cup {Len(p) + 1}
<1>1. Len(p) \in Nat /\ from \in Nat /\ from <= Len(p)
  BY PackIs
<1>2. S \subseteq Nat /\ S # {}
  BY <1>1
<1>3. PICK e : e = VarintEnd(p, from)
  OBVIOUS
<1>4. e \in S /\ \A j \in S : e <= j
  <2> HIDE DEF S
  <2>1. e = Min(S)
    BY <1>3 DEF VarintEnd, S
  <2> QED
    BY <1>2, <2>1, MinIs
<1>5. e \in from + 1 .. Len(p) + 1
  BY <1>1, <1>4
<1>6. e <= Len(p) => ~Continues(p[e])
  BY <1>1, <1>4
<1>7. ASSUME NEW j \in from + 1 .. e - 1 PROVE Continues(p[j])
  <2>1. j \in from + 1 .. Len(p) /\ ~(e <= j)
    BY <1>1, <1>5
  <2> QED
    BY <1>4, <2>1
<1> QED
  BY <1>3, <1>5, <1>6, <1>7 DEF GoesOn

\* It ends behind all that go on.
LEMMA VarintPast ==
  ASSUME NEW p \in Packs, NEW from \in 0 .. Len(p), NEW n \in from .. Len(p), GoesOn(p, from, n)
  PROVE  VarintEnd(p, from) > n
<1>1. PICK e : e = VarintEnd(p, from)
  OBVIOUS
<1>2. e \in from + 1 .. Len(p) + 1 /\ (e <= Len(p) => ~Continues(p[e]))
  BY <1>1, VarintFacts
<1>3. Len(p) \in Nat /\ from \in Nat /\ n \in Nat /\ n <= Len(p)
  BY PackIs
<1>4. e <= n => e \in from + 1 .. n /\ e <= Len(p)
  BY <1>2, <1>3
<1>5. ~(e <= n)
  BY <1>2, <1>4 DEF GoesOn
<1> QED
  BY <1>1, <1>2, <1>3, <1>5

\* A byte that does not go on, behind some that do, is its end.
LEMMA VarintIs ==
  ASSUME NEW p \in Packs, NEW from \in 0 .. Len(p), NEW n \in from .. Len(p) - 1,
         GoesOn(p, from, n), ~Continues(p[n + 1])
  PROVE  VarintEnd(p, from) = n + 1
<1>1. PICK e : e = VarintEnd(p, from)
  OBVIOUS
<1>2. Len(p) \in Nat /\ from \in Nat /\ n \in from .. Len(p) /\ n \in Nat
  BY PackIs
<1>3. e > n
  BY <1>1, <1>2, VarintPast
<1>4. e \in from + 1 .. Len(p) + 1 /\ GoesOn(p, from, e - 1)
  BY <1>1, VarintFacts
<1>5. e > n + 1 => n + 1 \in from + 1 .. e - 1
  BY <1>2, <1>4
<1>6. ~(e > n + 1)
  BY <1>4, <1>5 DEF GoesOn
<1> QED
  BY <1>1, <1>2, <1>3, <1>4, <1>6

\* The size in an object header, byte after byte.
LEMMA SizeFirst ==
  ASSUME NEW p \in Packs, NEW start \in 0 .. Len(p) - 1
  PROVE  HeaderSize(p, start, start + 1) = SizeOf(p[start + 1])
<1>1. start + 1 \in 0 .. Len(p) /\ start + 1 \in 1 .. Len(p)
  BY PackIs
<1>2. Between(p, start + 1, start + 1) = <<>>
  BY <1>1, SliceEmpty
<1>3. HeaderSize(p, start, start + 1) = SizeOf(p[start + 1]) + SizeRadix * HighOf(<<>>)
  BY <1>2 DEF HeaderSize, HighOf
<1>4. SizeOf(p[start + 1]) \in Nat /\ SizeRadix \in Nat
  BY <1>1, PackIs, Bytes, Widths
<1>5. SizeRadix * 0 = 0 /\ SizeOf(p[start + 1]) + 0 = SizeOf(p[start + 1])
  BY <1>4
<1> QED
  BY <1>3, <1>5, HighEmpty

\* Another byte adds its group, shifted by those before: so feed_object_header may add it.
LEMMA SizeNext ==
  ASSUME NEW p \in Packs, NEW end \in 0 .. Len(p) - 1, NEW start \in 0 .. end - 1
  PROVE  HeaderSize(p, start, end + 1)
           = HeaderSize(p, start, end) + Group(p[end + 1]) * (SizeRadix * Power((end - start) - 1))
<1> DEFINE s == Between(p, start + 1, end)
           byte == p[end + 1]
           c == SizeOf(p[start + 1])
<1>1. Len(p) \in Nat /\ start + 1 \in 0 .. end /\ end \in 0 .. Len(p) /\ start + 1 \in 1 .. Len(p)
      /\ end - (start + 1) = (end - start) - 1
  BY PackIs
<1>2. Append(s, byte) = Between(p, start + 1, end + 1) /\ byte \in Byte /\ s \in Seq(Byte)
  BY <1>1, SliceAppend
<1>3. Len(s) = (end - start) - 1 /\ Len(s) \in Nat
  <2>1. PICK a : a = start + 1
    OBVIOUS
  <2>2. Len(Between(p, a, end)) = end - a
    BY <1>1, <2>1, Slice
  <2>3. (end - start) - 1 \in Nat
    BY <1>1
  <2> QED
    BY <1>1, <2>1, <2>2, <2>3
<1>4. HighOf(s) \in Nat /\ HighOf(Append(s, byte)) = HighOf(s) + Group(byte) * Power(Len(s))
  <2> HIDE DEF s, byte
  <2> QED
    BY <1>2, HighAppend
<1>5. /\ HeaderSize(p, start, end) = c + SizeRadix * HighOf(s)
      /\ HeaderSize(p, start, end + 1) = c + SizeRadix * HighOf(Append(s, byte))
  <2> HIDE DEF s, byte
  <2>1. HeaderSize(p, start, end + 1) = c + SizeRadix * HighOf(Between(p, start + 1, end + 1))
    BY DEF HeaderSize, HighOf
  <2>2. HeaderSize(p, start, end) = c + SizeRadix * HighOf(Between(p, start + 1, end))
    BY DEF HeaderSize, HighOf
  <2> QED
    BY <1>2, <2>1, <2>2 DEF s
<1>6. c \in Nat /\ SizeRadix \in Nat /\ Group(byte) \in Nat /\ Power(Len(s)) \in Nat
  BY <1>1, <1>2, <1>3, PackIs, Bytes, Widths, PowerIs
<1>7. c + SizeRadix * (HighOf(s) + Group(byte) * Power(Len(s)))
        = (c + SizeRadix * HighOf(s)) + Group(byte) * (SizeRadix * Power(Len(s)))
  <2> HIDE DEF s, byte, c
  <2> QED
    BY <1>4, <1>6, Shifted
<1> QED
  BY <1>3, <1>4, <1>5, <1>7

\* A size is a number.
LEMMA SizeIsNat ==
  ASSUME NEW p \in Packs, NEW end \in 0 .. Len(p), NEW start \in 0 .. end - 1
  PROVE  HeaderSize(p, start, end) \in Nat
<1> DEFINE s == Between(p, start + 1, end)
<1>1. Len(p) \in Nat /\ start + 1 \in 0 .. end /\ start + 1 \in 1 .. Len(p)
  BY PackIs
<1>2. s \in Seq(Byte)
  BY <1>1, Slice
<1>3. HighOf(s) \in Nat
  <2>1. 0 \in Byte
    BY Widths DEF Byte
  <2> HIDE DEF s
  <2> QED
    BY <1>2, <2>1, HighAppend
<1>4. HeaderSize(p, start, end) = SizeOf(p[start + 1]) + SizeRadix * HighOf(s)
  BY DEF HeaderSize, HighOf
<1>5. SizeOf(p[start + 1]) \in Nat /\ SizeRadix \in Nat
  BY <1>1, PackIs, Bytes, Widths
<1>6. SizeRadix * HighOf(s) \in Nat
  <2> HIDE DEF s
  <2> QED
    BY <1>3, <1>5
<1> QED
  BY <1>4, <1>5, <1>6

\* The distance to a base, byte after byte.
LEMMA DistanceFirst ==
  ASSUME NEW p \in Packs, NEW a \in 0 .. Len(p)
  PROVE  Distance(p, a, a) = None
BY SliceEmpty, FarEmpty DEF Distance, FarOf, None

\* Another byte takes it further.
LEMMA DistanceNext ==
  ASSUME NEW p \in Packs, NEW b \in 0 .. Len(p) - 1, NEW a \in 0 .. b
  PROVE  /\ Distance(p, a, b) \in Nat \cup {None}
         /\ Distance(p, a, b + 1) = Further(Distance(p, a, b), p[b + 1])
         /\ Distance(p, a, b + 1) \in Nat
<1> DEFINE s == Between(p, a, b)
           byte == p[b + 1]
<1>1. Append(s, byte) = Between(p, a, b + 1) /\ byte \in Byte /\ s \in Seq(Byte)
  BY SliceAppend
<1>2. Distance(p, a, b) = FarOf(s) /\ Distance(p, a, b + 1) = FarOf(Between(p, a, b + 1))
  BY DEF Distance, FarOf
<1> HIDE DEF s, byte
<1>3. FarOf(s) \in Far /\ FarOf(Append(s, byte)) = Further(FarOf(s), byte)
  BY <1>1, FarAppend
<1>4. Further(FarOf(s), byte) \in Nat
  BY <1>1, <1>3, FurtherIs
<1> QED
  BY <1>1, <1>2, <1>3, <1>4 DEF byte, Far, None
-----------------------------------------------------------------------------
(***************************************************************************)
(* What the parser of the whole pack finds.                                *)
(***************************************************************************)
KindAt(p, start) == KindOf(p[start + 1])
HeadEnd(p, start) == VarintEnd(p, start)

BaseEndAt(p, start) ==
  CASE KindAt(p, start) = OffsetKind -> VarintEnd(p, HeadEnd(p, start))
    [] KindAt(p, start) = RefKind    -> HeadEnd(p, start) + OidLen
    [] OTHER                         -> HeadEnd(p, start)

EndAt(p, start) == VarintEnd(p, BaseEndAt(p, start))

ValidAt(p, start) ==
  /\ HeadEnd(p, start) <= Len(p) /\ KindAt(p, start) \in Kinds
  /\ BaseEndAt(p, start) <= Len(p) /\ EndAt(p, start) <= Len(p)
  /\ KindAt(p, start) = OffsetKind =>
       Distance(p, HeadEnd(p, start), BaseEndAt(p, start)) <= start
  /\ \A j \in BaseEndAt(p, start) + 1 .. EndAt(p, start) : ~Corrupt(p[j])
  /\ Inflated(Between(p, BaseEndAt(p, start), EndAt(p, start)))
       = HeaderSize(p, start, HeadEnd(p, start))

FrameAt(p, start) ==
  [offset |-> start,
   encoded |-> Encoded(p, start, KindAt(p, start), HeadEnd(p, start), BaseEndAt(p, start)),
   compressedStart |-> BaseEndAt(p, start),
   compressedLen |-> EndAt(p, start) - BaseEndAt(p, start),
   size |-> HeaderSize(p, start, HeadEnd(p, start)), crc |-> Between(p, start, EndAt(p, start))]

\* These are the parts of the object that the parser finds.
LEMMA ObjectIs ==
  ASSUME NEW p, NEW start
  PROVE  /\ ObjectAt(p, start).valid = ValidAt(p, start)
         /\ ObjectAt(p, start).end = EndAt(p, start)
         /\ ObjectAt(p, start).frame = FrameAt(p, start)
BY DEF ObjectAt, ValidAt, EndAt, FrameAt, BaseEndAt, HeadEnd, KindAt

\* Header, base and stream of an object follow each other.
LEMMA BasePlace ==
  ASSUME NEW p \in Packs, NEW start \in 0 .. Len(p) - 1, HeadEnd(p, start) <= Len(p),
         KindAt(p, start) \in Kinds
  PROVE  /\ HeadEnd(p, start) \in start + 1 .. Len(p)
         /\ BaseEndAt(p, start) >= HeadEnd(p, start) /\ BaseEndAt(p, start) \in Nat
         /\ KindAt(p, start) \in BaseKinds => BaseEndAt(p, start) = HeadEnd(p, start)
         /\ KindAt(p, start) = RefKind => BaseEndAt(p, start) = HeadEnd(p, start) + OidLen
         /\ KindAt(p, start) = OffsetKind =>
              /\ BaseEndAt(p, start) = VarintEnd(p, HeadEnd(p, start))
              /\ BaseEndAt(p, start) > HeadEnd(p, start)
<1>1. PICK h, k : h = HeadEnd(p, start) /\ k = KindAt(p, start)
  OBVIOUS
<1>2. Len(p) \in Nat /\ start \in 0 .. Len(p)
  BY PackIs
<1>3. h \in start + 1 .. Len(p)
  <2>1. h \in start + 1 .. Len(p) + 1
    BY <1>1, <1>2, VarintFacts DEF HeadEnd
  <2> QED
    BY <1>1, <1>2, <2>1
<1>4. k \in BaseKinds \/ k = OffsetKind \/ k = RefKind
  BY <1>1 DEF Kinds
<1>5. CASE k \in BaseKinds
  <2>1. k # OffsetKind /\ k # RefKind
    BY <1>5 DEF BaseKinds, OffsetKind, RefKind
  <2>2. BaseEndAt(p, start) = h
    BY <1>1, <2>1 DEF BaseEndAt
  <2> QED
    BY <1>1, <1>3, <2>1, <2>2
<1>6. CASE k = RefKind
  <2>1. k # OffsetKind /\ k \notin BaseKinds
    BY <1>6 DEF BaseKinds, OffsetKind, RefKind
  <2>2. BaseEndAt(p, start) = h + OidLen
    BY <1>1, <1>6, <2>1 DEF BaseEndAt
  <2> QED
    BY <1>1, <1>3, <1>6, <2>1, <2>2, Widths
<1>7. CASE k = OffsetKind
  <2>1. k # RefKind /\ k \notin BaseKinds
    BY <1>7 DEF BaseKinds, OffsetKind, RefKind
  <2>2. BaseEndAt(p, start) = VarintEnd(p, h)
    BY <1>1, <1>7, <2>1 DEF BaseEndAt
  <2>3. h \in 0 .. Len(p)
    BY <1>2, <1>3
  <2>4. VarintEnd(p, h) \in h + 1 .. Len(p) + 1
    BY <2>3, VarintFacts
  <2> QED
    BY <1>1, <1>3, <1>7, <2>1, <2>2, <2>4
<1> QED
  BY <1>4, <1>5, <1>6, <1>7

\* In an object that the parser accepts all of them are in the pack.
LEMMA EndPlace ==
  ASSUME NEW p \in Packs, NEW start \in 0 .. Len(p) - 1, ValidAt(p, start)
  PROVE  /\ HeadEnd(p, start) \in start + 1 .. Len(p)
         /\ BaseEndAt(p, start) \in HeadEnd(p, start) .. Len(p)
         /\ EndAt(p, start) \in BaseEndAt(p, start) + 1 .. Len(p)
<1>1. PICK h, b, e : h = HeadEnd(p, start) /\ b = BaseEndAt(p, start) /\ e = EndAt(p, start)
  OBVIOUS
<1>2. h <= Len(p) /\ b <= Len(p) /\ e <= Len(p) /\ KindAt(p, start) \in Kinds
  BY <1>1 DEF ValidAt
<1>3. h \in start + 1 .. Len(p) /\ b >= h /\ b \in Nat /\ Len(p) \in Nat
  BY <1>1, <1>2, BasePlace, PackIs
<1>4. b \in 0 .. Len(p)
  BY <1>2, <1>3
<1>5. e \in b + 1 .. Len(p) + 1
  BY <1>1, <1>4, VarintFacts DEF EndAt
<1> QED
  BY <1>1, <1>2, <1>3, <1>5

\* An object that the parser accepts is a frame.
LEMMA FrameIs ==
  ASSUME NEW p \in Packs, NEW start \in 0 .. Len(p) - 1, ValidAt(p, start)
  PROVE  FrameAt(p, start) \in ObjectFrame
<1>1. PICK h, b, e, k : /\ h = HeadEnd(p, start) /\ b = BaseEndAt(p, start)
                        /\ e = EndAt(p, start) /\ k = KindAt(p, start)
  OBVIOUS
<1>2. /\ h \in start + 1 .. Len(p) /\ b \in h .. Len(p) /\ e \in b + 1 .. Len(p)
      /\ Len(p) \in Nat /\ start \in Nat
  BY <1>1, EndPlace, PackIs
<1>3. k \in Kinds /\ (k = OffsetKind => Distance(p, h, b) <= start)
  BY <1>1 DEF ValidAt
<1>4. Byte \subseteq Nat
  BY Widths DEF Byte
<1>5. Between(p, start, e) \in Seq(Nat) /\ Between(p, h, b) \in Seq(Nat)
  <2>1. e \in 0 .. Len(p) /\ start \in 0 .. e /\ b \in 0 .. Len(p) /\ h \in 0 .. b
    BY <1>2
  <2>2. Between(p, start, e) \in Seq(Byte) /\ Between(p, h, b) \in Seq(Byte)
    BY <2>1, Slice
  <2> QED
    BY <1>4, <2>2, SeqMonotonic
<1>6. HeaderSize(p, start, h) \in Nat
  <2>1. h \in 0 .. Len(p) /\ start \in 0 .. h - 1
    BY <1>2
  <2> QED
    BY <2>1, SizeIsNat
<1>7. Encoded(p, start, k, h, b) \in EncodedObjectKind
  <2>1. CASE k = OffsetKind
    <3>1. KindAt(p, start) \in Kinds /\ HeadEnd(p, start) <= Len(p)
      BY <1>1, <1>2, <1>3
    <3>2. b > h
      BY <1>1, <2>1, <3>1, BasePlace
    <3>3. b - 1 \in 0 .. Len(p) - 1 /\ h \in 0 .. b - 1 /\ (b - 1) + 1 = b
      BY <1>2, <3>2
    <3>4. Distance(p, h, b) \in Nat
      <4>1. PICK c : c = b - 1
        OBVIOUS
      <4>2. Distance(p, h, c + 1) \in Nat
        BY <3>3, <4>1, DistanceNext
      <4> QED
        BY <3>3, <4>1, <4>2
    <3>5. start - Distance(p, h, b) \in Nat
      BY <1>2, <1>3, <2>1, <3>4
    <3>6. Encoded(p, start, k, h, b) = [kind |-> k, offset |-> start - Distance(p, h, b)]
      <4>1. k # RefKind
        BY <2>1 DEF OffsetKind, RefKind
      <4> QED
        BY <2>1, <4>1 DEF Encoded
    <3> QED
      BY <2>1, <3>5, <3>6 DEF EncodedObjectKind
  <2>2. CASE k = RefKind
    <3>1. k # OffsetKind
      BY <2>2 DEF OffsetKind, RefKind
    <3>2. Encoded(p, start, k, h, b) = [kind |-> k, oid |-> Between(p, h, b)]
      BY <2>2, <3>1 DEF Encoded
    <3> QED
      BY <1>5, <2>2, <3>2 DEF EncodedObjectKind
  <2>3. CASE k \in BaseKinds
    <3>1. k # OffsetKind /\ k # RefKind
      BY <2>3 DEF BaseKinds, OffsetKind, RefKind
    <3>2. Encoded(p, start, k, h, b) = [kind |-> k]
      BY <3>1 DEF Encoded
    <3> QED
      BY <2>3, <3>2 DEF EncodedObjectKind
  <2> QED
    BY <1>3, <2>1, <2>2, <2>3 DEF Kinds
<1>8. b \in Nat /\ e - b \in Nat
  BY <1>2
<1>9. FrameAt(p, start) =
        [offset |-> start, encoded |-> Encoded(p, start, k, h, b), compressedStart |-> b,
         compressedLen |-> e - b, size |-> HeaderSize(p, start, h),
         crc |-> Between(p, start, e)]
  BY <1>1 DEF FrameAt
<1> QED
  BY <1>2, <1>5, <1>6, <1>7, <1>8, <1>9 DEF ObjectFrame
\* The parser goes from object to object.
ScanStart == [valid |-> TRUE, end |-> HeaderLen, frames |-> <<>>]

ScanStep(p, before) ==
  LET broken == [before EXCEPT !.valid = FALSE]
  IN IF ~before.valid \/ before.end >= Len(p) THEN broken
     ELSE LET object == ObjectAt(p, before.end)
          IN IF object.valid
             THEN [valid |-> TRUE, end |-> object.end,
                   frames |-> Append(before.frames, object.frame)]
             ELSE broken

Scanned(p) ==
  CHOOSE scan : scan = [i \in 0 .. Declared(p) |->
                          IF i = 0 THEN ScanStart ELSE ScanStep(p, scan[i - 1])]

At(p, k) == Scanned(p)[k]

ScanValue == [valid : BOOLEAN, end : Nat, frames : Seq(ObjectFrame)]

Goes(p, v) == v.valid = TRUE /\ v.end < Len(p) /\ ValidAt(p, v.end)

\* It takes an object it accepts, and is broken by any other.
LEMMA StepIs ==
  ASSUME NEW p \in Packs, NEW v \in ScanValue
  PROVE  /\ Goes(p, v) =>
              ScanStep(p, v) = [valid |-> TRUE, end |-> EndAt(p, v.end),
                                frames |-> Append(v.frames, FrameAt(p, v.end))]
         /\ ~Goes(p, v) => ScanStep(p, v) = [v EXCEPT !.valid = FALSE]
         /\ ScanStep(p, v) \in ScanValue
<1>1. v.valid \in BOOLEAN /\ v.end \in Nat /\ v.frames \in Seq(ObjectFrame) /\ Len(p) \in Nat
  BY PackIs DEF ScanValue
<1>2. /\ ObjectAt(p, v.end).valid = ValidAt(p, v.end)
      /\ ObjectAt(p, v.end).end = EndAt(p, v.end)
      /\ ObjectAt(p, v.end).frame = FrameAt(p, v.end)
  BY ObjectIs
<1>3. CASE Goes(p, v)
  <2>1. ~(~v.valid \/ v.end >= Len(p)) /\ ObjectAt(p, v.end).valid = TRUE
    <3>1. v.valid = TRUE /\ v.end < Len(p) /\ ValidAt(p, v.end)
      BY <1>3 DEF Goes
    <3>2. ValidAt(p, v.end) = TRUE
      BY <3>1 DEF ValidAt
    <3>3. ObjectAt(p, v.end).valid = TRUE
      BY <1>2, <3>2
    <3>4. ~(~v.valid \/ v.end >= Len(p))
      BY <1>1, <3>1
    <3> QED
      BY <3>3, <3>4
  <2>2. ScanStep(p, v) = [valid |-> TRUE, end |-> EndAt(p, v.end),
                          frames |-> Append(v.frames, FrameAt(p, v.end))]
    BY <1>2, <2>1 DEF ScanStep
  <2>3. EndAt(p, v.end) \in Nat /\ FrameAt(p, v.end) \in ObjectFrame
    <3>1. PICK s : s = v.end
      OBVIOUS
    <3>2. s \in 0 .. Len(p) - 1 /\ ValidAt(p, s)
      BY <1>1, <1>3, <3>1 DEF Goes
    <3>3. /\ HeadEnd(p, s) \in s + 1 .. Len(p)
          /\ BaseEndAt(p, s) \in HeadEnd(p, s) .. Len(p)
          /\ EndAt(p, s) \in BaseEndAt(p, s) + 1 .. Len(p)
      BY <3>2, EndPlace
    <3>4. EndAt(p, s) \in Nat
      BY <1>1, <3>2, <3>3
    <3> QED
      BY <3>1, <3>2, <3>4, FrameIs
  <2>4. Append(v.frames, FrameAt(p, v.end)) \in Seq(ObjectFrame)
    BY <1>1, <2>3, AppendProperties
  <2> QED
    BY <1>3, <2>2, <2>3, <2>4 DEF ScanValue
<1>4. CASE ~Goes(p, v)
  <2>1. ~v.valid \/ v.end >= Len(p) \/ ObjectAt(p, v.end).valid = FALSE
    <3>1. v.valid # TRUE \/ ~(v.end < Len(p)) \/ ~ValidAt(p, v.end)
      BY <1>4 DEF Goes
    <3>2. ~ValidAt(p, v.end) => ValidAt(p, v.end) = FALSE
      BY DEF ValidAt
    <3>3. ASSUME v.valid # TRUE PROVE ~v.valid
      BY <1>1, <3>3
    <3>4. ASSUME ~(v.end < Len(p)) PROVE v.end >= Len(p)
      BY <1>1, <3>4
    <3>5. ASSUME ~ValidAt(p, v.end) PROVE ObjectAt(p, v.end).valid = FALSE
      BY <1>2, <3>2, <3>5
    <3> QED
      BY <3>1, <3>3, <3>4, <3>5
  <2>2. ScanStep(p, v) = [v EXCEPT !.valid = FALSE]
    BY <2>1 DEF ScanStep
  <2>3. [v EXCEPT !.valid = FALSE] \in ScanValue
    BY DEF ScanValue
  <2> QED
    BY <1>4, <2>2, <2>3
<1> QED
  BY <1>3, <1>4

\* A valid header tells the number of objects.
LEMMA HeaderFacts ==
  ASSUME NEW p \in Packs, HeaderValid(p)
  PROVE  Len(p) >= 3 /\ HeaderLen = 3 /\ Declared(p) \in Nat
<1>1. Len(p) >= 3 /\ HeaderLen = 3
  BY DEF HeaderValid, HeaderLen
<1>2. 3 \in 1 .. Len(p)
  BY <1>1, PackIs
<1> QED
  BY <1>1, <1>2, PackIs, Bytes DEF Declared

\* What the parser has after k objects comes from what it has after one less.
LEMMA ScanIs ==
  ASSUME NEW p \in Packs, HeaderValid(p)
  PROVE  /\ Scan(p) = At(p, Declared(p))
         /\ At(p, 0) = ScanStart
         /\ \A k \in 1 .. Declared(p) : At(p, k) = ScanStep(p, At(p, k - 1))
         /\ \A k \in 0 .. Declared(p) : At(p, k) \in ScanValue
<1> DEFINE n == Declared(p)
           f == [v \in ScanValue |-> ScanStep(p, v)]
           Unfolds(g) == g = [i \in 0 .. n |-> IF i = 0 THEN ScanStart ELSE ScanStep(p, g[i - 1])]
<1>1. n \in Nat
  BY HeaderFacts
<1>2. Scan(p) = At(p, n)
  BY DEF Scan, At, Scanned, ScanStart, ScanStep
<1>3. f \in [ScanValue -> ScanValue]
  BY StepIs
<1>4. ScanStart \in ScanValue
  <2>1. <<>> \in Seq(ObjectFrame) /\ HeaderLen \in Nat
    BY EmptySeq, HeaderFacts
  <2> QED
    BY <2>1 DEF ScanStart, ScanValue
<1>5. \E g : Repeats(n, ScanValue, ScanStart, f, g)
  <2> HIDE DEF n, f
  <2> QED
    BY <1>1, <1>3, <1>4, Repeated DEF Repeatable
<1>6. PICK g : Repeats(n, ScanValue, ScanStart, f, g)
  BY <1>5
<1>7. g \in [0 .. n -> ScanValue] /\ g[0] = ScanStart /\ \A k \in 1 .. n : g[k] = f[g[k - 1]]
  <2> HIDE DEF f, n
  <2> QED
    BY <1>6 DEF Repeats
<1>8. ASSUME NEW k \in 1 .. n PROVE g[k] = ScanStep(p, g[k - 1])
  <2>1. k - 1 \in 0 .. n
    BY <1>1
  <2>2. g[k - 1] \in ScanValue
    BY <1>7, <2>1
  <2> QED
    BY <1>7, <2>2
<1>9. Unfolds(g)
  <2> DEFINE h == [i \in 0 .. n |-> IF i = 0 THEN ScanStart ELSE ScanStep(p, g[i - 1])]
  <2>1. ASSUME NEW i \in 0 .. n PROVE g[i] = h[i]
    <3>1. i = 0 \/ i \in 1 .. n
      BY <1>1
    <3> QED
      BY <1>7, <1>8, <3>1
  <2>2. g = [i \in 0 .. n |-> g[i]] /\ h = [i \in 0 .. n |-> h[i]]
    BY <1>7
  <2> HIDE DEF h
  <2>3. g = h
    BY <2>1, <2>2
  <2> QED
    BY <2>3 DEF h
<1>10. Unfolds(Scanned(p))
  <2>1. Scanned(p) = CHOOSE s : Unfolds(s)
    BY DEF Scanned
  <2> HIDE DEF Unfolds
  <2> QED
    BY <1>9, <2>1
<1>11. /\ At(p, 0) = ScanStart
       /\ \A k \in 1 .. n : At(p, k) = ScanStep(p, At(p, k - 1))
  <2>1. \A k \in 1 .. n : k \in 0 .. n /\ k # 0
    BY <1>1
  <2>2. 0 \in 0 .. n
    BY <1>1
  <2>3. \A i \in 0 .. n : Scanned(p)[i] = IF i = 0 THEN ScanStart ELSE ScanStep(p, Scanned(p)[i - 1])
    BY <1>10
  <2> HIDE DEF n
  <2> QED
    BY <2>1, <2>2, <2>3 DEF At
<1> DEFINE T == {k \in 0 .. n : At(p, k) \in ScanValue}
<1>12. \A k \in 0 .. n : k \in T
  <2> HIDE DEF n
  <2>1. 0 \in T
    BY <1>1, <1>4, <1>11
  <2>2. ASSUME NEW k \in 0 .. n, k \in T, k < n PROVE k + 1 \in T
    <3>1. k + 1 \in 1 .. n /\ k + 1 \in 0 .. n /\ (k + 1) - 1 = k
      BY <1>1, <2>2
    <3>2. At(p, k + 1) = ScanStep(p, At(p, k))
      BY <1>11, <3>1
    <3>3. At(p, k) \in ScanValue
      BY <2>2
    <3> QED
      BY <3>1, <3>2, <3>3, StepIs
  <2> HIDE DEF T
  <2> QED
    BY <1>1, <2>1, <2>2, UpTo
<1> QED
  BY <1>2, <1>11, <1>12

\* One object further.
LEMMA ScanGoesOn ==
  ASSUME NEW p \in Packs, HeaderValid(p), NEW k \in 0 .. Declared(p) - 1
  PROVE  /\ At(p, k) \in ScanValue /\ At(p, k + 1) \in ScanValue
         /\ Goes(p, At(p, k)) =>
              At(p, k + 1) = [valid |-> TRUE, end |-> EndAt(p, At(p, k).end),
                              frames |-> Append(At(p, k).frames, FrameAt(p, At(p, k).end))]
         /\ ~Goes(p, At(p, k)) => At(p, k + 1) = [At(p, k) EXCEPT !.valid = FALSE]
<1>1. /\ k \in 0 .. Declared(p) /\ k + 1 \in 1 .. Declared(p) /\ k + 1 \in 0 .. Declared(p)
      /\ (k + 1) - 1 = k
  BY HeaderFacts
<1>2. At(p, k) \in ScanValue /\ At(p, k + 1) = ScanStep(p, At(p, k)) /\ At(p, k + 1) \in ScanValue
  BY <1>1, ScanIs
<1> QED
  BY <1>2, StepIs

\* What the parser has is as many frames as it has read objects, and it is in the pack.
LEMMA ScanFrames ==
  ASSUME NEW p \in Packs, HeaderValid(p), NEW m \in 0 .. Declared(p)
  PROVE  At(p, m).valid = TRUE => Len(At(p, m).frames) = m /\ At(p, m).end \in 3 .. Len(p)
<1> DEFINE Fits(v, k) == v.valid = TRUE => Len(v.frames) = k /\ v.end \in 3 .. Len(p)
           n == Declared(p)
           T == {k \in 0 .. n : Fits(At(p, k), k)}
<1>1. n \in Nat /\ Len(p) \in Nat /\ Len(p) >= 3 /\ HeaderLen = 3
  BY HeaderFacts, PackIs
<1>2. 0 \in T
  <2>1. At(p, 0) = ScanStart /\ Len(<<>>) = 0
    BY ScanIs, EmptySeq
  <2>2. Fits(ScanStart, 0)
    BY <1>1, <2>1 DEF ScanStart
  <2> HIDE DEF Fits
  <2> QED
    BY <1>1, <2>1, <2>2
<1>3. ASSUME NEW k \in 0 .. n, k \in T, k < n PROVE k + 1 \in T
  <2>1. k \in 0 .. n - 1 /\ k + 1 \in 0 .. n
    BY <1>1, <1>3
  <2>2. PICK v, w : v = At(p, k) /\ w = At(p, k + 1)
    OBVIOUS
  <2>3. /\ v \in ScanValue /\ w \in ScanValue
        /\ Goes(p, v) => w = [valid |-> TRUE, end |-> EndAt(p, v.end),
                              frames |-> Append(v.frames, FrameAt(p, v.end))]
        /\ ~Goes(p, v) => w = [v EXCEPT !.valid = FALSE]
    BY <2>1, <2>2, ScanGoesOn
  <2>4. Fits(v, k)
    BY <1>3, <2>2
  <2>5. CASE Goes(p, v)
    <3>1. v.valid = TRUE /\ v.end < Len(p) /\ ValidAt(p, v.end) /\ v.end \in 3 .. Len(p)
          /\ Len(v.frames) = k /\ v.frames \in Seq(ObjectFrame)
      BY <2>3, <2>4, <2>5 DEF Goes, ScanValue
    <3>2. PICK s : s = v.end
      OBVIOUS
    <3>3. s \in 0 .. Len(p) - 1 /\ ValidAt(p, s) /\ s \in 3 .. Len(p)
      BY <1>1, <3>1, <3>2
    <3>4. /\ HeadEnd(p, s) \in s + 1 .. Len(p)
          /\ BaseEndAt(p, s) \in HeadEnd(p, s) .. Len(p)
          /\ EndAt(p, s) \in BaseEndAt(p, s) + 1 .. Len(p)
          /\ FrameAt(p, s) \in ObjectFrame
      BY <3>3, EndPlace, FrameIs
    <3>5. EndAt(p, s) \in 3 .. Len(p)
      BY <1>1, <3>3, <3>4
    <3>6. Len(Append(v.frames, FrameAt(p, s))) = k + 1
      BY <3>1, <3>4, AppendProperties
    <3> QED
      BY <2>1, <2>2, <2>3, <2>5, <3>2, <3>5, <3>6
  <2>6. CASE ~Goes(p, v)
    <3>1. w.valid = FALSE
      BY <2>3, <2>6 DEF ScanValue
    <3> QED
      BY <2>1, <2>2, <3>1
  <2> QED
    BY <2>5, <2>6
<1>4. \A k \in 0 .. n : k \in T
  <2> HIDE DEF T, n
  <2> QED
    BY <1>1, <1>2, <1>3, UpTo
<1> QED
  BY <1>4

\* What it has found it keeps; it goes forward only, and a broken pack stays broken.
Keeps(v, w) ==
  /\ Len(v.frames) <= Len(w.frames) /\ \A i \in 1 .. Len(v.frames) : w.frames[i] = v.frames[i]
  /\ w.valid = TRUE => v.valid = TRUE /\ v.end <= w.end

\* It does so with each object.
LEMMA KeepsOn ==
  ASSUME NEW p \in Packs, HeaderValid(p), NEW k \in 0 .. Declared(p) - 1
  PROVE  Keeps(At(p, k), At(p, k + 1))
<1>1. PICK v, w : v = At(p, k) /\ w = At(p, k + 1)
  OBVIOUS
<1>2. /\ v \in ScanValue /\ w \in ScanValue
      /\ Goes(p, v) => w = [valid |-> TRUE, end |-> EndAt(p, v.end),
                            frames |-> Append(v.frames, FrameAt(p, v.end))]
      /\ ~Goes(p, v) => w = [v EXCEPT !.valid = FALSE]
  BY <1>1, ScanGoesOn
<1>3. v.frames \in Seq(ObjectFrame) /\ Len(v.frames) \in Nat /\ v.end \in Nat /\ Len(p) \in Nat
  BY <1>2, LenProperties, PackIs DEF ScanValue
<1>4. CASE Goes(p, v)
  <2>1. PICK s : s = v.end
    OBVIOUS
  <2>2. s \in 0 .. Len(p) - 1 /\ ValidAt(p, s)
    BY <1>3, <1>4, <2>1 DEF Goes
  <2>3. /\ HeadEnd(p, s) \in s + 1 .. Len(p)
        /\ BaseEndAt(p, s) \in HeadEnd(p, s) .. Len(p)
        /\ EndAt(p, s) \in BaseEndAt(p, s) + 1 .. Len(p)
        /\ FrameAt(p, s) \in ObjectFrame
    BY <2>2, EndPlace, FrameIs
  <2>4. s <= EndAt(p, s)
    BY <1>3, <2>2, <2>3
  <2> DEFINE a == Append(v.frames, FrameAt(p, s))
  <2>5. Len(a) = Len(v.frames) + 1 /\ \A i \in 1 .. Len(v.frames) : a[i] = v.frames[i]
    BY <1>3, <2>3, AppendProperties
  <2> HIDE DEF a
  <2>6. w = [valid |-> TRUE, end |-> EndAt(p, s), frames |-> a] /\ v.valid = TRUE
    BY <1>2, <1>4, <2>1 DEF a, Goes
  <2>7. w.frames = a /\ w.end = EndAt(p, s)
    BY <2>6
  <2>8. Len(v.frames) <= Len(a)
    BY <1>3, <2>5
  <2> QED
    BY <1>1, <2>1, <2>4, <2>5, <2>6, <2>7, <2>8 DEF Keeps
<1>5. CASE ~Goes(p, v)
  <2>1. w.valid = FALSE /\ w.frames = v.frames
    BY <1>2, <1>5 DEF ScanValue
  <2> QED
    BY <1>1, <1>3, <2>1 DEF Keeps
<1> QED
  BY <1>4, <1>5

\* And so with any number of them.
LEMMA KeepsUpTo ==
  ASSUME NEW p \in Packs, HeaderValid(p), NEW m \in 0 .. Declared(p), NEW k \in 0 .. m
  PROVE  Keeps(At(p, k), At(p, m))
<1> DEFINE n == Declared(p) - k
           T == {j \in 0 .. n : Keeps(At(p, k), At(p, k + j))}
<1>1. Declared(p) \in Nat /\ n \in Nat /\ m - k \in 0 .. n /\ k + (m - k) = m /\ k \in Nat
  BY HeaderFacts
<1>2. \A j \in 0 .. n : At(p, k + j) \in ScanValue
  <2>1. \A j \in 0 .. n : k + j \in 0 .. Declared(p)
    BY <1>1
  <2> HIDE DEF n
  <2> QED
    BY <2>1, ScanIs
<1>3. \A j \in 0 .. n : /\ At(p, k + j).frames \in Seq(ObjectFrame)
                        /\ Len(At(p, k + j).frames) \in Nat /\ At(p, k + j).end \in Nat
  BY <1>2, LenProperties DEF ScanValue
<1>4. 0 \in T
  <2>1. k + 0 = k /\ 0 \in 0 .. n
    BY <1>1
  <2>2. Len(At(p, k).frames) \in Nat /\ At(p, k).end \in Nat
    <3> HIDE DEF n
    <3> QED
      BY <1>3, <2>1
  <2>3. Keeps(At(p, k), At(p, k))
    BY <2>2 DEF Keeps
  <2> QED
    BY <2>1, <2>3
<1>5. ASSUME NEW j \in 0 .. n, j \in T, j < n PROVE j + 1 \in T
  <2>1. k + j \in 0 .. Declared(p) - 1 /\ (k + j) + 1 = k + (j + 1) /\ j + 1 \in 0 .. n
    BY <1>1, <1>5
  <2>2. PICK u, v, w : u = At(p, k) /\ v = At(p, k + j) /\ w = At(p, k + (j + 1))
    OBVIOUS
  <2>3. Keeps(u, v) /\ Keeps(v, w)
    <3>1. Keeps(At(p, k + j), At(p, (k + j) + 1))
      BY <2>1, KeepsOn
    <3> QED
      BY <1>5, <2>1, <2>2, <3>1
  <2>4. /\ Len(u.frames) \in Nat /\ u.end \in Nat /\ Len(v.frames) \in Nat /\ v.end \in Nat
        /\ Len(w.frames) \in Nat /\ w.end \in Nat
    <3>1. k + 0 = k /\ 0 \in 0 .. n
      BY <1>1
    <3> HIDE DEF n
    <3> QED
      BY <1>3, <2>1, <2>2, <3>1
  <2>5. Len(u.frames) <= Len(w.frames) /\ (w.valid = TRUE => u.valid = TRUE /\ u.end <= w.end)
    BY <2>3, <2>4 DEF Keeps
  <2>6. ASSUME NEW i \in 1 .. Len(u.frames) PROVE w.frames[i] = u.frames[i]
    <3>1. i \in 1 .. Len(v.frames)
      BY <2>3, <2>4 DEF Keeps
    <3> QED
      BY <2>3, <3>1 DEF Keeps
  <2>7. Keeps(u, w)
    BY <2>5, <2>6 DEF Keeps
  <2> QED
    BY <2>1, <2>2, <2>7
<1>6. \A j \in 0 .. n : j \in T
  <2> HIDE DEF T, n
  <2> QED
    BY <1>1, <1>4, <1>5, UpTo
<1> QED
  BY <1>1, <1>6

\* So the frames found at any point are the first of all.
LEMMA FoundFirst ==
  ASSUME NEW p \in Packs, HeaderValid(p), NEW k \in 0 .. Declared(p)
  PROVE  IsPrefix(At(p, k).frames, Scan(p).frames)
<1>1. PICK s, t : s = At(p, k).frames /\ t = Scan(p).frames
  OBVIOUS
<1>2. /\ Declared(p) \in 0 .. Declared(p) /\ k \in 0 .. Declared(p)
      /\ Scan(p) = At(p, Declared(p))
  BY HeaderFacts, ScanIs
<1>3. s \in Seq(ObjectFrame) /\ t \in Seq(ObjectFrame)
  BY <1>1, <1>2, ScanIs DEF ScanValue
<1>4. Len(s) <= Len(t) /\ \A i \in 1 .. Len(s) : t[i] = s[i]
  BY <1>1, <1>2, KeepsUpTo DEF Keeps
<1>5. Len(s) \in Nat /\ Len(t) \in Nat
  BY <1>3, LenProperties
<1>6. SubSeq(t, 1, Len(s)) = s
  <2>1. PICK n : n = Len(s)
    OBVIOUS
  <2>2. n \in Int /\ 1 \in Int /\ \A i \in 1 .. n : t[i] \in ObjectFrame
    BY <1>3, <1>4, <1>5, <2>1, ElementOfSeq
  <2>3. /\ SubSeq(t, 1, n) \in Seq(ObjectFrame)
        /\ Len(SubSeq(t, 1, n)) = IF 1 <= n THEN (n - 1) + 1 ELSE 0
        /\ \A i \in 1 .. (n - 1) + 1 : SubSeq(t, 1, n)[i] = t[(1 + i) - 1]
    BY <2>2, SubSeqProperties
  <2>4. n \in Nat /\ (n - 1) + 1 = n /\ (1 <= n \/ n = 0) /\ \A i \in 1 .. n : (1 + i) - 1 = i
    BY <1>5, <2>1
  <2>5. Len(SubSeq(t, 1, n)) = n /\ \A i \in 1 .. n : SubSeq(t, 1, n)[i] = s[i]
    BY <1>4, <2>1, <2>3, <2>4
  <2> QED
    BY <1>3, <2>1, <2>3, <2>5, SeqEqual
<1>7. SubSeq(s, 1, Len(s)) = s
  BY <1>3, SubSeqFull
<1> QED
  BY <1>1, <1>4, <1>6, <1>7 DEF IsPrefix

\* A pack is not valid when one of its declared objects cannot be read, or reaches its end.
LEMMA NotValid ==
  ASSUME NEW p \in Packs, HeaderValid(p), NEW k \in 0 .. Declared(p) - 1, At(p, k).valid = TRUE,
         \/ At(p, k).end >= Len(p)
         \/ ~ValidAt(p, At(p, k).end)
         \/ EndAt(p, At(p, k).end) >= Len(p)
  PROVE  ~Valid(p)
<1> SUFFICES ASSUME Valid(p) PROVE FALSE
  OBVIOUS
<1>1. PICK v, w, x : v = At(p, k) /\ w = At(p, k + 1) /\ x = At(p, Declared(p))
  OBVIOUS
<1>2. k + 1 \in 0 .. Declared(p) /\ Declared(p) \in 0 .. Declared(p) /\ k + 1 \in 0 .. Declared(p)
      /\ Len(p) \in Nat /\ Declared(p) \in Nat
  BY HeaderFacts, PackIs
<1>3. x = Scan(p) /\ x \in ScanValue
  BY <1>1, <1>2, ScanIs
<1>4. x.valid = TRUE /\ x.end = Len(p) - TrailerLen
  BY <1>3 DEF Valid, ScanValue
<1>5. Keeps(w, x)
  BY <1>1, <1>2, KeepsUpTo
<1>6. w.valid = TRUE /\ w.end <= x.end
  BY <1>4, <1>5 DEF Keeps
<1>7. /\ v \in ScanValue /\ w \in ScanValue
      /\ Goes(p, v) => w = [valid |-> TRUE, end |-> EndAt(p, v.end),
                            frames |-> Append(v.frames, FrameAt(p, v.end))]
      /\ ~Goes(p, v) => w = [v EXCEPT !.valid = FALSE]
  BY <1>1, ScanGoesOn
<1>8. Goes(p, v)
  BY <1>6, <1>7 DEF ScanValue
<1>9. v.end \in Nat /\ w.end \in Nat /\ w.end = EndAt(p, v.end)
  BY <1>7, <1>8 DEF ScanValue
<1>10. v.end < Len(p) /\ ValidAt(p, v.end)
  BY <1>8 DEF Goes
<1>11. EndAt(p, v.end) >= Len(p)
  BY <1>1, <1>2, <1>9, <1>10
<1> QED
  BY <1>2, <1>4, <1>6, <1>9, <1>11, Widths
-----------------------------------------------------------------------------
(***************************************************************************)
(* The object that is being scanned, with the bytes of it up to an offset. *)
(***************************************************************************)
Untouched(o) == o.compressedLen = 0 /\ o.out = 0 /\ o.owed = 0 /\ o.ended = FALSE

\* In its header, of which all bytes so far may go on.
Headed(p, o, at) ==
  /\ o.kind = KindAt(p, o.start)
  /\ o.size = HeaderSize(p, o.start, at)
  /\ o.shift = SizeRadix * Power((at - o.start) - 1)
  /\ o.distance = None /\ o.oid = <<>> /\ Untouched(o)

InHeader(p, o, at) == Headed(p, o, at) /\ GoesOn(p, o.start, at)

\* Behind it: in the offset or the id of a base, or in the stream.
AfterHeader(p, o, at) ==
  /\ HeadEnd(p, o.start) <= at
  /\ o.kind = KindAt(p, o.start) /\ o.kind \in Kinds
  /\ o.size = HeaderSize(p, o.start, HeadEnd(p, o.start))

InOffset(p, o, at) ==
  /\ AfterHeader(p, o, at) /\ o.kind = OffsetKind /\ Untouched(o)
  /\ GoesOn(p, HeadEnd(p, o.start), at)
  /\ o.distance = Distance(p, HeadEnd(p, o.start), at)

InOid(p, o, at) ==
  /\ AfterHeader(p, o, at) /\ o.kind = RefKind /\ Untouched(o)
  /\ o.oid = Between(p, HeadEnd(p, o.start), at)
  /\ at - HeadEnd(p, o.start) < OidLen

\* The base is known, and the stream so far is what the decompressor was given: what it gave
\* and what it owes is what that inflates to.
Based(p, o, at) ==
  /\ AfterHeader(p, o, at)
  /\ o.compressedStart = BaseEndAt(p, o.start) /\ BaseEndAt(p, o.start) <= at
  /\ o.encoded = Encoded(p, o.start, o.kind, HeadEnd(p, o.start), BaseEndAt(p, o.start))
  /\ o.encoded \in EncodedObjectKind
  /\ o.kind = OffsetKind => Distance(p, HeadEnd(p, o.start), BaseEndAt(p, o.start)) <= o.start

InPayload(p, o, at) ==
  LET b == BaseEndAt(p, o.start)
  IN /\ Based(p, o, at)
     /\ o.compressedLen = at - b
     /\ o.out + o.owed = Inflated(Between(p, b, at))
     /\ \A j \in b + 1 .. at : ~Corrupt(p[j])
     /\ GoesOn(p, b, at - 1)
     /\ o.ended = (b < at /\ ~Continues(p[at]))

\* Where it is: it follows the objects found before.
Placed(p, o, at, k) ==
  o.start = At(p, k).end /\ o.start < at /\ o.crc = Between(p, o.start, at)

PartIs(p, s, o, at) ==
  /\ s = "ObjectHeader" => InHeader(p, o, at)
  /\ s = "OffsetDeltaBase" => InOffset(p, o, at)
  /\ s = "RefDeltaBase" => InOid(p, o, at)
  /\ s = "CompressedPayload" => InPayload(p, o, at)

\* A header that has come to its end.
LEMMA HeaderEnds ==
  ASSUME NEW p \in Packs, NEW o \in PartialObjectFrame, NEW n \in 0 .. Len(p) - 1,
         o.start <= n, Headed(p, o, n + 1), GoesOn(p, o.start, n), ~Continues(p[n + 1])
  PROVE  /\ HeadEnd(p, o.start) = n + 1 /\ o.kind = KindAt(p, o.start)
         /\ o.kind \in Kinds => AfterHeader(p, o, n + 1)
<1>1. PICK s : s = o.start
  OBVIOUS
<1>2. s \in Nat /\ Len(p) \in Nat
  BY <1>1, PackIs DEF PartialObjectFrame
<1>3. s \in 0 .. Len(p) /\ n \in s .. Len(p) - 1
  BY <1>1, <1>2
<1>4. HeadEnd(p, s) = n + 1
  BY <1>1, <1>3, VarintIs DEF HeadEnd
<1> QED
  BY <1>1, <1>4 DEF Headed, AfterHeader

\* The stream begins behind the base.
WithBase(o, encoded, at) == [o EXCEPT !.encoded = encoded, !.compressedStart = at]

\* Nothing of it is read there.
LEMMA BeginsPayload ==
  ASSUME NEW p \in Packs, NEW o \in PartialObjectFrame, NEW at \in 0 .. Len(p),
         NEW encoded, Untouched(o), AfterHeader(p, o, at), at = BaseEndAt(p, o.start),
         encoded = Encoded(p, o.start, o.kind, HeadEnd(p, o.start), at),
         encoded \in EncodedObjectKind,
         o.kind = OffsetKind => Distance(p, HeadEnd(p, o.start), at) <= o.start,
         NEW new, new = WithBase(o, encoded, at)
  PROVE  /\ new \in PartialObjectFrame /\ InPayload(p, new, at)
         /\ new.start = o.start /\ new.crc = o.crc
<1>1. Len(p) \in Nat /\ at \in Nat
  BY PackIs
<1>2. new \in PartialObjectFrame
  BY <1>1 DEF PartialObjectFrame, WithBase
<1>3. /\ new.start = o.start /\ new.crc = o.crc /\ new.kind = o.kind /\ new.size = o.size
      /\ new.encoded = encoded /\ new.compressedStart = at /\ Untouched(new)
  BY DEF PartialObjectFrame, Untouched, WithBase
<1>4. Based(p, new, at)
  BY <1>1, <1>3 DEF Based, AfterHeader
<1>5. Inflated(Between(p, at, at)) = 0
  BY SliceEmpty, InflatedEmpty
<1>6. /\ at - at = 0 /\ 0 + 0 = 0 /\ at + 1 .. at = {} /\ GoesOn(p, at, at - 1) /\ ~(at < at)
  BY <1>1 DEF GoesOn
<1> QED
  BY <1>2, <1>3, <1>4, <1>5, <1>6 DEF InPayload, Untouched

\* The stream ends with the byte before an offset: all that the parser asks of the object is
\* known then, but that the sizes are the same.
LEMMA PayloadEnded ==
  ASSUME NEW p \in Packs, NEW o \in PartialObjectFrame, NEW at \in 0 .. Len(p),
         o.start < at, InPayload(p, o, at), o.ended = TRUE, o.owed = 0
  PROVE  /\ EndAt(p, o.start) = at
         /\ ValidAt(p, o.start) <=> o.out = o.size
<1>1. PICK s, h, b : s = o.start /\ h = HeadEnd(p, s) /\ b = BaseEndAt(p, s)
  OBVIOUS
<1>2. /\ AfterHeader(p, o, at) /\ b <= at
      /\ o.out + o.owed = Inflated(Between(p, b, at))
      /\ \A j \in b + 1 .. at : ~Corrupt(p[j])
      /\ GoesOn(p, b, at - 1) /\ b < at /\ ~Continues(p[at])
      /\ o.kind = OffsetKind => Distance(p, h, b) <= s
  BY <1>1 DEF InPayload, Based
<1>3. h <= at /\ o.kind = KindAt(p, s) /\ o.kind \in Kinds /\ o.size = HeaderSize(p, s, h)
  BY <1>1, <1>2 DEF AfterHeader
<1>4. s \in Nat /\ Len(p) \in Nat /\ o.out \in Nat
  BY <1>1, PackIs DEF PartialObjectFrame
<1>5. s \in 0 .. Len(p) - 1 /\ at <= Len(p)
  BY <1>1, <1>4
<1>6. b \in Nat
  <2>1. h \in Nat
    BY <1>1, <1>5, VarintFacts, PackIs DEF HeadEnd
  <2> QED
    BY <1>1, <1>3, <1>4, <1>5, <2>1, BasePlace
<1>7. EndAt(p, s) = at
  <2>1. PICK n : n = at - 1
    OBVIOUS
  <2>2. b \in 0 .. Len(p) /\ n \in b .. Len(p) - 1 /\ n + 1 = at
    BY <1>2, <1>4, <1>5, <1>6, <2>1
  <2>3. VarintEnd(p, b) = n + 1
    BY <1>2, <2>1, <2>2, VarintIs
  <2> QED
    BY <1>1, <2>2, <2>3 DEF EndAt
<1>8. o.out + o.owed = o.out
  BY <1>4
<1>9. Inflated(Between(p, b, at)) = o.out
  BY <1>2, <1>8
<1>10. h <= Len(p) /\ b <= Len(p)
  <2>1. h \in Nat
    BY <1>1, <1>5, VarintFacts, PackIs DEF HeadEnd
  <2> QED
    BY <1>2, <1>3, <1>4, <1>5, <1>6, <2>1
<1>11. ValidAt(p, s) <=> Inflated(Between(p, b, at)) = HeaderSize(p, s, h)
  BY <1>1, <1>2, <1>3, <1>5, <1>7, <1>10 DEF ValidAt
<1> QED
  BY <1>1, <1>3, <1>7, <1>9, <1>11

\* The frame that is made of it is then the one that the parser makes.
LEMMA PayloadFrame ==
  ASSUME NEW p \in Packs, NEW o \in PartialObjectFrame, NEW at \in 0 .. Len(p),
         InPayload(p, o, at), o.crc = Between(p, o.start, at), EndAt(p, o.start) = at
  PROVE  [offset |-> o.start, encoded |-> o.encoded, compressedStart |-> o.compressedStart,
          compressedLen |-> o.compressedLen, size |-> o.size, crc |-> o.crc]
           = FrameAt(p, o.start)
BY DEF InPayload, Based, AfterHeader, FrameAt

\* The first byte of an object.
LEMMA HeaderStarts ==
  ASSUME NEW p \in Packs, NEW at \in 0 .. Len(p) - 1, NEW k, at = At(p, k).end,
         NEW byte, byte = p[at + 1], NEW new,
         new = [start |-> at, kind |-> KindOf(byte), size |-> SizeOf(byte), shift |-> SizeRadix,
                encoded |-> [kind |-> 0], compressedStart |-> 0, compressedLen |-> 0,
                crc |-> <<byte>>, distance |-> None, oid |-> <<>>, out |-> 0, owed |-> 0,
                ended |-> FALSE]
  PROVE  /\ new \in PartialObjectFrame /\ new.start = at
         /\ Headed(p, new, at + 1) /\ Placed(p, new, at + 1, k) /\ GoesOn(p, at, at)
<1>1. Len(p) \in Nat /\ at \in Nat /\ at + 1 \in 1 .. Len(p) /\ at \in 0 .. Len(p) /\ at \in 0 .. at
  BY PackIs
<1>2. byte \in Byte /\ byte \in Nat /\ KindOf(byte) \in Nat /\ SizeOf(byte) \in Nat
  BY <1>1, PackIs, Bytes
<1>3. SizeRadix \in Nat /\ Power(0) = 1 /\ SizeRadix * 1 = SizeRadix
  BY Widths, PowerIs
<1>4. <<byte>> \in Seq(Nat) /\ <<>> \in Seq(Nat)
  BY <1>2
<1>5. new \in PartialObjectFrame
  BY <1>1, <1>2, <1>3, <1>4 DEF PartialObjectFrame
<1>6. new.crc = Between(p, at, at + 1)
  <2>1. Append(Between(p, at, at), byte) = Between(p, at, at + 1) /\ Between(p, at, at) = <<>>
    BY <1>1, SliceAppend, SliceEmpty
  <2>2. Append(<<>>, byte) = <<byte>>
    BY <1>2
  <2> QED
    BY <2>1, <2>2
<1>7. /\ new.start = at /\ new.kind = KindAt(p, at) /\ new.size = SizeOf(byte)
      /\ new.shift = SizeRadix /\ new.distance = None /\ new.oid = <<>> /\ Untouched(new)
  BY DEF Untouched, KindAt
<1>8. HeaderSize(p, at, at + 1) = SizeOf(byte)
  BY SizeFirst
<1>9. ((at + 1) - at) - 1 = 0 /\ at < at + 1
  BY <1>1
<1>10. Headed(p, new, at + 1)
  BY <1>3, <1>7, <1>8, <1>9 DEF Headed
<1>11. GoesOn(p, at, at)
  BY <1>1 DEF GoesOn
<1> QED
  BY <1>5, <1>6, <1>7, <1>9, <1>10, <1>11 DEF Placed

\* The next byte of its header.
Longer(o, byte) ==
  [o EXCEPT !.size = @ + Group(byte) * o.shift, !.shift = @ * Radix, !.crc = Append(@, byte)]

\* The size grows at the high end, and the shift with it.
LEMMA HeaderMore ==
  ASSUME NEW p \in Packs, NEW at \in 0 .. Len(p) - 1, NEW k,
         NEW o \in PartialObjectFrame, Placed(p, o, at, k), InHeader(p, o, at),
         NEW byte, byte = p[at + 1], NEW new,
         new = Longer(o, byte)
  PROVE  /\ new \in PartialObjectFrame /\ new.start = o.start
         /\ Headed(p, new, at + 1) /\ Placed(p, new, at + 1, k)
<1>1. PICK s : s = o.start
  OBVIOUS
<1>2. s \in Nat /\ s < at /\ Len(p) \in Nat /\ at \in Nat
  BY <1>1, PackIs DEF PartialObjectFrame, Placed
<1>3. s \in 0 .. at - 1 /\ s \in 0 .. at /\ at + 1 \in 1 .. Len(p) /\ s < at + 1
  BY <1>2
<1>4. byte \in Byte /\ byte \in Nat /\ Group(byte) \in Nat
  BY <1>3, PackIs, Bytes
<1>5. PICK n : n = (at - s) - 1
  OBVIOUS
<1>6. n \in Nat /\ ((at + 1) - s) - 1 = n + 1
  BY <1>2, <1>5
<1>7. /\ o.kind = KindAt(p, s) /\ o.size = HeaderSize(p, s, at) /\ o.shift = SizeRadix * Power(n)
      /\ o.distance = None /\ o.oid = <<>> /\ Untouched(o)
  BY <1>1, <1>5 DEF InHeader, Headed
<1>8. Power(n) \in Nat /\ Power(n + 1) = Radix * Power(n) /\ Radix \in Nat /\ SizeRadix \in Nat
  BY <1>6, PowerIs, Widths
<1>9. o.shift * Radix = SizeRadix * Power(n + 1) /\ o.shift * Radix \in Nat
  <2>1. PICK a, q, r : a = Power(n) /\ q = SizeRadix /\ r = Radix
    OBVIOUS
  <2>2. a \in Nat /\ q \in Nat /\ r \in Nat
    BY <1>8, <2>1
  <2>3. (q * a) * r = q * (r * a)
    BY <2>2
  <2>4. (q * a) * r \in Nat
    BY <2>2
  <2> QED
    BY <1>7, <1>8, <2>1, <2>3, <2>4
<1>10. HeaderSize(p, s, at + 1) = o.size + Group(byte) * o.shift
  BY <1>3, <1>5, <1>7, SizeNext
<1>11. o.size + Group(byte) * o.shift \in Nat
  <2>1. o.size \in Nat /\ o.shift \in Nat
    BY DEF PartialObjectFrame
  <2>2. Group(byte) * o.shift \in Nat
    BY <1>4, <2>1
  <2> QED
    BY <2>1, <2>2
<1>12. o.crc = Between(p, s, at) /\ o.start = At(p, k).end
  BY <1>1 DEF Placed
<1>13. Append(o.crc, byte) = Between(p, s, at + 1)
  BY <1>3, <1>12, SliceAppend
<1>14. Append(o.crc, byte) \in Seq(Nat)
  BY <1>4, AppendProperties DEF PartialObjectFrame
<1>15. new \in PartialObjectFrame
  BY <1>9, <1>11, <1>14 DEF PartialObjectFrame, Longer
<1>16. /\ new.start = s /\ new.kind = o.kind /\ new.size = o.size + Group(byte) * o.shift
       /\ new.shift = o.shift * Radix /\ new.crc = Append(o.crc, byte)
       /\ new.distance = None /\ new.oid = <<>> /\ Untouched(new)
  BY <1>1, <1>7 DEF PartialObjectFrame, Untouched, Longer
<1>17. Headed(p, new, at + 1)
  BY <1>6, <1>7, <1>9, <1>10, <1>16 DEF Headed
<1>18. Placed(p, new, at + 1, k)
  BY <1>1, <1>3, <1>12, <1>13, <1>16 DEF Placed
<1> QED
  BY <1>1, <1>15, <1>16, <1>17, <1>18

\* The next byte of the distance to the base.
Farther(o, byte) ==
  [o EXCEPT !.distance = IF @ = None THEN Group(byte) ELSE (@ + 1) * Radix + Group(byte),
            !.crc = Append(@, byte)]

\* The first byte counts as if none had been before.
LEMMA DistanceMore ==
  ASSUME NEW p \in Packs, NEW at \in 0 .. Len(p) - 1, NEW k,
         NEW o \in PartialObjectFrame, Placed(p, o, at, k), InOffset(p, o, at),
         NEW byte, byte = p[at + 1], NEW new,
         new = Farther(o, byte)
  PROVE  /\ new \in PartialObjectFrame /\ new.start = o.start /\ Placed(p, new, at + 1, k)
         /\ AfterHeader(p, new, at + 1) /\ new.kind = OffsetKind /\ Untouched(new)
         /\ new.distance = Distance(p, HeadEnd(p, o.start), at + 1) /\ new.distance \in Nat
<1>1. PICK s, h : s = o.start /\ h = HeadEnd(p, s)
  OBVIOUS
<1>2. s \in Nat /\ s < at /\ Len(p) \in Nat /\ at \in Nat /\ h <= at
  BY <1>1, PackIs DEF PartialObjectFrame, Placed, InOffset, AfterHeader
<1>3. s \in 0 .. at /\ at + 1 \in 1 .. Len(p) /\ s < at + 1 /\ s \in 0 .. Len(p)
  BY <1>2
<1>4. h \in 0 .. at /\ h <= at + 1
  <2>1. h \in s + 1 .. Len(p) + 1
    BY <1>1, <1>3, VarintFacts DEF HeadEnd
  <2> QED
    BY <1>2, <2>1
<1>5. byte \in Byte /\ byte \in Nat /\ Group(byte) \in Nat
  BY <1>3, PackIs, Bytes
<1>6. PICK d : d = IF o.distance = None THEN Group(byte) ELSE (o.distance + 1) * Radix + Group(byte)
  OBVIOUS
<1>7. d = Distance(p, h, at + 1) /\ d \in Nat
  <2>1. /\ o.distance = Distance(p, h, at)
        /\ Distance(p, h, at + 1) = Further(o.distance, byte) /\ Distance(p, h, at + 1) \in Nat
    BY <1>1, <1>4, DistanceNext DEF InOffset
  <2>2. Further(o.distance, byte) = (o.distance + 1) * Radix + Group(byte)
    BY DEF Further
  <2>3. ASSUME o.distance = None PROVE (o.distance + 1) * Radix + Group(byte) = Group(byte)
    <3>1. PICK r, g : r = Radix /\ g = Group(byte)
      OBVIOUS
    <3>2. r \in Nat /\ g \in Nat /\ o.distance + 1 = 0
      BY <1>5, <2>3, <3>1, Widths DEF None
    <3>3. 0 * r + g = g
      BY <3>2
    <3> QED
      BY <3>1, <3>2, <3>3
  <2> QED
    BY <1>6, <2>1, <2>2, <2>3
<1>8. o.crc = Between(p, s, at) /\ o.start = At(p, k).end
  BY <1>1 DEF Placed
<1>9. Append(o.crc, byte) = Between(p, s, at + 1)
  BY <1>3, <1>8, SliceAppend
<1>10. Append(o.crc, byte) \in Seq(Nat)
  BY <1>5, AppendProperties DEF PartialObjectFrame
<1>11. new = [o EXCEPT !.distance = d, !.crc = Append(o.crc, byte)]
  BY <1>6 DEF PartialObjectFrame, Farther
<1>12. new \in PartialObjectFrame
  BY <1>7, <1>10, <1>11 DEF PartialObjectFrame
<1>13. /\ new.start = s /\ new.kind = o.kind /\ new.size = o.size /\ new.distance = d
       /\ new.crc = Append(o.crc, byte) /\ new.compressedLen = o.compressedLen
       /\ new.out = o.out /\ new.owed = o.owed /\ new.ended = o.ended
  BY <1>1, <1>11 DEF PartialObjectFrame
<1>14. Placed(p, new, at + 1, k)
  BY <1>1, <1>3, <1>8, <1>9, <1>13 DEF Placed
<1>15. o.kind = OffsetKind /\ Untouched(o) /\ AfterHeader(p, o, at)
  BY DEF InOffset
<1>16. AfterHeader(p, new, at + 1) /\ Untouched(new)
  BY <1>1, <1>4, <1>13, <1>15 DEF AfterHeader, Untouched
<1> QED
  BY <1>1, <1>7, <1>12, <1>13, <1>14, <1>15, <1>16

\* More of the id of the base.
WithOid(o, bytes) == [o EXCEPT !.oid = @ \o bytes, !.crc = @ \o bytes]

\* It is what is in the pack, however it is cut.
LEMMA OidMore ==
  ASSUME NEW p \in Packs, NEW to \in 0 .. Len(p), NEW at \in 0 .. to, NEW k,
         NEW o \in PartialObjectFrame, Placed(p, o, at, k), InOid(p, o, at),
         NEW bytes, bytes = Between(p, at, to), NEW new,
         new = WithOid(o, bytes)
  PROVE  /\ new \in PartialObjectFrame /\ new.start = o.start /\ Placed(p, new, to, k)
         /\ AfterHeader(p, new, to) /\ new.kind = RefKind /\ Untouched(new)
         /\ new.oid = Between(p, HeadEnd(p, o.start), to)
         /\ Len(o.oid) = at - HeadEnd(p, o.start) /\ Len(new.oid) = to - HeadEnd(p, o.start)
         /\ HeadEnd(p, o.start) \in 0 .. at
<1>1. PICK s, h : s = o.start /\ h = HeadEnd(p, s)
  OBVIOUS
<1>2. s \in Nat /\ s < at /\ Len(p) \in Nat /\ at \in Nat /\ to \in Nat /\ h <= at /\ at <= to
  BY <1>1, PackIs DEF PartialObjectFrame, Placed, InOid, AfterHeader
<1>3. /\ s \in 0 .. at /\ s \in 0 .. to /\ s < to /\ s \in 0 .. Len(p) /\ at \in 0 .. Len(p)
  BY <1>2
<1>4. h \in 0 .. at /\ h <= to /\ h \in 0 .. to
  <2>1. h \in s + 1 .. Len(p) + 1
    BY <1>1, <1>3, VarintFacts DEF HeadEnd
  <2> QED
    BY <1>2, <2>1
<1>5. o.crc = Between(p, s, at) /\ o.start = At(p, k).end /\ o.oid = Between(p, h, at)
  BY <1>1 DEF Placed, InOid
<1>6. o.crc \o bytes = Between(p, s, to) /\ o.oid \o bytes = Between(p, h, to)
  <2>1. Between(p, s, at) \o Between(p, at, to) = Between(p, s, to)
    BY <1>3, SliceJoin
  <2>2. Between(p, h, at) \o Between(p, at, to) = Between(p, h, to)
    BY <1>4, SliceJoin
  <2> QED
    BY <1>5, <2>1, <2>2
<1>7. /\ Between(p, s, to) \in Seq(Byte) /\ Between(p, h, to) \in Seq(Byte)
      /\ Len(Between(p, h, to)) = to - h /\ Len(Between(p, h, at)) = at - h
  BY <1>3, <1>4, Slice
<1>8. Between(p, s, to) \in Seq(Nat) /\ Between(p, h, to) \in Seq(Nat)
  <2>1. Byte \subseteq Nat
    BY Widths DEF Byte
  <2> QED
    BY <1>7, <2>1, SeqMonotonic
<1>9. new = [o EXCEPT !.oid = Between(p, h, to), !.crc = Between(p, s, to)]
  BY <1>6 DEF PartialObjectFrame, WithOid
<1>10. new \in PartialObjectFrame
  BY <1>8, <1>9 DEF PartialObjectFrame
<1>11. /\ new.start = s /\ new.kind = o.kind /\ new.size = o.size /\ new.oid = Between(p, h, to)
       /\ new.crc = Between(p, s, to) /\ new.compressedLen = o.compressedLen
       /\ new.out = o.out /\ new.owed = o.owed /\ new.ended = o.ended
  BY <1>1, <1>9 DEF PartialObjectFrame
<1>12. Placed(p, new, to, k)
  BY <1>1, <1>3, <1>5, <1>11 DEF Placed
<1>13. o.kind = RefKind /\ Untouched(o) /\ AfterHeader(p, o, at)
  BY DEF InOid
<1>14. AfterHeader(p, new, to) /\ Untouched(new)
  BY <1>1, <1>4, <1>11, <1>13 DEF AfterHeader, Untouched
<1> QED
  BY <1>1, <1>4, <1>5, <1>7, <1>10, <1>11, <1>12, <1>13, <1>14

\* The lengths of two parts that meet.
LEMMA Lengths ==
  ASSUME NEW a \in Nat, NEW b \in Nat, NEW c \in Nat, a <= b, b <= c
  PROVE  (b - a) + (c - b) = c - a /\ c - a \in Nat
OBVIOUS

\* What is given and what is still owed.
LEMMA Accounts ==
  ASSUME NEW out \in Nat, NEW owed \in Nat, NEW i \in Nat, NEW m \in Nat, m <= owed + i
  PROVE  /\ (out + m) + ((owed + i) - m) = (out + owed) + i
         /\ owed + i \in Nat /\ (owed + i) - m \in Nat /\ out + m \in Nat
OBVIOUS

\* More of the stream: n bytes are taken, of w that are owed then m are given.
WithStream(o, bytes, n, w, m, ends) ==
  [o EXCEPT !.crc = @ \o bytes, !.compressedLen = @ + n, !.out = @ + m, !.owed = w - m,
            !.ended = ends]

\* The bytes are of the stream, and end it or not.
OfStream(o, bytes, n, ends) ==
  /\ o.ended = TRUE => n = 0
  /\ \A j \in 1 .. n : ~Corrupt(bytes[j]) /\ (j < n => Continues(bytes[j]))
  /\ ends \in BOOLEAN
  /\ ends = TRUE <=> o.ended = TRUE \/ (n > 0 /\ ~Continues(bytes[n]))

\* Neither what comes out nor the end of the stream depends on how the bytes come in.
LEMMA PayloadMore ==
  ASSUME NEW p \in Packs, NEW to \in 0 .. Len(p), NEW at \in 0 .. to, NEW k,
         NEW o \in PartialObjectFrame, Placed(p, o, at, k), InPayload(p, o, at),
         NEW bytes, bytes = Between(p, at, to), NEW n, n = to - at,
         NEW ends, OfStream(o, bytes, n, ends),
         NEW w, w = o.owed + Inflated(bytes), NEW m \in Nat, m <= w, NEW new,
         new = WithStream(o, bytes, n, w, m, ends)
  PROVE  /\ new \in PartialObjectFrame /\ new.start = o.start /\ Placed(p, new, to, k)
         /\ InPayload(p, new, to) /\ new.ended = ends /\ new.owed = w - m
         /\ new.out = o.out + m /\ new.size = o.size /\ w \in Nat
<1>0. /\ o.ended = TRUE => n = 0
      /\ \A j \in 1 .. n : ~Corrupt(bytes[j]) /\ (j < n => Continues(bytes[j]))
      /\ ends \in BOOLEAN
      /\ ends = TRUE <=> o.ended = TRUE \/ (n > 0 /\ ~Continues(bytes[n]))
  BY DEF OfStream
<1>1. PICK s, b : s = o.start /\ b = BaseEndAt(p, s)
  OBVIOUS
<1>2. /\ s \in Nat /\ s < at /\ Len(p) \in Nat /\ at \in Nat /\ to \in Nat /\ at <= to /\ to <= Len(p)
      /\ n \in Nat /\ o.out \in Nat /\ o.owed \in Nat /\ o.compressedLen \in Nat
      /\ o.ended \in BOOLEAN
  BY <1>1, PackIs DEF PartialObjectFrame, Placed
<1>3. /\ s \in 0 .. at /\ s \in 0 .. to /\ s < to /\ s \in 0 .. Len(p) - 1 /\ at \in 0 .. Len(p)
      /\ s \in 0 .. Len(p)
  BY <1>2
<1>4. /\ Based(p, o, at) /\ o.compressedLen = at - b
      /\ o.out + o.owed = Inflated(Between(p, b, at))
      /\ \A j \in b + 1 .. at : ~Corrupt(p[j])
      /\ GoesOn(p, b, at - 1)
      /\ o.ended = (b < at /\ ~Continues(p[at]))
  BY <1>1 DEF InPayload
<1>5. /\ AfterHeader(p, o, at) /\ b <= at
      /\ HeadEnd(p, s) <= at /\ o.kind = KindAt(p, s) /\ o.kind \in Kinds
  BY <1>1, <1>4 DEF Based, AfterHeader
<1>6. b \in Nat
  <2>1. HeadEnd(p, s) \in Nat
    BY <1>3, VarintFacts, PackIs DEF HeadEnd
  <2>2. HeadEnd(p, s) <= Len(p)
    BY <1>2, <1>5, <2>1
  <2> QED
    BY <1>1, <1>3, <1>5, <2>2, BasePlace
<1>7. b \in 0 .. at /\ b \in 0 .. to /\ b \in 0 .. Len(p)
  BY <1>2, <1>5, <1>6
<1>8. /\ bytes \in Seq(Byte) /\ Len(bytes) = n /\ \A j \in 1 .. n : bytes[j] = p[at + j]
  BY Slice
<1>9. /\ Between(p, s, at) \o bytes = Between(p, s, to)
      /\ Between(p, b, at) \o bytes = Between(p, b, to)
  BY <1>3, <1>7, SliceJoin
<1>10. Between(p, s, to) \in Seq(Nat)
  <2>1. Between(p, s, to) \in Seq(Byte)
    BY <1>3, Slice
  <2>2. Byte \subseteq Nat
    BY Widths DEF Byte
  <2> QED
    BY <2>1, <2>2, SeqMonotonic
<1>11. o.crc = Between(p, s, at) /\ o.start = At(p, k).end
  BY <1>1 DEF Placed
<1>12. /\ Inflated(bytes) \in Nat
       /\ Inflated(Between(p, b, to)) = Inflated(Between(p, b, at)) + Inflated(bytes)
  <2>1. Between(p, b, at) \in Seq(Byte)
    BY <1>3, <1>7, Slice
  <2> QED
    BY <1>8, <1>9, <2>1, InflatedConcat
<1>13. /\ w \in Nat /\ w - m \in Nat /\ o.out + m \in Nat /\ o.compressedLen + n \in Nat
       /\ (o.out + m) + (w - m) = Inflated(Between(p, b, to))
       /\ o.compressedLen + n = to - b
  <2>1. PICK i : i = Inflated(bytes)
    OBVIOUS
  <2>2. i \in Nat /\ w = o.owed + i /\ Inflated(Between(p, b, to)) = (o.out + o.owed) + i
    BY <1>4, <1>12, <2>1
  <2>3. o.compressedLen + n = to - b /\ o.compressedLen + n \in Nat
    BY <1>2, <1>4, <1>5, <1>6, Lengths
  <2>4. /\ w \in Nat /\ w - m \in Nat /\ o.out + m \in Nat
        /\ (o.out + m) + (w - m) = (o.out + o.owed) + i
    <3>1. PICK out, owed : out = o.out /\ owed = o.owed
      OBVIOUS
    <3>2. out \in Nat /\ owed \in Nat /\ i \in Nat /\ w = owed + i
      BY <1>2, <2>2, <3>1
    <3>3. m \in Nat /\ m <= owed + i
      BY <3>2
    <3>4. /\ (out + m) + ((owed + i) - m) = (out + owed) + i
          /\ owed + i \in Nat /\ (owed + i) - m \in Nat /\ out + m \in Nat
      BY <3>2, <3>3, Accounts
    <3> QED
      BY <3>1, <3>2, <3>4
  <2> QED
    BY <2>2, <2>3, <2>4
<1>14. new = [o EXCEPT !.crc = Between(p, s, to), !.compressedLen = o.compressedLen + n,
                       !.out = o.out + m, !.owed = w - m, !.ended = ends]
  BY <1>9, <1>11 DEF PartialObjectFrame, WithStream
<1>15. new \in PartialObjectFrame
  BY <1>0, <1>10, <1>13, <1>14 DEF PartialObjectFrame
<1>16. /\ new.start = s /\ new.kind = o.kind /\ new.size = o.size /\ new.crc = Between(p, s, to)
       /\ new.encoded = o.encoded /\ new.compressedStart = o.compressedStart
       /\ new.compressedLen = to - b /\ new.out = o.out + m /\ new.owed = w - m
       /\ new.ended = ends
  BY <1>1, <1>13, <1>14 DEF PartialObjectFrame
<1>17. Placed(p, new, to, k)
  BY <1>1, <1>3, <1>11, <1>16 DEF Placed
<1>18. Based(p, new, to)
  <2>1. HeadEnd(p, s) \in Nat
    BY <1>3, VarintFacts, PackIs DEF HeadEnd
  <2>2. HeadEnd(p, s) <= to /\ b <= to
    BY <1>2, <1>5, <1>6, <2>1
  <2>3. AfterHeader(p, new, to)
    BY <1>1, <1>5, <1>16, <2>2 DEF AfterHeader
  <2> QED
    BY <1>1, <1>4, <1>16, <2>2, <2>3 DEF Based
<1>19. ASSUME NEW j \in b + 1 .. to PROVE ~Corrupt(p[j])
  <2>1. CASE j <= at
    BY <1>2, <1>4, <1>6, <2>1
  <2>2. CASE j > at
    <3>1. j - at \in 1 .. n /\ at + (j - at) = j
      BY <1>2, <1>6, <2>2
    <3> QED
      BY <1>0, <1>8, <3>1
  <2> QED
    BY <1>2, <1>6, <2>1, <2>2
<1>20. GoesOn(p, b, to - 1)
  <2>1. SUFFICES ASSUME NEW j \in b + 1 .. to - 1 PROVE Continues(p[j])
    BY DEF GoesOn
  <2>2. CASE j < at
    <3>1. j \in b + 1 .. at - 1
      BY <1>2, <1>6, <2>2
    <3> QED
      BY <1>4, <3>1 DEF GoesOn
  <2>3. CASE j = at
    <3>1. b < at /\ n # 0
      BY <1>2, <1>6, <2>3
    <3>2. o.ended = FALSE
      BY <1>0, <1>2, <3>1
    <3> QED
      BY <1>4, <2>3, <3>1, <3>2
  <2>4. CASE j > at
    <3>1. j \in Int /\ j <= to - 1
      BY <1>2, <1>6
    <3>2. j - at \in 1 .. n /\ at + (j - at) = j
      BY <1>2, <2>4, <3>1
    <3>3. j - at < n
      BY <1>2, <3>1
    <3> QED
      BY <1>0, <1>8, <3>2, <3>3
  <2> QED
    BY <1>2, <1>6, <2>2, <2>3, <2>4
<1>21. ends = (b < to /\ ~Continues(p[to]))
  <2>1. CASE n = 0
    <3>1. to = at /\ ~(n > 0)
      BY <1>2, <2>1
    <3> QED
      BY <1>0, <1>2, <1>4, <3>1
  <2>2. CASE n # 0
    <3>1. n > 0 /\ n \in 1 .. n /\ at + n = to /\ b < to
      BY <1>2, <1>5, <1>6, <2>2
    <3>2. o.ended = FALSE
      BY <1>0, <1>2, <2>2
    <3>3. bytes[n] = p[to]
      BY <1>0, <1>8, <3>1
    <3> QED
      BY <1>0, <3>1, <3>2, <3>3
  <2> QED
    BY <2>1, <2>2
<1>22. InPayload(p, new, to)
  BY <1>1, <1>13, <1>16, <1>18, <1>19, <1>20, <1>21 DEF InPayload
<1> QED
  BY <1>1, <1>13, <1>15, <1>16, <1>17, <1>22

-----------------------------------------------------------------------------
(***************************************************************************)
(* The scanner, at every byte.                                             *)
(***************************************************************************)

\* Before the first object: the header so far.
HeaderInv ==
  state = "PackHeader" =>
    /\ header = Between(pack, 0, Len(header))
    /\ declared = None /\ frames = <<>> /\ current = NoObject /\ trailerLen = 0
    /\ result = "running" => offset = Len(header) /\ Len(header) < HeaderLen

\* After it: the frames are those that the parser has after as many objects.
FoundInv ==
  state # "PackHeader" =>
    /\ HeaderValid(pack) /\ declared = Declared(pack) /\ Len(frames) <= declared
    /\ At(pack, Len(frames)).valid = TRUE /\ At(pack, Len(frames)).frames = frames
    /\ state = "Trailer" => Len(frames) = declared /\ trailerLen <= TrailerLen
    /\ state # "Trailer" => Len(frames) < declared /\ trailerLen = 0

\* The bytes consumed are those of the objects found, of the one in work, and of the trailer.
PlaceInv ==
  /\ state = "ObjectHeader" /\ current = NoObject => offset = At(pack, Len(frames)).end
  /\ state = "Trailer" => offset = At(pack, Len(frames)).end + trailerLen
  /\ current # NoObject =>
       Placed(pack, current, offset, Len(frames)) /\ PartIs(pack, state, current, offset)

ScannerInv ==
  /\ TypeOK /\ HeaderInv /\ FoundInv
  /\ result = "running" => PlaceInv
  /\ AcceptsValidPacks

Objects == {"ObjectHeader", "OffsetDeltaBase", "RefDeltaBase", "CompressedPayload"}

\* It holds before the first chunk.
LEMMA Starts == Init => ScannerInv
<1> SUFFICES ASSUME Init PROVE ScannerInv
  OBVIOUS
<1>1. Len(pack) \in Nat /\ Len(<<>>) = 0 /\ HeaderLen = 3 /\ 0 \in 0 .. 0
  BY PackIs DEF Init, HeaderLen
<1>2. TypeOK
  BY <1>1 DEF Init, TypeOK, ScannerState
<1>3. Between(pack, 0, 0) = <<>>
  <2>1. 0 \in 0 .. Len(pack)
    BY <1>1
  <2> QED
    BY <2>1, SliceEmpty DEF Init
<1>4. HeaderInv
  BY <1>1, <1>3 DEF Init, HeaderInv
<1>5. FoundInv /\ PlaceInv /\ AcceptsValidPacks
  BY DEF Init, FoundInv, PlaceInv, AcceptsValidPacks
<1> QED
  BY <1>2, <1>4, <1>5 DEF ScannerInv

\* What the invariant says while an object is scanned.
LEMMA WhileScanning ==
  ASSUME ScannerInv, result = "running", state \in Objects
  PROVE  /\ pack \in Packs /\ Len(pack) \in Nat /\ fed \in 0 .. Len(pack) /\ offset \in 0 .. fed
         /\ HeaderValid(pack) /\ declared = Declared(pack) /\ declared \in Nat
         /\ frames \in Seq(ObjectFrame) /\ Len(frames) \in 0 .. declared - 1 /\ trailerLen = 0
         /\ At(pack, Len(frames)) \in ScanValue
         /\ At(pack, Len(frames)).valid = TRUE /\ At(pack, Len(frames)).frames = frames
         /\ At(pack, Len(frames)).end \in 3 .. Len(pack)
         /\ current = NoObject => state = "ObjectHeader" /\ offset = At(pack, Len(frames)).end
         /\ current # NoObject =>
              /\ current \in PartialObjectFrame
              /\ Placed(pack, current, offset, Len(frames))
              /\ PartIs(pack, state, current, offset)
<1>1. state # "PackHeader" /\ state # "Trailer"
  BY DEF Objects
<1>2. /\ pack \in Packs /\ fed \in 0 .. Len(pack) /\ offset \in 0 .. fed
      /\ frames \in Seq(ObjectFrame) /\ current \in PartialObjectFrame \cup {NoObject}
      /\ current = NoObject => state \notin {"OffsetDeltaBase", "RefDeltaBase", "CompressedPayload"}
  BY DEF ScannerInv, TypeOK
<1>3. /\ HeaderValid(pack) /\ declared = Declared(pack)
      /\ At(pack, Len(frames)).valid = TRUE /\ At(pack, Len(frames)).frames = frames
      /\ Len(frames) < declared /\ trailerLen = 0
  BY <1>1 DEF ScannerInv, FoundInv
<1>4. declared \in Nat /\ Len(frames) \in 0 .. declared - 1 /\ Len(frames) \in 0 .. declared
  BY <1>2, <1>3, HeaderFacts, LenProperties
<1>5. At(pack, Len(frames)) \in ScanValue /\ At(pack, Len(frames)).end \in 3 .. Len(pack)
  BY <1>2, <1>3, <1>4, ScanIs, ScanFrames
<1>6. /\ current = NoObject => state = "ObjectHeader" /\ offset = At(pack, Len(frames)).end
      /\ current # NoObject =>
              /\ Placed(pack, current, offset, Len(frames))
              /\ PartIs(pack, state, current, offset)
  BY <1>2 DEF ScannerInv, PlaceInv, Objects
<1> QED
  BY <1>2, <1>3, <1>4, <1>5, <1>6, PackIs

\* A step within an object leads to a part of it again.
LEMMA StepsOn ==
  ASSUME ScannerInv, result = "running", result' = "running", state \in Objects,
         UNCHANGED <<pack, fed, header, declared, frames, trailerLen>>,
         NEW at \in 0 .. fed, offset' = at, NEW s \in Objects, state' = s,
         NEW new \in PartialObjectFrame, current' = new,
         Placed(pack, new, at, Len(frames)), PartIs(pack, s, new, at)
  PROVE  ScannerInv'
<1>1. state # "PackHeader" /\ state # "Trailer" /\ s # "PackHeader" /\ s # "Trailer"
  BY DEF Objects
<1>2. new # NoObject
  BY ScannerAssumption
<1>3. TypeOK'
  <2>1. TypeOK
    BY DEF ScannerInv
  <2>2. /\ (pack \in Packs)' /\ (fed \in 0 .. Len(pack))' /\ (offset \in 0 .. fed)'
        /\ (Len(header) <= HeaderLen)' /\ (declared \in Nat \cup {None})'
        /\ (frames \in Seq(ObjectFrame))' /\ (trailerLen \in Nat)'
    BY <2>1 DEF TypeOK
  <2>3. state' \in ScannerState /\ (result \in {"running", "ok", "err"})'
    BY DEF ScannerState, Objects
  <2>4. (current \in PartialObjectFrame \cup {NoObject})' /\ (current # NoObject)'
    BY <1>2
  <2>5. (state \notin {"PackHeader", "Trailer"})'
    BY <1>1
  <2> QED
    BY <2>2, <2>3, <2>4, <2>5 DEF TypeOK
<1>4. HeaderInv'
  BY <1>1 DEF HeaderInv
<1>5. FoundInv'
  BY <1>1 DEF ScannerInv, FoundInv
<1>6. PlaceInv'
  BY <1>1, <1>2 DEF PlaceInv
<1>7. AcceptsValidPacks'
  BY DEF AcceptsValidPacks
<1> QED
  BY <1>3, <1>4, <1>5, <1>6, <1>7 DEF ScannerInv

\* A handler that fails must have met something that makes the pack invalid.
LEMMA Fails ==
  ASSUME ScannerInv, result = "running", result' = "err", ~Valid(pack),
         UNCHANGED <<pack, fed, state, header, declared, frames, current, trailerLen>>,
         offset' \in 0 .. fed
  PROVE  ScannerInv'
<1>1. TypeOK'
  BY DEF ScannerInv, TypeOK
<1>2. HeaderInv'
  BY DEF ScannerInv, HeaderInv
<1>3. FoundInv'
  BY DEF ScannerInv, FoundInv
<1>4. AcceptsValidPacks'
  <2>1. (result = "ok" => Valid(pack) /\ frames = Scan(pack).frames)'
    OBVIOUS
  <2>2. (~Valid(pack))'
    OBVIOUS
  <2> QED
    BY <2>1, <2>2 DEF AcceptsValidPacks
<1> QED
  BY <1>1, <1>2, <1>3, <1>4 DEF ScannerInv

-----------------------------------------------------------------------------
\* The next chunk changes nothing else.
LEMMA FeedKeeps ==
  ASSUME ScannerInv, Feed
  PROVE  ScannerInv'
<1>1. /\ UNCHANGED <<pack, state, header, offset, declared, frames, current, trailerLen, result>>
      /\ fed' \in fed + 1 .. Len(pack)
  BY DEF Feed
<1>2. pack \in Packs /\ fed \in 0 .. Len(pack) /\ offset \in 0 .. fed /\ Len(pack) \in Nat
  BY PackIs DEF ScannerInv, TypeOK
<1>3. fed' \in 0 .. Len(pack) /\ offset \in 0 .. fed'
  BY <1>1, <1>2
<1>4. TypeOK'
  BY <1>1, <1>3 DEF ScannerInv, TypeOK
<1>5. HeaderInv' /\ FoundInv'
  BY <1>1 DEF ScannerInv, HeaderInv, FoundInv
<1>6. AcceptsValidPacks'
  BY <1>1 DEF ScannerInv, AcceptsValidPacks
<1>7. (result = "running" => PlaceInv)'
  BY <1>1 DEF ScannerInv, PlaceInv
<1> QED
  BY <1>4, <1>5, <1>6, <1>7 DEF ScannerInv

\* The header of the pack is read from its first bytes alone.
LEMMA HeaderIs ==
  ASSUME NEW p \in Packs, HeaderLen <= Len(p), NEW h, h = Between(p, 0, HeaderLen)
  PROVE  Len(h) = HeaderLen /\ h[3] = p[3] /\ (HeaderValid(h) <=> HeaderValid(p))
<1>1. HeaderLen = 3 /\ 3 \in 0 .. Len(p) /\ 0 \in 0 .. 3 /\ 3 - 0 = 3
  BY PackIs DEF HeaderLen
<1>2. Len(h) = 3 /\ \A i \in 1 .. 3 : h[i] = p[0 + i]
  BY <1>1, Slice
<1>3. h[1] = p[1] /\ h[2] = p[2] /\ h[3] = p[3]
  <2>1. 0 + 1 = 1 /\ 0 + 2 = 2 /\ 0 + 3 = 3 /\ 1 \in 1 .. 3 /\ 2 \in 1 .. 3 /\ 3 \in 1 .. 3
    OBVIOUS
  <2> QED
    BY <1>2, <2>1
<1> QED
  BY <1>1, <1>2, <1>3 DEF HeaderValid

\* What is taken of it.
LEMMA HeaderTaken ==
  ASSUME ScannerInv, Handle("PackHeader", HeaderTake)
  PROVE  \E at \in 0 .. fed :
           /\ at = offset + HeaderTake /\ at = Len(header) + HeaderTake /\ at <= HeaderLen
           /\ header \o Input(HeaderTake) = Between(pack, 0, at)
           /\ Len(Between(pack, 0, at)) = at
<1>1. result = "running" /\ state = "PackHeader" /\ Available > 0
  BY DEF Handle
<1>2. /\ header = Between(pack, 0, Len(header)) /\ offset = Len(header) /\ Len(header) < HeaderLen
      /\ pack \in Packs /\ fed \in 0 .. Len(pack) /\ offset \in 0 .. fed
  BY <1>1 DEF ScannerInv, HeaderInv, TypeOK
<1>3. Len(pack) \in Nat /\ HeaderLen = 3
  BY <1>2, PackIs DEF HeaderLen
<1>4. PICK t : t = HeaderTake
  OBVIOUS
<1>5. t \in Nat /\ t <= fed - offset /\ offset + t <= HeaderLen
  <2>1. t = IF 3 - offset <= fed - offset THEN 3 - offset ELSE fed - offset
    BY <1>2, <1>3, <1>4 DEF HeaderTake, Available
  <2> QED
    BY <1>2, <1>3, <2>1
<1>6. PICK at : at = offset + t
  OBVIOUS
<1>7. at \in 0 .. fed /\ at \in 0 .. Len(pack) /\ offset \in 0 .. at /\ 0 \in 0 .. offset
      /\ 0 \in 0 .. at /\ at - 0 = at
  BY <1>2, <1>3, <1>5, <1>6
<1>8. Between(pack, 0, offset) \o Between(pack, offset, at) = Between(pack, 0, at)
  BY <1>2, <1>7, SliceJoin
<1>9. Len(Between(pack, 0, at)) = at
  BY <1>2, <1>7, Slice
<1>10. Input(HeaderTake) = Between(pack, offset, at)
  BY <1>4, <1>6 DEF Input
<1>11. header = Between(pack, 0, offset)
  BY <1>2
<1> QED
  BY <1>2, <1>4, <1>5, <1>6, <1>7, <1>8, <1>9, <1>10, <1>11

\* Part of the header.
LEMMA CollectPackHeaderKeeps ==
  ASSUME ScannerInv, CollectPackHeader
  PROVE  ScannerInv'
<1>1. /\ Handle("PackHeader", HeaderTake) /\ Len(header) + HeaderTake < HeaderLen
      /\ header' = header \o Input(HeaderTake) /\ state' = "PackHeader"
      /\ UNCHANGED <<result, declared, frames, current, trailerLen>>
  BY DEF CollectPackHeader, Go
<1>2. /\ result = "running" /\ state = "PackHeader" /\ offset' = offset + HeaderTake
      /\ UNCHANGED <<pack, fed>>
  BY <1>1 DEF Handle
<1>3. PICK at \in 0 .. fed :
         /\ at = offset + HeaderTake /\ at = Len(header) + HeaderTake
         /\ header \o Input(HeaderTake) = Between(pack, 0, at)
         /\ Len(Between(pack, 0, at)) = at
  BY <1>1, HeaderTaken
<1>4. at < HeaderLen /\ header' = Between(pack, 0, at) /\ Len(header') = at /\ offset' = at
  BY <1>1, <1>2, <1>3
<1>5. HeaderLen = 3 /\ Len(header') <= HeaderLen
  BY <1>4 DEF HeaderLen
<1>6. TypeOK
  BY DEF ScannerInv
<1>7. TypeOK'
  BY <1>1, <1>2, <1>4, <1>5, <1>6 DEF TypeOK
<1>8. HeaderInv'
  BY <1>1, <1>2, <1>4 DEF ScannerInv, HeaderInv
<1>9. FoundInv' /\ AcceptsValidPacks'
  BY <1>1, <1>2 DEF FoundInv, AcceptsValidPacks
<1>10. PlaceInv'
  <2>1. current = NoObject
    BY <1>2 DEF ScannerInv, HeaderInv
  <2> QED
    BY <1>1, <2>1 DEF PlaceInv
<1> QED
  BY <1>7, <1>8, <1>9, <1>10 DEF ScannerInv

\* The rest of it: the parser of the whole pack accepts the same header, and begins behind it.
LEMMA AcceptPackHeaderKeeps ==
  ASSUME ScannerInv, AcceptPackHeader
  PROVE  ScannerInv'
<1>1. /\ Handle("PackHeader", HeaderTake) /\ Len(header) + HeaderTake = HeaderLen
      /\ header' = header \o Input(HeaderTake) /\ HeaderValid(header')
      /\ declared' = header'[3]
      /\ state' = IF declared' = 0 THEN "Trailer" ELSE "ObjectHeader"
      /\ UNCHANGED <<result, frames, current, trailerLen>>
  BY DEF AcceptPackHeader, Go
<1>2. /\ result = "running" /\ state = "PackHeader" /\ offset' = offset + HeaderTake
      /\ UNCHANGED <<pack, fed>>
  BY <1>1 DEF Handle
<1>3. PICK at \in 0 .. fed :
         /\ at = offset + HeaderTake /\ at = Len(header) + HeaderTake
         /\ header \o Input(HeaderTake) = Between(pack, 0, at)
         /\ Len(Between(pack, 0, at)) = at
  BY <1>1, HeaderTaken
<1>4. at = HeaderLen /\ offset' = HeaderLen /\ HeaderLen = 3
  BY <1>1, <1>2, <1>3 DEF HeaderLen
<1>5. /\ pack \in Packs /\ fed \in 0 .. Len(pack) /\ Len(pack) \in Nat
      /\ frames = <<>> /\ current = NoObject /\ trailerLen = 0
  BY <1>2, PackIs DEF ScannerInv, TypeOK, HeaderInv
<1>6. PICK h : h = Between(pack, 0, HeaderLen)
  OBVIOUS
<1>7. header' = h /\ HeaderLen <= Len(pack)
  BY <1>1, <1>3, <1>4, <1>5, <1>6
<1>8. HeaderValid(h) /\ declared' = h[3]
  BY <1>1, <1>7
<1>9. Len(h) = HeaderLen /\ HeaderValid(pack) /\ declared' = Declared(pack)
  BY <1>5, <1>6, <1>7, <1>8, HeaderIs DEF Declared
<1>10. Declared(pack) \in Nat
  BY <1>5, <1>9, HeaderFacts
<1>11. At(pack, 0) = [valid |-> TRUE, end |-> HeaderLen, frames |-> <<>>]
  BY <1>5, <1>9, ScanIs DEF ScanStart
<1>12. Len(frames) = 0 /\ frames' = frames /\ current' = NoObject /\ trailerLen' = 0
  BY <1>1, <1>5
<1>13. At(pack, Len(frames)).valid = TRUE /\ At(pack, Len(frames)).end = HeaderLen
       /\ At(pack, Len(frames)).frames = frames
  BY <1>5, <1>11, <1>12
<1>14. state' \in {"Trailer", "ObjectHeader"} /\ (state' = "Trailer" <=> declared' = 0)
  BY <1>1
<1>15. TypeOK
  BY DEF ScannerInv
<1>16. TypeOK'
  <2>1. /\ (pack \in Packs)' /\ (fed \in 0 .. Len(pack))' /\ (frames \in Seq(ObjectFrame))'
        /\ (result \in {"running", "ok", "err"})'
    BY <1>1, <1>2, <1>15 DEF TypeOK
  <2>2. (offset \in 0 .. fed)' /\ (Len(header) <= HeaderLen)'
    BY <1>2, <1>3, <1>4, <1>7, <1>9
  <2>3. (declared \in Nat \cup {None})' /\ (trailerLen \in Nat)'
    BY <1>9, <1>10, <1>12
  <2>4. (state \in ScannerState)' /\ state' \notin {"OffsetDeltaBase", "RefDeltaBase", "CompressedPayload"}
    BY <1>14 DEF ScannerState
  <2> QED
    BY <1>12, <2>1, <2>2, <2>3, <2>4 DEF TypeOK
<1>17. HeaderInv'
  BY <1>14 DEF HeaderInv
<1>18. FoundInv'
  <2>1. TrailerLen \in Nat
    BY Widths
  <2>2. (HeaderValid(pack) /\ declared = Declared(pack))'
    BY <1>2, <1>9
  <2>3. (At(pack, Len(frames)).valid = TRUE /\ At(pack, Len(frames)).frames = frames)'
    BY <1>1, <1>2, <1>13
  <2>4. Len(frames') = 0 /\ 0 <= declared' /\ (declared' # 0 => 0 < declared')
    BY <1>9, <1>10, <1>12
  <2>5. 0 <= TrailerLen
    BY <2>1
  <2> QED
    BY <1>12, <1>14, <2>2, <2>3, <2>4, <2>5 DEF FoundInv
<1>19. PlaceInv'
  <2>1. HeaderLen = HeaderLen + 0
    BY <1>4
  <2>2. (offset = At(pack, Len(frames)).end)'
    BY <1>1, <1>2, <1>4, <1>13
  <2>3. (offset = At(pack, Len(frames)).end + trailerLen)'
    BY <1>1, <1>2, <1>4, <1>12, <1>13, <2>1
  <2> QED
    BY <1>12, <2>2, <2>3 DEF PlaceInv
<1>20. AcceptsValidPacks'
  BY <1>1, <1>2 DEF AcceptsValidPacks
<1> QED
  BY <1>16, <1>17, <1>18, <1>19, <1>20 DEF ScannerInv

\* It rejects the same ones.
LEMMA RejectPackHeaderKeeps ==
  ASSUME ScannerInv, RejectPackHeader
  PROVE  ScannerInv'
<1>1. /\ Handle("PackHeader", HeaderTake) /\ Len(header) + HeaderTake = HeaderLen
      /\ ~HeaderValid(header \o Input(HeaderTake)) /\ result' = "err"
      /\ UNCHANGED <<state, header, declared, frames, current, trailerLen>>
  BY DEF RejectPackHeader, Fail
<1>2. result = "running" /\ offset' = offset + HeaderTake /\ UNCHANGED <<pack, fed>>
  BY <1>1 DEF Handle
<1>3. PICK at \in 0 .. fed :
         /\ at = offset + HeaderTake /\ at = Len(header) + HeaderTake
         /\ header \o Input(HeaderTake) = Between(pack, 0, at)
  BY <1>1, HeaderTaken
<1>4. pack \in Packs /\ fed \in 0 .. Len(pack) /\ Len(pack) \in Nat /\ HeaderLen = 3
  BY PackIs DEF ScannerInv, TypeOK, HeaderLen
<1>5. PICK h : h = Between(pack, 0, HeaderLen)
  OBVIOUS
<1>6. ~HeaderValid(h) /\ HeaderLen <= Len(pack)
  BY <1>1, <1>3, <1>4, <1>5
<1>7. ~HeaderValid(pack)
  BY <1>4, <1>5, <1>6, HeaderIs
<1>8. ~Valid(pack)
  BY <1>7 DEF Valid
<1> QED
  BY <1>1, <1>2, <1>3, <1>8, Fails

-----------------------------------------------------------------------------
\* When the last object is found, the pack is valid when the trailer is all that is left.
LEMMA InTrailer ==
  ASSUME ScannerInv, state = "Trailer"
  PROVE  /\ pack \in Packs /\ Len(pack) \in Nat /\ At(pack, Len(frames)).end \in Nat
         /\ Valid(pack) <=> At(pack, Len(frames)).end + TrailerLen = Len(pack)
         /\ frames = Scan(pack).frames
<1>1. /\ pack \in Packs /\ HeaderValid(pack) /\ declared = Declared(pack)
      /\ At(pack, Len(frames)).valid = TRUE /\ At(pack, Len(frames)).frames = frames
      /\ Len(frames) = declared
  BY DEF ScannerInv, TypeOK, FoundInv
<1>2. Scan(pack) = At(pack, Len(frames))
  BY <1>1, ScanIs
<1>3. Len(frames) \in 0 .. Declared(pack)
  BY <1>1, HeaderFacts
<1>4. At(pack, Len(frames)).end \in Nat /\ Len(pack) \in Nat
  <2>1. At(pack, Len(frames)).end \in 3 .. Len(pack)
    BY <1>1, <1>3, ScanFrames
  <2> QED
    BY <1>1, <2>1, PackIs
<1>5. Valid(pack) <=> At(pack, Len(frames)).end = Len(pack) - TrailerLen
  BY <1>1, <1>2 DEF Valid
<1>6. PICK e : e = At(pack, Len(frames)).end
  OBVIOUS
<1>7. e = Len(pack) - TrailerLen <=> e + TrailerLen = Len(pack)
  BY <1>4, <1>6, Widths
<1> QED
  BY <1>1, <1>2, <1>4, <1>5, <1>6, <1>7

\* Part of the trailer.
LEMMA FeedTrailerKeeps ==
  ASSUME ScannerInv, FeedTrailer
  PROVE  ScannerInv'
<1>1. /\ result = "running" /\ state = "Trailer" /\ Available > 0 /\ offset' = offset + Available
      /\ trailerLen + Available <= TrailerLen /\ trailerLen' = trailerLen + Available
      /\ state' = "Trailer"
      /\ UNCHANGED <<pack, fed, result, header, declared, frames, current>>
  BY DEF FeedTrailer, Handle, Go
<1>2. /\ TypeOK /\ offset = At(pack, Len(frames)).end + trailerLen
      /\ At(pack, Len(frames)).end \in Nat /\ Len(pack) \in Nat /\ current = NoObject
  BY <1>1, InTrailer DEF ScannerInv, PlaceInv, TypeOK
<1>3. fed \in 0 .. Len(pack) /\ offset \in 0 .. fed /\ trailerLen \in Nat
  BY <1>2 DEF TypeOK
<1>4. /\ offset + Available = fed /\ fed \in 0 .. fed /\ trailerLen + Available \in Nat
      /\ offset + Available = At(pack, Len(frames)).end + (trailerLen + Available)
  <2>1. PICK e : e = At(pack, Len(frames)).end
    OBVIOUS
  <2>2. e \in Nat /\ offset = e + trailerLen /\ Available = fed - offset
    BY <1>2, <2>1 DEF Available
  <2>3. fed - offset \in Nat /\ fed \in Nat /\ offset \in Nat
    BY <1>2, <1>3
  <2>4. /\ offset + (fed - offset) = fed
        /\ offset + (fed - offset) = e + (trailerLen + (fed - offset))
        /\ trailerLen + (fed - offset) \in Nat /\ fed \in 0 .. fed
    BY <1>3, <2>2, <2>3
  <2> QED
    BY <2>1, <2>2, <2>4
<1>5. TypeOK'
  BY <1>1, <1>2, <1>4 DEF TypeOK
<1>6. HeaderInv'
  BY <1>1 DEF HeaderInv
<1>7. FoundInv'
  BY <1>1 DEF ScannerInv, FoundInv
<1>8. PlaceInv'
  BY <1>1, <1>2, <1>4 DEF PlaceInv
<1>9. AcceptsValidPacks'
  BY <1>1 DEF AcceptsValidPacks
<1> QED
  BY <1>5, <1>6, <1>7, <1>8, <1>9 DEF ScannerInv

\* More than a trailer is left: the last object does not end where it must.
LEMMA TrailerTooLongKeeps ==
  ASSUME ScannerInv, TrailerTooLong
  PROVE  ScannerInv'
<1>1. /\ result = "running" /\ state = "Trailer" /\ offset' = offset + Available
      /\ trailerLen + Available > TrailerLen /\ result' = "err"
      /\ UNCHANGED <<pack, fed, state, header, declared, frames, current, trailerLen>>
  BY DEF TrailerTooLong, Handle, Fail
<1>2. /\ TypeOK /\ offset = At(pack, Len(frames)).end + trailerLen
      /\ At(pack, Len(frames)).end \in Nat /\ Len(pack) \in Nat
      /\ Valid(pack) <=> At(pack, Len(frames)).end + TrailerLen = Len(pack)
  BY <1>1, InTrailer DEF ScannerInv, PlaceInv
<1>3. fed \in 0 .. Len(pack) /\ offset \in 0 .. fed /\ trailerLen \in Nat
  BY <1>2 DEF TypeOK
<1>4. PICK e : e = At(pack, Len(frames)).end
  OBVIOUS
<1>5. offset + Available = fed /\ e + TrailerLen < fed
  <2>1. e \in Nat /\ offset = e + trailerLen /\ Available = fed - offset
        /\ trailerLen + (fed - offset) > TrailerLen /\ TrailerLen \in Nat
    BY <1>1, <1>2, <1>4, Widths DEF Available
  <2> QED
    BY <1>3, <2>1
<1>6. ~Valid(pack) /\ fed \in 0 .. fed
  <2>1. e + TrailerLen # Len(pack)
    BY <1>2, <1>3, <1>4, <1>5, Widths
  <2> QED
    BY <1>2, <1>3, <1>4, <2>1
<1> QED
  BY <1>1, <1>5, <1>6, Fails

\* When the pack is used up within an object, the parser does not accept that object either, or
\* only with the bytes that the trailer must have.
LEMMA NotWhole ==
  ASSUME ScannerInv, result = "running", state \in Objects, offset = Len(pack)
  PROVE  ~Valid(pack)
<1>1. PICK p, at, k, e : p = pack /\ at = offset /\ k = Len(frames) /\ e = At(p, k).end
  OBVIOUS
<1>2. /\ p \in Packs /\ Len(p) \in Nat /\ at = Len(p) /\ at \in Nat
      /\ HeaderValid(p) /\ k \in 0 .. Declared(p) - 1 /\ At(p, k).valid = TRUE
      /\ e \in 3 .. Len(p)
      /\ current = NoObject => at = e
      /\ current # NoObject =>
              /\ current \in PartialObjectFrame
              /\ Placed(p, current, at, k) /\ PartIs(p, state, current, at)
  BY <1>1, WhileScanning
<1>3. SUFFICES \/ e >= Len(p)
               \/ ~ValidAt(p, e)
               \/ EndAt(p, e) >= Len(p)
  BY <1>1, <1>2, NotValid
<1>4. CASE current = NoObject
  BY <1>2, <1>4
<1>5. CASE current # NoObject
  <2>1. PICK o : o = current
    OBVIOUS
  <2>2. /\ o \in PartialObjectFrame /\ o.start = e /\ e < at /\ PartIs(p, state, o, at)
        /\ e \in 0 .. Len(p) /\ at \in e .. Len(p) /\ e \in 0 .. Len(p) - 1
    BY <1>1, <1>2, <1>5, <2>1 DEF Placed
  <2>3. PICK h, b : h = HeadEnd(p, e) /\ b = BaseEndAt(p, e)
    OBVIOUS
  <2>4. h \in e + 1 .. Len(p) + 1
    BY <1>2, <2>2, <2>3, VarintFacts DEF HeadEnd
  <2>5. CASE state = "ObjectHeader"
    <3>1. GoesOn(p, e, at)
      BY <2>2, <2>5 DEF PartIs, InHeader
    <3>2. h > at
      BY <1>2, <2>2, <2>3, <3>1, VarintPast DEF HeadEnd
    <3>3. ~(h <= Len(p))
      BY <1>2, <2>4, <3>2
    <3> QED
      BY <2>3, <3>3 DEF ValidAt
  <2>6. CASE state = "OffsetDeltaBase"
    <3>1. /\ GoesOn(p, h, at) /\ h <= at /\ KindAt(p, e) = OffsetKind
      BY <2>2, <2>3, <2>6 DEF PartIs, InOffset, AfterHeader
    <3>2. h \in 0 .. Len(p) /\ at \in h .. Len(p)
      BY <1>2, <2>2, <2>4, <3>1
    <3>3. b = VarintEnd(p, h)
      <4>1. KindAt(p, e) # RefKind
        BY <3>1 DEF OffsetKind, RefKind
      <4> QED
        BY <2>3, <3>1, <4>1 DEF BaseEndAt
    <3>4. b > at /\ b \in h + 1 .. Len(p) + 1
      BY <1>2, <3>1, <3>2, <3>3, VarintPast, VarintFacts
    <3>5. ~(b <= Len(p))
      BY <1>2, <3>2, <3>4
    <3> QED
      BY <2>3, <3>5 DEF ValidAt
  <2>7. CASE state = "RefDeltaBase"
    <3>1. /\ at - h < OidLen /\ h <= at /\ KindAt(p, e) = RefKind /\ KindAt(p, e) \in Kinds
      BY <2>2, <2>3, <2>7 DEF PartIs, InOid, AfterHeader
    <3>2. h <= Len(p)
      BY <1>2, <2>4, <3>1
    <3>3. b = h + OidLen
      BY <1>2, <2>2, <2>3, <3>1, <3>2, BasePlace
    <3>4. ~(b <= Len(p))
      BY <1>2, <2>4, <3>1, <3>3, Widths
    <3> QED
      BY <2>3, <3>4 DEF ValidAt
  <2>8. CASE state = "CompressedPayload"
    <3>1. /\ GoesOn(p, b, at - 1) /\ b <= at /\ h <= at /\ KindAt(p, e) \in Kinds
      BY <2>2, <2>3, <2>8 DEF PartIs, InPayload, Based, AfterHeader
    <3>2. h <= Len(p)
      BY <1>2, <2>4, <3>1
    <3>3. b \in Nat
      BY <1>2, <2>2, <2>3, <3>1, <3>2, BasePlace
    <3>4. b \in 0 .. Len(p)
      BY <1>2, <3>1, <3>3
    <3>5. PICK n : n = at - 1
      OBVIOUS
    <3>6. PICK x : x = EndAt(p, e)
      OBVIOUS
    <3>7. x = VarintEnd(p, b)
      BY <2>3, <3>6 DEF EndAt
    <3>8. x \in b + 1 .. Len(p) + 1
      BY <1>2, <3>4, <3>7, VarintFacts
    <3>9. CASE b = at
      <4>1. x >= Len(p)
        BY <1>2, <3>3, <3>8, <3>9
      <4> QED
        BY <3>6, <4>1
    <3>10. CASE b # at
      <4>1. n \in b .. Len(p)
        BY <1>2, <3>1, <3>3, <3>5, <3>10
      <4>2. x > n
        BY <1>2, <3>1, <3>4, <3>5, <3>7, <4>1, VarintPast
      <4>3. x >= Len(p)
        BY <1>2, <3>3, <3>5, <3>8, <4>2
      <4> QED
        BY <3>6, <4>3
    <3> QED
      BY <3>9, <3>10
  <2> QED
    BY <2>5, <2>6, <2>7, <2>8 DEF Objects
<1> QED
  BY <1>4, <1>5

\* The source ends: what is there is the whole pack, or not a valid one.
LEMMA FinishKeeps ==
  ASSUME ScannerInv, Finish
  PROVE  ScannerInv'
<1>1. /\ result = "running" /\ offset = Len(pack)
      /\ result' = IF Len(frames) = declared /\ trailerLen = TrailerLen THEN "ok" ELSE "err"
      /\ UNCHANGED <<pack, fed, state, header, offset, declared, frames, current, trailerLen>>
  BY DEF Finish
<1>2. TypeOK'
  BY <1>1 DEF ScannerInv, TypeOK
<1>3. (result # "running")'
  BY <1>1
<1>4. HeaderInv' /\ FoundInv'
  BY <1>1, <1>3 DEF ScannerInv, HeaderInv, FoundInv
<1>5. /\ TypeOK /\ HeaderInv /\ FoundInv /\ PlaceInv
  BY <1>1 DEF ScannerInv
<1>6. pack \in Packs /\ Len(pack) \in Nat /\ TrailerLen > 0 /\ TrailerLen \in Nat /\ trailerLen \in Nat
  BY <1>5, PackIs, Widths DEF TypeOK
<1>7. /\ Len(frames) = declared /\ trailerLen = TrailerLen => Valid(pack) /\ frames = Scan(pack).frames
      /\ ~(Len(frames) = declared /\ trailerLen = TrailerLen) => ~Valid(pack)
  <2>1. CASE state = "PackHeader"
    <3>1. trailerLen = 0 /\ Len(pack) < HeaderLen
      BY <1>1, <1>5, <2>1 DEF HeaderInv
    <3>2. ~Valid(pack)
      BY <1>6, <3>1 DEF Valid, HeaderValid, HeaderLen
    <3> QED
      BY <1>6, <3>1, <3>2
  <2>2. CASE state = "Trailer"
    <3>1. PICK e : e = At(pack, Len(frames)).end
      OBVIOUS
    <3>2. Len(frames) = declared /\ offset = e + trailerLen
      BY <1>5, <2>2, <3>1 DEF FoundInv, PlaceInv
    <3>3. /\ e \in Nat /\ (Valid(pack) <=> e + TrailerLen = Len(pack))
          /\ frames = Scan(pack).frames
      BY <2>2, <3>1, InTrailer
    <3>4. e + TrailerLen = Len(pack) <=> trailerLen = TrailerLen
      BY <1>1, <1>6, <3>2, <3>3
    <3> QED
      BY <3>2, <3>3, <3>4
  <2>3. CASE state \in Objects
    <3>1. trailerLen = 0 /\ ~Valid(pack)
      BY <1>1, <2>3, WhileScanning, NotWhole
    <3> QED
      BY <1>6, <3>1
  <2>4. state \in Objects \cup {"PackHeader", "Trailer"}
    BY <1>5 DEF TypeOK, ScannerState, Objects
  <2> QED
    BY <2>1, <2>2, <2>3, <2>4
<1>8. AcceptsValidPacks'
  <2>1. CASE Len(frames) = declared /\ trailerLen = TrailerLen
    BY <1>1, <1>7, <2>1 DEF AcceptsValidPacks
  <2>2. CASE ~(Len(frames) = declared /\ trailerLen = TrailerLen)
    BY <1>1, <1>7, <2>2 DEF AcceptsValidPacks
  <2> QED
    BY <2>1, <2>2
<1> QED
  BY <1>2, <1>3, <1>4, <1>8 DEF ScannerInv

\* Nothing happens.
LEMMA Stutters ==
  ASSUME ScannerInv, UNCHANGED vars
  PROVE  ScannerInv'
<1>1. UNCHANGED <<pack, fed, state, header, offset, declared, frames, current, trailerLen, result>>
  BY DEF vars
<1>2. TypeOK'
  BY <1>1 DEF ScannerInv, TypeOK
<1>3. HeaderInv' /\ FoundInv'
  BY <1>1 DEF ScannerInv, HeaderInv, FoundInv
<1>4. AcceptsValidPacks'
  BY <1>1 DEF ScannerInv, AcceptsValidPacks
<1>5. (result = "running" => PlaceInv)'
  BY <1>1 DEF ScannerInv, PlaceInv
<1> QED
  BY <1>2, <1>3, <1>4, <1>5 DEF ScannerInv

-----------------------------------------------------------------------------
\* The next byte of an object's header.
LEMMA HeaderByte ==
  ASSUME ScannerInv, Handle("ObjectHeader", 1)
  PROVE  /\ offset \in 0 .. Len(pack) - 1 /\ offset + 1 \in 0 .. fed /\ offset + 1 \in 0 .. Len(pack)
         /\ offset' = offset + 1
         /\ \E new \in PartialObjectFrame :
              /\ new = ObjectHeader(pack[offset + 1])
              /\ new.start \in 0 .. offset /\ new.start = At(pack, Len(frames)).end
              /\ Headed(pack, new, offset + 1) /\ Placed(pack, new, offset + 1, Len(frames))
              /\ GoesOn(pack, new.start, offset)
<1>1. /\ result = "running" /\ state = "ObjectHeader" /\ fed - offset > 0 /\ state \in Objects
      /\ offset' = offset + 1
  BY DEF Handle, Available, Objects
<1>2. PICK p, at, k, byte : p = pack /\ at = offset /\ k = Len(frames) /\ byte = p[at + 1]
  OBVIOUS
<1>3. /\ p \in Packs /\ Len(p) \in Nat /\ fed \in 0 .. Len(p) /\ at \in 0 .. fed
      /\ current = NoObject => at = At(p, k).end
      /\ current # NoObject =>
              /\ current \in PartialObjectFrame
              /\ Placed(p, current, at, k) /\ PartIs(p, "ObjectHeader", current, at)
  BY <1>1, <1>2, WhileScanning
<1>4. at \in 0 .. Len(p) - 1 /\ at + 1 \in 0 .. fed /\ at + 1 \in 0 .. Len(p) /\ at \in 0 .. at
  BY <1>1, <1>2, <1>3
<1>5. PICK new : new = ObjectHeader(byte)
  OBVIOUS
<1>6. /\ new \in PartialObjectFrame /\ new.start \in 0 .. at /\ new.start = At(p, k).end
      /\ Headed(p, new, at + 1) /\ Placed(p, new, at + 1, k)
      /\ GoesOn(p, new.start, at)
  <2>1. CASE current = NoObject
    <3>1. new = [start |-> at, kind |-> KindOf(byte), size |-> SizeOf(byte), shift |-> SizeRadix,
                 encoded |-> [kind |-> 0], compressedStart |-> 0, compressedLen |-> 0,
                 crc |-> <<byte>>, distance |-> None, oid |-> <<>>, out |-> 0, owed |-> 0,
                 ended |-> FALSE]
      BY <1>2, <1>5, <2>1 DEF ObjectHeader, NewObject
    <3>2. /\ new \in PartialObjectFrame /\ new.start = at
          /\ Headed(p, new, at + 1) /\ Placed(p, new, at + 1, k) /\ GoesOn(p, at, at)
      BY <1>2, <1>3, <1>4, <2>1, <3>1, HeaderStarts
    <3> QED
      BY <1>3, <1>4, <2>1, <3>2
  <2>2. CASE current # NoObject
    <3>1. PICK o : o = current
      OBVIOUS
    <3>2. new = Longer(o, byte)
      BY <1>5, <2>2, <3>1 DEF ObjectHeader, MoreSize, Longer
    <3>3. o \in PartialObjectFrame /\ Placed(p, o, at, k) /\ InHeader(p, o, at)
      BY <1>3, <2>2, <3>1 DEF PartIs
    <3>4. /\ new \in PartialObjectFrame /\ new.start = o.start
          /\ Headed(p, new, at + 1) /\ Placed(p, new, at + 1, k)
      <4>1. p \in Packs /\ at \in 0 .. Len(p) - 1 /\ byte = p[at + 1]
        BY <1>2, <1>3, <1>4
      <4> QED
        BY <3>2, <3>3, <4>1, HeaderMore
    <3>5. o.start \in 0 .. at /\ o.start = At(p, k).end /\ GoesOn(p, o.start, at)
      BY <1>3, <1>4, <3>3 DEF InHeader, Placed, PartialObjectFrame
    <3> QED
      BY <3>4, <3>5
  <2> QED
    BY <2>1, <2>2
<1> QED
  BY <1>1, <1>2, <1>4, <1>5, <1>6

\* A byte of the header that goes on.
LEMMA ObjectHeaderGoesOnKeeps ==
  ASSUME ScannerInv, ObjectHeaderGoesOn
  PROVE  ScannerInv'
<1>1. /\ Handle("ObjectHeader", 1) /\ Continues(pack[offset + 1])
      /\ current' = ObjectHeader(pack[offset + 1]) /\ state' = "ObjectHeader"
      /\ UNCHANGED <<result, header, declared, frames, trailerLen>>
  BY DEF ObjectHeaderGoesOn, Go
<1>2. result = "running" /\ state = "ObjectHeader" /\ UNCHANGED <<pack, fed>>
  BY <1>1 DEF Handle
<1>3. PICK new \in PartialObjectFrame :
        /\ new = ObjectHeader(pack[offset + 1])
        /\ new.start \in 0 .. offset
        /\ Headed(pack, new, offset + 1) /\ Placed(pack, new, offset + 1, Len(frames))
        /\ GoesOn(pack, new.start, offset)
  BY <1>1, HeaderByte
<1>4. PICK at : at = offset + 1
  OBVIOUS
<1>5. offset \in Nat /\ at \in 0 .. fed /\ offset' = at
  BY <1>1, <1>4, HeaderByte
<1>6. GoesOn(pack, new.start, at)
  <2>1. \A j \in new.start + 1 .. at : j \in new.start + 1 .. offset \/ j = at
    BY <1>3, <1>4, <1>5
  <2> QED
    BY <1>1, <1>3, <1>4, <2>1 DEF GoesOn
<1>7. PartIs(pack, "ObjectHeader", new, at)
  BY <1>3, <1>4, <1>6 DEF PartIs, InHeader
<1>8. "ObjectHeader" \in Objects
  BY DEF Objects
<1> QED
  BY <1>1, <1>2, <1>3, <1>4, <1>5, <1>7, <1>8, StepsOn

\* The last byte of the header of an object of no known kind, which the parser rejects.
LEMMA UnknownKindKeeps ==
  ASSUME ScannerInv, UnknownKind
  PROVE  ScannerInv'
<1>1. /\ Handle("ObjectHeader", 1) /\ ~Continues(pack[offset + 1])
      /\ ObjectHeader(pack[offset + 1]).kind \notin Kinds /\ result' = "err"
      /\ UNCHANGED <<state, header, declared, frames, current, trailerLen>>
  BY DEF UnknownKind, Fail
<1>2. result = "running" /\ state = "ObjectHeader" /\ UNCHANGED <<pack, fed>> /\ state \in Objects
  BY <1>1 DEF Handle, Objects
<1>3. PICK new \in PartialObjectFrame :
        /\ new = ObjectHeader(pack[offset + 1])
        /\ new.start \in 0 .. offset /\ new.start = At(pack, Len(frames)).end
        /\ Headed(pack, new, offset + 1)
        /\ GoesOn(pack, new.start, offset)
  BY <1>1, HeaderByte
<1>4. offset \in 0 .. Len(pack) - 1 /\ offset' \in 0 .. fed
  BY <1>1, HeaderByte
<1>5. /\ pack \in Packs /\ Len(pack) \in Nat /\ HeaderValid(pack)
      /\ Len(frames) \in 0 .. Declared(pack) - 1 /\ At(pack, Len(frames)).valid = TRUE
  BY <1>2, WhileScanning
<1>6. KindAt(pack, new.start) \notin Kinds
  BY <1>1, <1>3 DEF Headed
<1>7. ~ValidAt(pack, At(pack, Len(frames)).end)
  BY <1>3, <1>6 DEF ValidAt
<1>8. ~Valid(pack)
  BY <1>5, <1>7, NotValid
<1> QED
  BY <1>1, <1>2, <1>4, <1>8, Fails

\* The header and the base are read.
LEMMA PayloadKeeps ==
  ASSUME ScannerInv, result = "running", state \in Objects,
         UNCHANGED <<pack, fed, header, declared, frames, trailerLen>>,
         NEW at \in 0 .. fed, offset' = at,
         NEW o \in PartialObjectFrame, Placed(pack, o, at, Len(frames)),
         Untouched(o), AfterHeader(pack, o, at), at = BaseEndAt(pack, o.start),
         NEW encoded, Payload(o, encoded), encoded \in EncodedObjectKind,
         encoded = Encoded(pack, o.start, o.kind, HeadEnd(pack, o.start), at),
         o.kind = OffsetKind => Distance(pack, HeadEnd(pack, o.start), at) <= o.start
  PROVE  ScannerInv'
<1>1. /\ pack \in Packs /\ Len(pack) \in Nat /\ fed \in 0 .. Len(pack)
  BY WhileScanning
<1>2. at \in 0 .. Len(pack)
  BY <1>1
<1>3. PICK new : new = WithBase(o, encoded, at)
  OBVIOUS
<1>4. current' = new /\ state' = "CompressedPayload" /\ result' = "running"
  BY <1>3 DEF Payload, Go, WithBase
<1>5. /\ new \in PartialObjectFrame /\ InPayload(pack, new, at)
      /\ new.start = o.start /\ new.crc = o.crc
  BY <1>1, <1>2, <1>3, BeginsPayload
<1>6. Placed(pack, new, at, Len(frames))
  BY <1>5 DEF Placed
<1>7. PartIs(pack, "CompressedPayload", new, at)
  BY <1>5 DEF PartIs
<1>8. "CompressedPayload" \in Objects
  BY DEF Objects
<1> QED
  BY <1>4, <1>5, <1>6, <1>7, <1>8, StepsOn

\* The last byte of the header, which is where the parser sees its end.
LEMMA ObjectHeaderEndsKeeps ==
  ASSUME ScannerInv, ObjectHeaderEnds
  PROVE  ScannerInv'
<1>1. /\ Handle("ObjectHeader", 1) /\ ~Continues(pack[offset + 1])
      /\ UNCHANGED <<header, declared, frames, trailerLen>>
  BY DEF ObjectHeaderEnds
<1>2. /\ result = "running" /\ state = "ObjectHeader" /\ state \in Objects /\ UNCHANGED <<pack, fed>>
  BY <1>1 DEF Handle, Objects
<1>3. PICK new \in PartialObjectFrame :
        /\ new = ObjectHeader(pack[offset + 1])
        /\ new.start \in 0 .. offset
        /\ Headed(pack, new, offset + 1) /\ Placed(pack, new, offset + 1, Len(frames))
        /\ GoesOn(pack, new.start, offset)
  BY <1>1, HeaderByte
<1>4. PICK at : at = offset + 1
  OBVIOUS
<1>5. /\ offset \in 0 .. Len(pack) - 1 /\ at \in 0 .. fed /\ at \in 0 .. Len(pack) /\ offset' = at
  BY <1>1, <1>4, HeaderByte
<1>6. /\ pack \in Packs /\ Len(pack) \in Nat
  BY <1>2, WhileScanning
<1>7. /\ HeadEnd(pack, new.start) = at /\ new.kind = KindAt(pack, new.start)
      /\ new.kind \in Kinds => AfterHeader(pack, new, at)
  <2>1. new.start <= offset
    BY <1>3, <1>5
  <2> QED
    BY <1>1, <1>3, <1>4, <1>5, <1>6, <2>1, HeaderEnds
<1>8. /\ Placed(pack, new, at, Len(frames)) /\ Untouched(new)
      /\ new.distance = None /\ new.oid = <<>>
  BY <1>3, <1>4 DEF Headed
<1>9. CASE new.kind \in BaseKinds /\ Payload(new, [kind |-> new.kind])
  <2>1. new.kind # OffsetKind /\ new.kind # RefKind /\ new.kind \in Kinds
    BY <1>9 DEF BaseKinds, Kinds, OffsetKind, RefKind
  <2>2. at = BaseEndAt(pack, new.start)
    BY <1>7, <2>1 DEF BaseEndAt
  <2>3. /\ [kind |-> new.kind] = Encoded(pack, new.start, new.kind, HeadEnd(pack, new.start), at)
        /\ [kind |-> new.kind] \in EncodedObjectKind
    BY <1>9, <2>1 DEF Encoded, EncodedObjectKind
  <2>4. PICK encoded : encoded = [kind |-> new.kind]
    OBVIOUS
  <2>5. Payload(new, encoded)
    BY <1>9, <2>4
  <2> QED
    BY <1>1, <1>2, <1>5, <1>7, <1>8, <2>1, <2>2, <2>3, <2>4, <2>5, PayloadKeeps
<1>10. CASE new.kind = OffsetKind /\ current' = new /\ Go("OffsetDeltaBase")
  <2>1. new.kind \in Kinds
    BY <1>10 DEF Kinds
  <2>2. GoesOn(pack, at, at)
    BY <1>5 DEF GoesOn
  <2>3. Distance(pack, at, at) = None
    BY <1>5, <1>6, DistanceFirst
  <2>4. PartIs(pack, "OffsetDeltaBase", new, at)
    BY <1>7, <1>8, <1>10, <2>1, <2>2, <2>3 DEF PartIs, InOffset
  <2>5. "OffsetDeltaBase" \in Objects /\ state' = "OffsetDeltaBase" /\ result' = "running"
    BY <1>2, <1>10 DEF Objects, Go
  <2> QED
    BY <1>1, <1>2, <1>5, <1>8, <1>10, <2>4, <2>5, StepsOn
<1>11. CASE new.kind = RefKind /\ current' = new /\ Go("RefDeltaBase")
  <2>1. new.kind \in Kinds
    BY <1>11 DEF Kinds
  <2>2. Between(pack, at, at) = <<>>
    BY <1>5, <1>6, SliceEmpty
  <2>3. at - at < OidLen
    BY <1>5, Widths
  <2>4. PartIs(pack, "RefDeltaBase", new, at)
    BY <1>7, <1>8, <1>11, <2>1, <2>2, <2>3 DEF PartIs, InOid
  <2>5. "RefDeltaBase" \in Objects /\ state' = "RefDeltaBase" /\ result' = "running"
    BY <1>2, <1>11 DEF Objects, Go
  <2> QED
    BY <1>1, <1>2, <1>5, <1>8, <1>11, <2>4, <2>5, StepsOn
<1>12. \/ new.kind \in BaseKinds /\ Payload(new, [kind |-> new.kind])
       \/ new.kind = OffsetKind /\ current' = new /\ Go("OffsetDeltaBase")
       \/ new.kind = RefKind /\ current' = new /\ Go("RefDeltaBase")
  BY <1>3 DEF ObjectHeaderEnds
<1> QED
  BY <1>9, <1>10, <1>11, <1>12

-----------------------------------------------------------------------------
\* The next byte of the distance to its base.
LEMMA OffsetByte ==
  ASSUME ScannerInv, Handle("OffsetDeltaBase", 1)
  PROVE  /\ offset \in 0 .. Len(pack) - 1 /\ offset + 1 \in 0 .. fed /\ offset + 1 \in 0 .. Len(pack)
         /\ offset' = offset + 1 /\ HeadEnd(pack, current.start) \in 0 .. offset
         /\ GoesOn(pack, HeadEnd(pack, current.start), offset)
         /\ \E new \in PartialObjectFrame :
              /\ new = OffsetDelta(pack[offset + 1]) /\ new.start = current.start
              /\ new.start = At(pack, Len(frames)).end /\ new.start \in Nat
              /\ Placed(pack, new, offset + 1, Len(frames)) /\ AfterHeader(pack, new, offset + 1)
              /\ new.kind = OffsetKind /\ Untouched(new) /\ new.distance \in Nat
              /\ new.distance = Distance(pack, HeadEnd(pack, new.start), offset + 1)
<1>1. /\ result = "running" /\ state = "OffsetDeltaBase" /\ fed - offset > 0 /\ state \in Objects
      /\ offset' = offset + 1
  BY DEF Handle, Available, Objects
<1>2. PICK p, at, k, byte, o : /\ p = pack /\ at = offset /\ k = Len(frames)
                               /\ byte = p[at + 1] /\ o = current
  OBVIOUS
<1>3. /\ p \in Packs /\ Len(p) \in Nat /\ fed \in 0 .. Len(p) /\ at \in 0 .. fed
      /\ current # NoObject
      /\ o \in PartialObjectFrame
      /\ Placed(p, o, at, k) /\ PartIs(p, "OffsetDeltaBase", o, at)
  BY <1>1, <1>2, WhileScanning
<1>4. at \in 0 .. Len(p) - 1 /\ at + 1 \in 0 .. fed /\ at + 1 \in 0 .. Len(p)
  BY <1>1, <1>2, <1>3
<1>5. InOffset(p, o, at)
  BY <1>3 DEF PartIs
<1>6. PICK new : new = Farther(o, byte)
  OBVIOUS
<1>7. new = OffsetDelta(byte)
  BY <1>2, <1>6 DEF OffsetDelta, Farther
<1>8. /\ new \in PartialObjectFrame /\ new.start = o.start /\ Placed(p, new, at + 1, k)
      /\ AfterHeader(p, new, at + 1) /\ new.kind = OffsetKind /\ Untouched(new)
      /\ new.distance = Distance(p, HeadEnd(p, o.start), at + 1) /\ new.distance \in Nat
  BY <1>2, <1>3, <1>4, <1>5, <1>6, DistanceMore
<1>9. o.start \in Nat /\ o.start < at /\ o.start = At(p, k).end
  BY <1>3 DEF PartialObjectFrame, Placed
<1>10. HeadEnd(p, o.start) <= at /\ GoesOn(p, HeadEnd(p, o.start), at)
  BY <1>5 DEF InOffset, AfterHeader
<1>11. HeadEnd(p, o.start) \in 0 .. at
  <2>1. PICK s : s = o.start
    OBVIOUS
  <2>2. s \in 0 .. Len(p)
    BY <1>3, <1>4, <1>9, <2>1
  <2>3. VarintEnd(p, s) \in s + 1 .. Len(p) + 1
    BY <1>3, <2>2, VarintFacts
  <2> QED
    BY <1>3, <1>4, <1>10, <2>1, <2>2, <2>3 DEF HeadEnd
<1> QED
  BY <1>1, <1>2, <1>4, <1>7, <1>8, <1>9, <1>10, <1>11

\* A byte of the distance that goes on.
LEMMA OffsetDeltaGoesOnKeeps ==
  ASSUME ScannerInv, OffsetDeltaGoesOn
  PROVE  ScannerInv'
<1>1. /\ Handle("OffsetDeltaBase", 1) /\ Continues(pack[offset + 1])
      /\ current' = OffsetDelta(pack[offset + 1]) /\ state' = "OffsetDeltaBase"
      /\ UNCHANGED <<result, header, declared, frames, trailerLen>>
  BY DEF OffsetDeltaGoesOn, Go
<1>2. result = "running" /\ state = "OffsetDeltaBase" /\ UNCHANGED <<pack, fed>> /\ state \in Objects
  BY <1>1 DEF Handle, Objects
<1>3. PICK new \in PartialObjectFrame :
              /\ new = OffsetDelta(pack[offset + 1]) /\ new.start = current.start
              /\ Placed(pack, new, offset + 1, Len(frames)) /\ AfterHeader(pack, new, offset + 1)
              /\ new.kind = OffsetKind /\ Untouched(new)
              /\ new.distance = Distance(pack, HeadEnd(pack, new.start), offset + 1)
  BY <1>1, OffsetByte
<1>4. PICK at, h : at = offset + 1 /\ h = HeadEnd(pack, new.start)
  OBVIOUS
<1>5. /\ offset \in Nat /\ at \in 0 .. fed /\ offset' = at /\ h \in 0 .. offset
      /\ GoesOn(pack, h, offset)
  BY <1>1, <1>3, <1>4, OffsetByte
<1>6. GoesOn(pack, h, at)
  <2>1. \A j \in h + 1 .. at : j \in h + 1 .. offset \/ j = at
    BY <1>4, <1>5
  <2> QED
    BY <1>1, <1>4, <1>5, <2>1 DEF GoesOn
<1>7. PartIs(pack, "OffsetDeltaBase", new, at)
  BY <1>3, <1>4, <1>6 DEF PartIs, InOffset
<1>8. Placed(pack, new, at, Len(frames)) /\ "OffsetDeltaBase" \in Objects /\ current' = new
  BY <1>1, <1>3, <1>4 DEF Objects
<1> QED
  BY <1>1, <1>2, <1>3, <1>5, <1>7, <1>8, StepsOn

\* The last of them: the base begins as far before the object.
LEMMA OffsetEnds ==
  ASSUME ScannerInv, Handle("OffsetDeltaBase", 1), ~Continues(pack[offset + 1]),
         NEW o \in PartialObjectFrame, o.kind = OffsetKind, AfterHeader(pack, o, offset + 1),
         o.start = current.start
  PROVE  BaseEndAt(pack, o.start) = offset + 1
<1>1. PICK h : h = HeadEnd(pack, o.start)
  OBVIOUS
<1>2. /\ h \in 0 .. offset /\ GoesOn(pack, h, offset) /\ offset \in 0 .. Len(pack) - 1
  BY <1>1, OffsetByte
<1>3. pack \in Packs /\ Len(pack) \in Nat
  BY PackIs DEF ScannerInv, TypeOK
<1>4. h \in 0 .. Len(pack) /\ offset \in h .. Len(pack) - 1
  BY <1>2, <1>3
<1>5. VarintEnd(pack, h) = offset + 1
  BY <1>2, <1>3, <1>4, VarintIs
<1>6. KindAt(pack, o.start) = OffsetKind
  BY DEF AfterHeader
<1>7. KindAt(pack, o.start) # RefKind
  BY <1>6 DEF OffsetKind, RefKind
<1> QED
  BY <1>1, <1>5, <1>6, <1>7 DEF BaseEndAt

\* The last byte of the distance.
LEMMA OffsetDeltaEndsKeeps ==
  ASSUME ScannerInv, OffsetDeltaEnds
  PROVE  ScannerInv'
<1>1. /\ Handle("OffsetDeltaBase", 1) /\ ~Continues(pack[offset + 1])
      /\ UNCHANGED <<header, declared, frames, trailerLen>>
  BY DEF OffsetDeltaEnds
<1>2. /\ result = "running" /\ state = "OffsetDeltaBase" /\ state \in Objects /\ UNCHANGED <<pack, fed>>
  BY <1>1 DEF Handle, Objects
<1>3. PICK new \in PartialObjectFrame :
              /\ new = OffsetDelta(pack[offset + 1]) /\ new.start = current.start
              /\ new.start \in Nat
              /\ Placed(pack, new, offset + 1, Len(frames)) /\ AfterHeader(pack, new, offset + 1)
              /\ new.kind = OffsetKind /\ Untouched(new) /\ new.distance \in Nat
              /\ new.distance = Distance(pack, HeadEnd(pack, new.start), offset + 1)
  BY <1>1, OffsetByte
<1>4. PICK at, h, encoded : /\ at = offset + 1 /\ h = HeadEnd(pack, new.start)
                            /\ encoded = [kind |-> OffsetKind, offset |-> new.start - new.distance]
  OBVIOUS
<1>5. at \in 0 .. fed /\ offset' = at
  BY <1>1, <1>4, OffsetByte
<1>6. new.distance <= new.start /\ Payload(new, encoded)
  BY <1>3, <1>4 DEF OffsetDeltaEnds
<1>7. at = BaseEndAt(pack, new.start)
  BY <1>1, <1>3, <1>4, OffsetEnds
<1>8. encoded = Encoded(pack, new.start, new.kind, h, at)
  <2>1. new.kind # RefKind
    BY <1>3 DEF OffsetKind, RefKind
  <2> QED
    BY <1>3, <1>4, <2>1 DEF Encoded
<1>9. encoded \in EncodedObjectKind
  <2>1. new.start - new.distance \in Nat
    BY <1>3, <1>6
  <2> QED
    BY <1>4, <2>1 DEF EncodedObjectKind
<1>10. /\ Placed(pack, new, at, Len(frames)) /\ AfterHeader(pack, new, at)
       /\ Distance(pack, h, at) <= new.start
  BY <1>3, <1>4, <1>6
<1> QED
  BY <1>1, <1>2, <1>3, <1>4, <1>5, <1>6, <1>7, <1>8, <1>9, <1>10, PayloadKeeps

\* A distance that leads before the pack, which the parser rejects.
LEMMA BaseBeforePackKeeps ==
  ASSUME ScannerInv, BaseBeforePack
  PROVE  ScannerInv'
<1>1. /\ Handle("OffsetDeltaBase", 1) /\ ~Continues(pack[offset + 1])
      /\ OffsetDelta(pack[offset + 1]).distance > current.start /\ result' = "err"
      /\ UNCHANGED <<state, header, declared, frames, current, trailerLen>>
  BY DEF BaseBeforePack, Fail
<1>2. /\ result = "running" /\ state = "OffsetDeltaBase" /\ state \in Objects /\ UNCHANGED <<pack, fed>>
  BY <1>1 DEF Handle, Objects
<1>3. PICK new \in PartialObjectFrame :
              /\ new = OffsetDelta(pack[offset + 1]) /\ new.start = current.start
              /\ new.start = At(pack, Len(frames)).end /\ new.start \in Nat
              /\ AfterHeader(pack, new, offset + 1)
              /\ new.kind = OffsetKind /\ new.distance \in Nat
              /\ new.distance = Distance(pack, HeadEnd(pack, new.start), offset + 1)
  BY <1>1, OffsetByte
<1>4. BaseEndAt(pack, new.start) = offset + 1 /\ KindAt(pack, new.start) = OffsetKind
  BY <1>1, <1>3, OffsetEnds DEF AfterHeader
<1>5. ~(Distance(pack, HeadEnd(pack, new.start), BaseEndAt(pack, new.start)) <= new.start)
  BY <1>1, <1>3, <1>4
<1>6. ~ValidAt(pack, At(pack, Len(frames)).end)
  BY <1>3, <1>4, <1>5 DEF ValidAt
<1>7. /\ pack \in Packs /\ Len(pack) \in Nat /\ HeaderValid(pack)
      /\ Len(frames) \in 0 .. Declared(pack) - 1 /\ At(pack, Len(frames)).valid = TRUE
  BY <1>2, WhileScanning
<1>8. ~Valid(pack)
  BY <1>6, <1>7, NotValid
<1>9. offset' \in 0 .. fed
  BY <1>1, OffsetByte
<1> QED
  BY <1>1, <1>2, <1>8, <1>9, Fails

-----------------------------------------------------------------------------
\* Some bytes of the id of the base, all that are missing or all there are.
LEMMA FeedRefDeltaKeeps ==
  ASSUME ScannerInv, FeedRefDelta
  PROVE  ScannerInv'
<1>1. /\ result = "running" /\ state = "RefDeltaBase" /\ fed - offset > 0 /\ state \in Objects
      /\ offset' = offset + OidTake /\ UNCHANGED <<pack, fed, header, declared, frames, trailerLen>>
  BY DEF FeedRefDelta, Handle, Available, Objects
<1>2. PICK at, k, o : at = offset /\ k = Len(frames) /\ o = current
  OBVIOUS
<1>3. /\ pack \in Packs /\ Len(pack) \in Nat /\ fed \in 0 .. Len(pack) /\ at \in 0 .. fed
      /\ current # NoObject
      /\ o \in PartialObjectFrame
      /\ Placed(pack, o, at, k) /\ PartIs(pack, "RefDeltaBase", o, at)
  BY <1>1, <1>2, WhileScanning
<1>4. InOid(pack, o, at)
  BY <1>3 DEF PartIs
<1>5. PICK h : h = HeadEnd(pack, o.start)
  OBVIOUS
<1>6. Len(o.oid) = at - h /\ h \in 0 .. at /\ at - h < OidLen
  <2>1. at \in 0 .. at /\ at \in 0 .. Len(pack)
    BY <1>3
  <2>2. PICK bytes, new : bytes = Between(pack, at, at) /\ new = WithOid(o, bytes)
    OBVIOUS
  <2>3. Len(o.oid) = at - HeadEnd(pack, o.start) /\ HeadEnd(pack, o.start) \in 0 .. at
    BY <1>3, <1>4, <2>1, <2>2, OidMore
  <2> QED
    BY <1>4, <1>5, <2>3 DEF InOid
<1>7. PICK t, to : t = OidTake /\ to = at + t
  OBVIOUS
<1>8. t \in Nat /\ t <= fed - at /\ t <= OidLen - (at - h)
  <2>1. t = IF OidLen - (at - h) <= fed - at THEN OidLen - (at - h) ELSE fed - at
    BY <1>2, <1>6, <1>7 DEF OidTake, Available
  <2>2. OidLen - (at - h) \in Nat /\ fed - at \in Nat
    BY <1>3, <1>6, Widths
  <2> QED
    BY <2>1, <2>2
<1>9. to \in 0 .. fed /\ to \in 0 .. Len(pack) /\ at \in 0 .. to /\ to - h <= OidLen /\ offset' = to
      /\ to \in Nat
  <2>1. to - h <= OidLen
    BY <1>3, <1>6, <1>7, <1>8, Widths
  <2> QED
    BY <1>1, <1>2, <1>3, <1>7, <1>8, <2>1
<1>10. PICK bytes, new : bytes = Between(pack, at, to) /\ new = WithOid(o, bytes)
  OBVIOUS
<1>11. /\ new \in PartialObjectFrame /\ new.start = o.start /\ Placed(pack, new, to, k)
       /\ AfterHeader(pack, new, to) /\ new.kind = RefKind /\ Untouched(new)
       /\ new.oid = Between(pack, h, to)
       /\ Len(new.oid) = to - h
  BY <1>3, <1>4, <1>5, <1>9, <1>10, OidMore
<1>12. new = RefDelta(Input(OidTake))
  BY <1>2, <1>7, <1>10 DEF RefDelta, Input, WithOid
<1>13. IF Len(new.oid) = OidLen
       THEN Payload(new, [kind |-> RefKind, oid |-> new.oid])
       ELSE current' = new /\ Go("RefDeltaBase")
  BY <1>12 DEF FeedRefDelta
<1>14. CASE Len(new.oid) = OidLen
  <2>1. PICK encoded : encoded = [kind |-> RefKind, oid |-> new.oid]
    OBVIOUS
  <2>2. Payload(new, encoded)
    BY <1>13, <1>14, <2>1
  <2>3. RefKind # OffsetKind /\ RefKind \in Kinds
    BY DEF OffsetKind, RefKind, Kinds
  <2>4. encoded = Encoded(pack, new.start, new.kind, HeadEnd(pack, new.start), to)
    BY <1>5, <1>11, <2>1, <2>3 DEF Encoded
  <2>5. encoded \in EncodedObjectKind
    <3>1. new.oid \in Seq(Nat)
      BY <1>11 DEF PartialObjectFrame
    <3> QED
      BY <2>1, <3>1 DEF EncodedObjectKind
  <2>6. to = BaseEndAt(pack, new.start)
    <3>1. KindAt(pack, new.start) = RefKind
      BY <1>11 DEF AfterHeader
    <3>2. BaseEndAt(pack, new.start) = h + OidLen
      BY <1>5, <1>11, <2>3, <3>1 DEF BaseEndAt
    <3> QED
      BY <1>6, <1>9, <1>11, <1>14, <3>2, Widths
  <2>7. new.kind # OffsetKind
    BY <1>11, <2>3
  <2> QED
    BY <1>1, <1>2, <1>9, <1>11, <2>2, <2>4, <2>5, <2>6, <2>7, PayloadKeeps
<1>15. CASE Len(new.oid) # OidLen
  <2>1. current' = new /\ state' = "RefDeltaBase" /\ result' = "running"
    BY <1>1, <1>13, <1>15 DEF Go
  <2>2. to - h < OidLen
    BY <1>6, <1>9, <1>11, <1>15, Widths
  <2>3. PartIs(pack, "RefDeltaBase", new, to)
    BY <1>5, <1>11, <2>2 DEF PartIs, InOid
  <2>4. "RefDeltaBase" \in Objects
    BY DEF Objects
  <2> QED
    BY <1>1, <1>2, <1>9, <1>11, <2>1, <2>3, <2>4, StepsOn
<1> QED
  BY <1>14, <1>15

\* The bytes that the decompressor takes, and what it gives: the object is in its stream as far
\* as they reach.
LEMMA StreamTaken ==
  ASSUME ScannerInv, result = "running", state = "CompressedPayload",
         NEW n \in 0 .. Available, InStream(n), NEW m \in Nat, m <= Owed(n),
         NEW new, new = WithStream(current, Input(n), n, Owed(n), m, StreamEnds(n))
  PROVE  /\ offset + n \in 0 .. fed /\ offset + n \in 0 .. Len(pack)
         /\ new \in PartialObjectFrame /\ new.start = At(pack, Len(frames)).end
         /\ new.start < offset + n
         /\ Placed(pack, new, offset + n, Len(frames)) /\ InPayload(pack, new, offset + n)
         /\ new.ended = TRUE <=> StreamEnds(n)
         /\ new.owed = Owed(n) - m /\ new.out = current.out + m /\ new.size = current.size
<1>1. state \in Objects
  BY DEF Objects
<1>2. PICK p, at, k, o, to : /\ p = pack /\ at = offset /\ k = Len(frames) /\ o = current
                             /\ to = at + n
  OBVIOUS
<1>3. /\ p \in Packs /\ Len(p) \in Nat /\ fed \in 0 .. Len(p) /\ at \in 0 .. fed
      /\ current # NoObject
      /\ o \in PartialObjectFrame
      /\ Placed(p, o, at, k) /\ PartIs(p, "CompressedPayload", o, at)
  BY <1>1, <1>2, WhileScanning
<1>4. InPayload(p, o, at)
  BY <1>3 DEF PartIs
<1>5. n \in Nat /\ n <= fed - at
  BY <1>2, <1>3 DEF Available
<1>6. to \in 0 .. fed /\ to \in 0 .. Len(p) /\ at \in 0 .. to /\ n = to - at
  BY <1>2, <1>3, <1>5
<1>7. PICK bytes : bytes = Between(p, at, to)
  OBVIOUS
<1>8. Input(n) = bytes
  BY <1>2, <1>7 DEF Input
<1>9. PICK w, ends : w = Owed(n) /\ ends = StreamEnds(n)
  OBVIOUS
<1>10. w = o.owed + Inflated(bytes) /\ m <= w
  BY <1>2, <1>8, <1>9 DEF Owed
<1>11. o.ended \in BOOLEAN
  BY <1>3 DEF PartialObjectFrame
<1>12. /\ ends \in BOOLEAN
       /\ ends = TRUE <=> o.ended = TRUE \/ (n > 0 /\ ~Continues(bytes[n]))
  BY <1>2, <1>8, <1>9, <1>11 DEF StreamEnds
<1>13. /\ o.ended = TRUE => n = 0
       /\ \A j \in 1 .. n : ~Corrupt(bytes[j]) /\ (j < n => Continues(bytes[j]))
  BY <1>2, <1>8 DEF InStream
<1>14. new = WithStream(o, bytes, n, w, m, ends)
  BY <1>2, <1>8, <1>9
<1>15. /\ new \in PartialObjectFrame /\ new.start = o.start /\ Placed(p, new, to, k)
       /\ InPayload(p, new, to) /\ new.ended = ends /\ new.owed = w - m
       /\ new.out = o.out + m /\ new.size = o.size
  <2>1. OfStream(o, bytes, n, ends)
    BY <1>12, <1>13 DEF OfStream
  <2> QED
    BY <1>3, <1>4, <1>6, <1>7, <1>10, <1>14, <2>1, PayloadMore
<1>16. new.start < to /\ new.start = At(p, k).end
  BY <1>15 DEF Placed
<1>17. /\ new.ended = TRUE <=> StreamEnds(n)
       /\ new.owed = Owed(n) - m /\ new.out = current.out + m /\ new.size = current.size
  <2>1. ends = TRUE <=> StreamEnds(n)
    BY <1>9
  <2> QED
    BY <1>2, <1>9, <1>15, <2>1
<1> QED
  BY <1>2, <1>6, <1>15, <1>16, <1>17

\* One call of the decompressor: it gives what is owed, as far as the buffer has room.
LEMMA Called ==
  ASSUME ScannerInv, NEW n \in 0 .. Available, NEW m \in 0 .. OutputLen,
         Handle("CompressedPayload", n), Decompress(n, m), NEW new, new = Decompressed(n, m)
  PROVE  /\ result = "running" /\ state = "CompressedPayload" /\ state \in Objects
         /\ UNCHANGED <<pack, fed>> /\ offset' = offset + n
         /\ Owed(n) \in Nat /\ m <= Owed(n)
         /\ offset + n \in 0 .. fed /\ offset + n \in 0 .. Len(pack)
         /\ new \in PartialObjectFrame /\ new.start = At(pack, Len(frames)).end
         /\ new.start < offset + n
         /\ Placed(pack, new, offset + n, Len(frames)) /\ InPayload(pack, new, offset + n)
         /\ new.ended = TRUE <=> StreamEnds(n)
         /\ new.owed = Owed(n) - m /\ new.out = current.out + m /\ new.size = current.size
<1>1. /\ result = "running" /\ state = "CompressedPayload" /\ state \in Objects
      /\ UNCHANGED <<pack, fed>> /\ offset' = offset + n
  BY DEF Handle, Objects
<1>2. /\ InStream(n) /\ m = (IF Owed(n) <= OutputLen THEN Owed(n) ELSE OutputLen)
  BY DEF Decompress
<1>3. pack \in Packs /\ Len(pack) \in Nat /\ fed \in 0 .. Len(pack) /\ offset \in 0 .. fed
      /\ current \in PartialObjectFrame
  <2>1. current # NoObject
    BY <1>1 DEF ScannerInv, TypeOK
  <2> QED
    BY <1>1, <2>1, WhileScanning
<1>4. Owed(n) \in Nat
  <2>1. PICK at, to : at = offset /\ to = offset + n
    OBVIOUS
  <2>2. to \in 0 .. Len(pack) /\ at \in 0 .. to
    BY <1>3, <2>1 DEF Available
  <2>3. Input(n) \in Seq(Byte)
    BY <1>3, <2>1, <2>2, Slice DEF Input
  <2>4. Inflated(Input(n)) \in Nat
    BY <2>3, InflatedConcat
  <2>5. current.owed \in Nat
    BY <1>3 DEF PartialObjectFrame
  <2> QED
    BY <2>4, <2>5 DEF Owed
<1>5. m \in Nat /\ m <= Owed(n)
  BY <1>2, <1>4, Widths
<1>6. new = WithStream(current, Input(n), n, Owed(n), m, StreamEnds(n))
  BY DEF Decompressed, WithStream
<1>7. /\ offset + n \in 0 .. fed /\ offset + n \in 0 .. Len(pack)
      /\ new \in PartialObjectFrame /\ new.start = At(pack, Len(frames)).end
      /\ new.start < offset + n
      /\ Placed(pack, new, offset + n, Len(frames)) /\ InPayload(pack, new, offset + n)
      /\ new.ended = TRUE <=> StreamEnds(n)
      /\ new.owed = Owed(n) - m /\ new.out = current.out + m /\ new.size = current.size
  BY <1>1, <1>2, <1>5, <1>6, StreamTaken
<1> QED
  BY <1>1, <1>4, <1>5, <1>7

\* It is never stuck: with neither input nor output it would have met the end of the stream.
LEMMA PayloadGoesOnKeeps ==
  ASSUME ScannerInv, PayloadGoesOn
  PROVE  ScannerInv'
<1>1. PICK n \in 0 .. Available, m \in 0 .. OutputLen :
        /\ Handle("CompressedPayload", n) /\ Decompress(n, m)
        /\ EndDue(n, m) => m = OutputLen
        /\ IF n + m = 0 THEN Fail
           ELSE /\ current' = Decompressed(n, m)
                /\ Go("CompressedPayload")
                /\ UNCHANGED <<header, declared, frames, trailerLen>>
  BY DEF PayloadGoesOn
<1>2. PICK new : new = Decompressed(n, m)
  OBVIOUS
<1>3. /\ result = "running" /\ state = "CompressedPayload" /\ state \in Objects
      /\ UNCHANGED <<pack, fed>> /\ offset' = offset + n
      /\ Owed(n) \in Nat /\ m <= Owed(n)
      /\ offset + n \in 0 .. fed /\ offset + n \in 0 .. Len(pack)
      /\ new \in PartialObjectFrame
      /\ Placed(pack, new, offset + n, Len(frames)) /\ InPayload(pack, new, offset + n)
  BY <1>1, <1>2, Called
<1>4. OutputLen \in Nat /\ OutputLen > 0
  BY Widths
<1>5. n \in Nat /\ m \in Nat /\ Available > 0
  BY <1>1, <1>4 DEF Handle
<1>6. n + m # 0
  <2>1. SUFFICES ASSUME n = 0, m = 0 PROVE FALSE
    BY <1>5
  <2>2. Owed(n) = 0
    <3>1. m = IF Owed(n) <= OutputLen THEN Owed(n) ELSE OutputLen
      BY <1>1 DEF Decompress
    <3> QED
      BY <1>3, <1>4, <2>1, <3>1
  <2>3. StreamEnds(n)
    <3>1. n # Available /\ m # OutputLen
      BY <1>4, <1>5, <2>1
    <3> QED
      BY <1>1, <3>1 DEF Decompress
  <2>4. EndDue(n, m)
    BY <2>1, <2>2, <2>3 DEF EndDue
  <2> QED
    BY <1>1, <1>4, <2>1, <2>4
<1>7. /\ current' = new /\ state' = "CompressedPayload" /\ result' = "running"
      /\ UNCHANGED <<header, declared, frames, trailerLen>>
  BY <1>1, <1>2, <1>3, <1>6 DEF Go
<1>8. PICK at : at = offset + n
  OBVIOUS
<1>9. PartIs(pack, "CompressedPayload", new, at) /\ "CompressedPayload" \in Objects
  BY <1>3, <1>8 DEF PartIs, Objects
<1> QED
  BY <1>3, <1>7, <1>8, <1>9, StepsOn

\* At the end of its stream, the object is one of the parser's when it has its size.
LEMMA CalledLast ==
  ASSUME ScannerInv, NEW n \in 0 .. Available, NEW m \in 0 .. OutputLen,
         Handle("CompressedPayload", n), Decompress(n, m), EndDue(n, m),
         NEW new, new = Decompressed(n, m)
  PROVE  /\ EndAt(pack, new.start) = offset + n
         /\ ValidAt(pack, new.start) <=> current.out + m = current.size
<1>1. /\ Owed(n) \in Nat /\ m <= Owed(n)
      /\ offset + n \in 0 .. Len(pack) /\ new \in PartialObjectFrame
      /\ new.start < offset + n /\ InPayload(pack, new, offset + n)
      /\ new.ended = TRUE <=> StreamEnds(n)
      /\ new.owed = Owed(n) - m /\ new.out = current.out + m /\ new.size = current.size
  BY Called
<1>2. StreamEnds(n) /\ Owed(n) = m
  BY DEF EndDue
<1>3. new.ended = TRUE /\ new.owed = 0
  BY <1>1, <1>2
<1>4. PICK at : at = offset + n
  OBVIOUS
<1>5. at \in 0 .. Len(pack) /\ new.start < at /\ InPayload(pack, new, at)
  BY <1>1, <1>4
<1>6. pack \in Packs
  BY DEF ScannerInv, TypeOK
<1>7. EndAt(pack, new.start) = at /\ (ValidAt(pack, new.start) <=> new.out = new.size)
  BY <1>1, <1>3, <1>5, <1>6, PayloadEnded
<1> QED
  BY <1>1, <1>4, <1>7

\* The object is complete, and the parser has one object more.
LEMMA PayloadEndsKeeps ==
  ASSUME ScannerInv, PayloadEnds
  PROVE  ScannerInv'
<1>1. PICK n \in 0 .. Available, m \in 0 .. OutputLen :
        /\ Handle("CompressedPayload", n) /\ Decompress(n, m)
        /\ EndDue(n, m) /\ current.out + m = current.size
        /\ FinishFrame(Decompressed(n, m))
        /\ UNCHANGED <<header, declared, trailerLen>>
  BY DEF PayloadEnds
<1>2. PICK new, at, k : new = Decompressed(n, m) /\ at = offset + n /\ k = Len(frames)
  OBVIOUS
<1>3. /\ result = "running" /\ state = "CompressedPayload" /\ state \in Objects
      /\ UNCHANGED <<pack, fed>> /\ offset' = at
      /\ at \in 0 .. fed /\ at \in 0 .. Len(pack)
      /\ new \in PartialObjectFrame /\ new.start = At(pack, k).end /\ new.start < at
      /\ Placed(pack, new, at, k) /\ InPayload(pack, new, at)
  BY <1>1, <1>2, Called
<1>4. EndAt(pack, new.start) = at /\ ValidAt(pack, new.start)
  BY <1>1, <1>2, CalledLast
<1>5. /\ pack \in Packs /\ Len(pack) \in Nat /\ fed \in 0 .. Len(pack)
      /\ HeaderValid(pack) /\ declared = Declared(pack) /\ declared \in Nat
      /\ frames \in Seq(ObjectFrame) /\ k \in 0 .. declared - 1 /\ trailerLen = 0
      /\ At(pack, k).valid = TRUE /\ At(pack, k).frames = frames
  BY <1>2, <1>3, WhileScanning
<1>5a. new.start \in Nat /\ new.start < Len(pack)
  <2>1. PICK start : start = new.start
    OBVIOUS
  <2>2. start \in Nat
    BY <1>3, <2>1 DEF PartialObjectFrame
  <2>3. start < at /\ at \in Nat /\ at <= Len(pack) /\ Len(pack) \in Nat
    BY <1>3, <1>5, <2>1
  <2> QED
    BY <2>1, <2>2, <2>3
<1>6. PICK frame : frame = [offset |-> new.start, encoded |-> new.encoded,
                            compressedStart |-> new.compressedStart,
                            compressedLen |-> new.compressedLen, size |-> new.size,
                            crc |-> new.crc]
  OBVIOUS
<1>7. frame = FrameAt(pack, new.start)
  <2>1. new.crc = Between(pack, new.start, at)
    BY <1>3 DEF Placed
  <2> QED
    BY <1>3, <1>4, <1>5, <1>6, <2>1, PayloadFrame
<1>8. PICK found : found = Append(frames, frame)
  OBVIOUS
<1>9. /\ frames' = found /\ current' = NoObject /\ result' = "running"
      /\ state' = IF Len(found) = declared THEN "Trailer" ELSE "ObjectHeader"
  BY <1>1, <1>2, <1>3, <1>6, <1>8 DEF FinishFrame, Go
<1>10. frame \in ObjectFrame
  <2>1. new.start \in 0 .. Len(pack) - 1
    BY <1>5, <1>5a
  <2> QED
    BY <1>4, <1>5, <1>7, <2>1, FrameIs
<1>11. found \in Seq(ObjectFrame) /\ Len(found) = k + 1
  BY <1>2, <1>5, <1>8, <1>10, AppendProperties
<1>12. At(pack, k + 1) = [valid |-> TRUE, end |-> at, frames |-> found]
  <2>1. new.start < Len(pack)
    BY <1>5a
  <2>2. Goes(pack, At(pack, k))
    BY <1>3, <1>4, <1>5, <2>1 DEF Goes
  <2>3. At(pack, k + 1) = [valid |-> TRUE, end |-> EndAt(pack, At(pack, k).end),
                           frames |-> Append(At(pack, k).frames, FrameAt(pack, At(pack, k).end))]
    BY <1>5, <2>2, ScanGoesOn
  <2> QED
    BY <1>3, <1>4, <1>5, <1>7, <1>8, <2>3
<1>13. At(pack, Len(found)) = [valid |-> TRUE, end |-> at, frames |-> found]
  BY <1>11, <1>12
<1>14. /\ Len(found) \in Nat /\ Len(found) <= declared
       /\ (Len(found) # declared => Len(found) < declared)
  BY <1>5, <1>11
<1>15. state' \in {"Trailer", "ObjectHeader"} /\ (state' = "Trailer" <=> Len(found) = declared)
  BY <1>9
<1>16. UNCHANGED <<pack, fed, header, declared, trailerLen>>
  BY <1>1, <1>3
<1>17. TypeOK'
  <2>1. TypeOK
    BY DEF ScannerInv
  <2>2. /\ (pack \in Packs)' /\ (fed \in 0 .. Len(pack))' /\ (Len(header) <= HeaderLen)'
        /\ (declared \in Nat \cup {None})' /\ (trailerLen \in Nat)'
    BY <1>16, <2>1 DEF TypeOK
  <2>3. /\ (offset \in 0 .. fed)' /\ (frames \in Seq(ObjectFrame))'
        /\ (result \in {"running", "ok", "err"})'
    BY <1>3, <1>9, <1>11, <1>16
  <2>4. (state \in ScannerState)' /\ state' \notin {"OffsetDeltaBase", "RefDeltaBase", "CompressedPayload"}
    BY <1>15 DEF ScannerState
  <2> QED
    BY <1>9, <2>2, <2>3, <2>4 DEF TypeOK
<1>18. HeaderInv'
  BY <1>15 DEF HeaderInv
<1>19. FoundInv'
  <2>1. 0 <= TrailerLen /\ trailerLen' = 0
    BY <1>5, <1>16, Widths
  <2>2. (HeaderValid(pack) /\ declared = Declared(pack))'
    BY <1>5, <1>16
  <2>3. (At(pack, Len(frames)).valid = TRUE /\ At(pack, Len(frames)).frames = frames)'
    BY <1>9, <1>13, <1>16
  <2>4. Len(frames') <= declared' /\ (Len(frames') # declared' => Len(frames') < declared')
    BY <1>9, <1>14, <1>16
  <2> QED
    BY <1>9, <1>15, <1>16, <2>1, <2>2, <2>3, <2>4 DEF FoundInv
<1>20. PlaceInv'
  <2>1. (offset = At(pack, Len(frames)).end)'
    BY <1>3, <1>9, <1>13, <1>16
  <2>2. (offset = At(pack, Len(frames)).end + trailerLen)'
    <3>1. at + 0 = at
      BY <1>3
    <3> QED
      BY <1>3, <1>5, <1>9, <1>13, <1>16, <3>1
  <2> QED
    BY <1>9, <2>1, <2>2 DEF PlaceInv
<1>21. AcceptsValidPacks'
  BY <1>9 DEF AcceptsValidPacks
<1> QED
  BY <1>17, <1>18, <1>19, <1>20, <1>21 DEF ScannerInv

\* The stream gives more or less than the header says: the parser rejects the object.
LEMMA WrongSizeKeeps ==
  ASSUME ScannerInv, WrongSize
  PROVE  ScannerInv'
<1>1. PICK n \in 0 .. Available, m \in 0 .. OutputLen :
        /\ Handle("CompressedPayload", n) /\ Decompress(n, m)
        /\ EndDue(n, m) /\ current.out + m # current.size /\ Fail
  BY DEF WrongSize
<1>2. PICK new : new = Decompressed(n, m)
  OBVIOUS
<1>3. /\ result = "running" /\ state \in Objects /\ UNCHANGED <<pack, fed>>
      /\ offset' = offset + n /\ offset + n \in 0 .. fed
      /\ new.start = At(pack, Len(frames)).end
  BY <1>1, <1>2, Called
<1>4. ~ValidAt(pack, At(pack, Len(frames)).end)
  BY <1>1, <1>2, <1>3, CalledLast
<1>5. /\ pack \in Packs /\ HeaderValid(pack)
      /\ Len(frames) \in 0 .. Declared(pack) - 1 /\ At(pack, Len(frames)).valid = TRUE
  BY <1>3, WhileScanning
<1>6. ~Valid(pack)
  BY <1>4, <1>5, NotValid
<1>7. /\ result' = "err" /\ UNCHANGED <<state, header, declared, frames, current, trailerLen>>
  BY <1>1 DEF Fail
<1> QED
  BY <1>3, <1>6, <1>7, Fails

\* The byte that breaks the stream is one of those that the parser would give to it.
LEMMA CorruptPayloadKeeps ==
  ASSUME ScannerInv, CorruptPayload
  PROVE  ScannerInv'
<1>1. PICK n \in 0 .. Available - 1 :
        /\ Handle("CompressedPayload", 0) /\ InStream(n) /\ ~StreamEnds(n)
        /\ Corrupt(pack[offset + n + 1]) /\ Fail
  BY DEF CorruptPayload
<1>2. /\ result = "running" /\ state = "CompressedPayload" /\ state \in Objects
      /\ UNCHANGED <<pack, fed>> /\ offset' = offset + 0
  BY <1>1 DEF Handle, Objects
<1>3. /\ pack \in Packs /\ Len(pack) \in Nat /\ fed \in 0 .. Len(pack) /\ offset \in 0 .. fed
      /\ HeaderValid(pack) /\ declared = Declared(pack)
      /\ Len(frames) \in 0 .. declared - 1
      /\ At(pack, Len(frames)).valid = TRUE /\ At(pack, Len(frames)).end \in 3 .. Len(pack)
  BY <1>2, WhileScanning
<1>4. current \in PartialObjectFrame
  <2>1. current # NoObject
    BY <1>2 DEF ScannerInv, TypeOK
  <2> QED
    BY <1>2, <2>1, WhileScanning
<1>5. n \in 0 .. Available /\ offset + n < fed /\ offset' = offset /\ n \in Nat
  BY <1>1, <1>2, <1>3 DEF Available
<1>6. Owed(n) \in Nat /\ 0 \in Nat /\ 0 <= Owed(n)
  <2>1. PICK at, to : at = offset /\ to = offset + n
    OBVIOUS
  <2>2. to \in 0 .. Len(pack) /\ at \in 0 .. to
    BY <1>3, <1>5, <2>1
  <2>3. Input(n) \in Seq(Byte)
    BY <1>3, <2>1, <2>2, Slice DEF Input
  <2>4. Inflated(Input(n)) \in Nat
    BY <2>3, InflatedConcat
  <2>5. current.owed \in Nat
    BY <1>4 DEF PartialObjectFrame
  <2> QED
    BY <2>4, <2>5 DEF Owed
<1>7. PICK new, at : /\ new = WithStream(current, Input(n), n, Owed(n), 0, StreamEnds(n))
                     /\ at = offset + n
  OBVIOUS
<1>8. /\ at \in 0 .. Len(pack) /\ new \in PartialObjectFrame
      /\ new.start = At(pack, Len(frames)).end /\ new.start < at
      /\ InPayload(pack, new, at)
      /\ new.ended = TRUE <=> StreamEnds(n)
  BY <1>1, <1>2, <1>5, <1>6, <1>7, StreamTaken
<1>9. PICK s, b : s = new.start /\ b = BaseEndAt(pack, s)
  OBVIOUS
<1>10. new.ended = FALSE
  <2>1. new.ended \in BOOLEAN
    BY <1>8 DEF PartialObjectFrame
  <2> QED
    BY <1>1, <1>8, <2>1
<1>11. /\ GoesOn(pack, b, at - 1) /\ b <= at /\ (b < at => Continues(pack[at]))
       /\ KindAt(pack, s) \in Kinds /\ HeadEnd(pack, s) <= at
  BY <1>8, <1>9, <1>10 DEF InPayload, Based, AfterHeader
<1>12. /\ s \in 0 .. Len(pack) - 1 /\ at < fed /\ at < Len(pack) /\ at \in Nat
  BY <1>3, <1>5, <1>7, <1>8, <1>9 DEF PartialObjectFrame
<1>13. b \in 0 .. at
  <2>1. HeadEnd(pack, s) \in Nat
    <3>1. s \in 0 .. Len(pack)
      BY <1>3, <1>12
    <3>2. VarintEnd(pack, s) \in s + 1 .. Len(pack) + 1
      BY <1>3, <3>1, VarintFacts
    <3> QED
      BY <1>3, <1>12, <3>2 DEF HeadEnd
  <2>2. HeadEnd(pack, s) <= Len(pack)
    BY <1>3, <1>11, <1>12, <2>1
  <2>3. b \in Nat
    BY <1>3, <1>9, <1>11, <1>12, <2>2, BasePlace
  <2> QED
    BY <1>11, <1>12, <2>3
<1>14. GoesOn(pack, b, at)
  <2>1. \A j \in b + 1 .. at : j \in b + 1 .. at - 1 \/ (j = at /\ b < at)
    BY <1>12, <1>13
  <2> QED
    BY <1>11, <2>1 DEF GoesOn
<1>15. PICK e : e = EndAt(pack, s)
  OBVIOUS
<1>16. e > at /\ e \in b + 1 .. Len(pack) + 1
  <2>1. b \in 0 .. Len(pack) /\ at \in b .. Len(pack)
    BY <1>3, <1>12, <1>13
  <2>2. e = VarintEnd(pack, b)
    BY <1>9, <1>15 DEF EndAt
  <2> QED
    BY <1>3, <1>14, <2>1, <2>2, VarintPast, VarintFacts
<1>17. at + 1 \in b + 1 .. e /\ Corrupt(pack[at + 1])
  <2>1. at + 1 \in b + 1 .. e
    BY <1>3, <1>12, <1>13, <1>16
  <2> QED
    BY <1>1, <1>7, <2>1
<1>18. ~ValidAt(pack, s)
  BY <1>9, <1>15, <1>17 DEF ValidAt
<1>19. ~Valid(pack)
  BY <1>3, <1>8, <1>9, <1>18, NotValid
<1>20. /\ result' = "err" /\ UNCHANGED <<state, header, declared, frames, current, trailerLen>>
       /\ offset' \in 0 .. fed
  BY <1>1, <1>3, <1>5 DEF Fail
<1> QED
  BY <1>2, <1>19, <1>20, Fails

-----------------------------------------------------------------------------
\* Every handler keeps the invariant.
LEMMA ScannerSteps == ScannerInv /\ [Next]_vars => ScannerInv'
<1> SUFFICES ASSUME ScannerInv, [Next]_vars PROVE ScannerInv'
  OBVIOUS
<1>1. CASE Feed
  BY <1>1, FeedKeeps
<1>2. CASE CollectPackHeader \/ AcceptPackHeader \/ RejectPackHeader
  BY <1>2, CollectPackHeaderKeeps, AcceptPackHeaderKeeps, RejectPackHeaderKeeps
<1>3. CASE ObjectHeaderGoesOn \/ ObjectHeaderEnds \/ UnknownKind
  BY <1>3, ObjectHeaderGoesOnKeeps, ObjectHeaderEndsKeeps, UnknownKindKeeps
<1>4. CASE OffsetDeltaGoesOn \/ OffsetDeltaEnds \/ BaseBeforePack
  BY <1>4, OffsetDeltaGoesOnKeeps, OffsetDeltaEndsKeeps, BaseBeforePackKeeps
<1>5. CASE FeedRefDelta
  BY <1>5, FeedRefDeltaKeeps
<1>6. CASE PayloadGoesOn \/ PayloadEnds \/ WrongSize \/ CorruptPayload
  BY <1>6, PayloadGoesOnKeeps, PayloadEndsKeeps, WrongSizeKeeps, CorruptPayloadKeeps
<1>7. CASE FeedTrailer \/ TrailerTooLong
  BY <1>7, FeedTrailerKeeps, TrailerTooLongKeeps
<1>8. CASE Finish
  BY <1>8, FinishKeeps
<1>9. CASE Done
  BY <1>9, Stutters DEF Done
<1>10. CASE UNCHANGED vars
  BY <1>10, Stutters
<1> QED
  BY <1>1, <1>2, <1>3, <1>4, <1>5, <1>6, <1>7, <1>8, <1>9, <1>10 DEF Next

\* So it holds at every step.
LEMMA ScannerAlways == Spec => []ScannerInv
BY Starts, ScannerSteps, PTL DEF Spec

\* The state of the scanner is always one of those that its types allow: its offset never runs
\* past what it was given, and in a state that needs an object it has one.
THEOREM TypesCorrect == Spec => []TypeOK
<1>1. ScannerInv => TypeOK
  BY DEF ScannerInv
<1> QED
  BY <1>1, ScannerAlways, PTL

\* For every pack and however feed cuts it, the frames found so far are the first of those that
\* scan_pack finds in the whole pack.
THEOREM FramesCorrect == Spec => []FramesAreThePacks
<1>1. ScannerInv => FramesAreThePacks
  <2> SUFFICES ASSUME ScannerInv, HeaderValid(pack)
               PROVE  IsPrefix(frames, Scan(pack).frames)
    BY DEF FramesAreThePacks
  <2>1. pack \in Packs /\ frames \in Seq(ObjectFrame)
    BY DEF ScannerInv, TypeOK
  <2>2. CASE state = "PackHeader"
    <3>1. frames = <<>> /\ 0 \in 0 .. Declared(pack)
      BY <2>1, <2>2, HeaderFacts DEF ScannerInv, HeaderInv
    <3>2. At(pack, 0).frames = <<>>
      BY <2>1, ScanIs DEF ScanStart
    <3>3. IsPrefix(At(pack, 0).frames, Scan(pack).frames)
      BY <2>1, <3>1, FoundFirst
    <3> QED
      BY <3>1, <3>2, <3>3
  <2>3. CASE state # "PackHeader"
    <3>1. /\ declared = Declared(pack) /\ Len(frames) <= declared
          /\ At(pack, Len(frames)).frames = frames
      BY <2>3 DEF ScannerInv, FoundInv
    <3>2. Len(frames) \in 0 .. Declared(pack)
      BY <2>1, <3>1, HeaderFacts, LenProperties
    <3>3. IsPrefix(At(pack, Len(frames)).frames, Scan(pack).frames)
      BY <2>1, <3>2, FoundFirst
    <3> QED
      BY <3>1, <3>3
  <2> QED
    BY <2>2, <2>3
<1> QED
  BY <1>1, ScannerAlways, PTL

\* For every pack and however feed cuts it, finish accepts the pack exactly when scan_pack does,
\* and then with all its frames.
THEOREM AcceptsCorrect == Spec => []AcceptsValidPacks
<1>1. ScannerInv => AcceptsValidPacks
  BY DEF ScannerInv
<1> QED
  BY <1>1, ScannerAlways, PTL
=============================================================================

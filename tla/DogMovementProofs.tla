------------------------- MODULE DogMovementProofs -------------------------
(***************************************************************************)
(* Proofs about RoadIndex and DogMovement, for all maps, widths of roads   *)
(* and ways: the index answers what the roads would, and a dog stays       *)
(* beside the roads, is never stranded and only moves ahead.               *)
(*                                                                         *)
(* What the loop of MergeFragments does to every line is proved without an *)
(* induction rule: the least number of rounds after which it would have    *)
(* gone wrong does not exist.                                              *)
(***************************************************************************)
EXTENDS DogMovement, FiniteSetTheorems, SequenceTheorems, WellFoundedInduction, TLAPS

FragmentType == [first : Int, second : Int]

(* What comes from the roads of a line.                                    *)
IsLine(fragments) ==
    /\ IsFiniteSet(fragments)
    /\ \A f \in fragments : f \in FragmentType /\ f.first <= f.second

-----------------------------------------------------------------------------
(* Sets of numbers have least members.                                     *)

LEMMA LeastNat ==
  ASSUME NEW S, S \subseteq Nat, S # {}
  PROVE  \E least \in S : \A n \in S : least <= n
  <1>1. PICK least \in S : \A n \in S : ~ (<<n, least>> \in OpToRel(<, Nat))
    BY WFMin, NatLessThanWellFounded
  <1>2. least \in Nat /\ \A n \in Nat : n \in S => ~ (n < least)
    BY <1>1 DEF OpToRel
  <1> QED
    BY <1>2

(* What holds at first and is kept from each number to the next holds up   *)
(* to the bound; Bad is where it does not.                                 *)
LEMMA NoneIsBad ==
  ASSUME NEW bound \in Nat, NEW Bad, Bad \subseteq 0 .. bound,
         0 \notin Bad, \A n \in 1 .. bound : n \in Bad => n - 1 \in Bad
  PROVE  Bad = {}
  <1> SUFFICES ASSUME Bad # {} PROVE FALSE
    OBVIOUS
  <1>1. PICK least \in Bad : \A n \in Bad : least <= n
    <2>1. Bad \subseteq Nat
      OBVIOUS
    <2> QED
      BY <2>1, LeastNat
  <1>2. least \in 1 .. bound
    BY <1>1
  <1> QED
    BY <1>1, <1>2

LEMMA LeastExists ==
  ASSUME NEW S, S \subseteq Int, S # {}, NEW low \in Int, \A n \in S : low <= n
  PROVE  LeastOf(S) \in S /\ \A n \in S : LeastOf(S) <= n
  <1> DEFINE above == {n - low : n \in S}
  <1>1. above \subseteq Nat /\ above # {}
    <2>1. ASSUME NEW n \in S
          PROVE  n - low \in Nat
      OBVIOUS
    <2> QED
      BY <2>1
  <1>2. PICK least \in above : \A n \in above : least <= n
    BY <1>1, LeastNat
  <1>3. PICK m \in S : least = m - low
    BY <1>2
  <1>4. ASSUME NEW n \in S
        PROVE  m <= n
    <2>1. n \in Int /\ m \in Int /\ m - low <= n - low
      BY <1>2, <1>3
    <2> QED
      BY <2>1
  <1> QED
    BY <1>4 DEF LeastOf

LEMMA GreatestExists ==
  ASSUME NEW S, S \subseteq Int, S # {}, NEW high \in Int, \A n \in S : n <= high
  PROVE  GreatestOf(S) \in S /\ \A n \in S : n <= GreatestOf(S)
  <1> DEFINE below == {high - n : n \in S}
  <1>1. below \subseteq Nat /\ below # {}
    <2>1. ASSUME NEW n \in S
          PROVE  high - n \in Nat
      OBVIOUS
    <2> QED
      BY <2>1
  <1>2. PICK least \in below : \A n \in below : least <= n
    BY <1>1, LeastNat
  <1>3. PICK m \in S : least = high - m
    BY <1>2
  <1>4. ASSUME NEW n \in S
        PROVE  m >= n /\ n <= m
    <2>1. n \in Int /\ m \in Int /\ high - m <= high - n
      BY <1>2, <1>3
    <2> QED
      BY <2>1
  <1> QED
    BY <1>4 DEF GreatestOf

-----------------------------------------------------------------------------
(* The fragments of a line in order.                                       *)

LEMMA FiniteIsBounded ==
  ASSUME NEW numbers \in SUBSET Int, IsFiniteSet(numbers)
  PROVE  \E high \in Int : \A n \in numbers : n <= high
  <1> DEFINE Bounded(S) == \E high \in Int : \A n \in S : n <= high
             size == Cardinality(numbers)
             Bad == {c \in 0 .. size : \E S \in SUBSET numbers : Cardinality(S) = c /\ ~ Bounded(S)}
  <1>1. size \in Nat /\ \A S \in SUBSET numbers : IsFiniteSet(S) /\ Cardinality(S) \in Nat
    BY FS_CardinalityType, FS_Subset
  <1>2. 0 \notin Bad
    <2> SUFFICES ASSUME NEW S \in SUBSET numbers, Cardinality(S) = 0
                 PROVE  Bounded(S)
      OBVIOUS
    <2>1. S = {}
      BY <1>1, FS_EmptySet
    <2> QED
      BY <2>1
  <1>3. ASSUME NEW c \in 1 .. size, c - 1 \notin Bad, NEW S \in SUBSET numbers, Cardinality(S) = c
        PROVE  Bounded(S)
    <2>1. PICK x \in S : TRUE
      <3>1. IsFiniteSet(S) /\ Cardinality(S) # 0
        BY <1>1, <1>3
      <3> QED
        BY <3>1, FS_EmptySet
    <2>2. Cardinality(S \ {x}) = c - 1 /\ S \ {x} \in SUBSET numbers
      BY <1>1, <1>3, FS_RemoveElement
    <2>3. PICK high \in Int : \A n \in S \ {x} : n <= high
      BY <1>1, <1>3, <2>2
    <2>4. x \in Int
      OBVIOUS
    <2>5. \A n \in S : n <= Greater(x, high)
      BY <2>3, <2>4 DEF Greater
    <2> QED
      BY <2>4, <2>5 DEF Greater
  <1>4. \A c \in 1 .. size : c \in Bad => c - 1 \in Bad
    BY <1>3
  <1>5. Bad = {}
    <2> HIDE DEF Bad
    <2>1. Bad \subseteq 0 .. size
      BY DEF Bad
    <2> QED
      BY <1>1, <1>2, <1>4, <2>1, NoneIsBad
  <1> QED
    BY <1>1, <1>5


(* A line is put in order by taking the fragment that begins last from it. *)
LEMMA OrderExists ==
  ASSUME NEW fragments, IsLine(fragments)
  PROVE  \E s \in [1 .. Cardinality(fragments) -> fragments] :
            IsSorted(s) /\ \A f \in fragments : \E i \in DOMAIN s : s[i] = f
  <1> DEFINE Ordered(S, s) ==
                /\ s \in [1 .. Cardinality(S) -> S]
                /\ IsSorted(s) /\ \A f \in S : \E i \in DOMAIN s : s[i] = f
             size == Cardinality(fragments)
             Bad == {n \in 0 .. size : \E S \in SUBSET fragments :
                        Cardinality(S) = n /\ ~ \E s : Ordered(S, s)}
  <1>1. size \in Nat /\ \A S \in SUBSET fragments : IsFiniteSet(S) /\ Cardinality(S) \in Nat
    BY FS_CardinalityType, FS_Subset DEF IsLine
  <1>2. 0 \notin Bad
    <2> SUFFICES ASSUME NEW S \in SUBSET fragments, Cardinality(S) = 0
                 PROVE  \E s : Ordered(S, s)
      BY <1>1
    <2>1. S = {}
      BY <1>1, FS_EmptySet
    <2>2. Ordered(S, [i \in 1 .. 0 |-> i])
      BY <2>1 DEF IsSorted
    <2> QED
      BY <2>2
  <1>3. ASSUME NEW n \in 1 .. size, n - 1 \notin Bad, NEW S \in SUBSET fragments, Cardinality(S) = n
        PROVE  \E s : Ordered(S, s)
    <2>1. S # {}
      BY <1>1, <1>3, FS_EmptySet
    <2>2. PICK last \in S : \A f \in S : f.first <= last.first
      <3> DEFINE begins == {f.first : f \in S}
      <3>1. begins \subseteq Int /\ begins # {} /\ IsFiniteSet(begins)
        <4> DEFINE begin == [f \in S |-> f.first]
        <4>1. IsFiniteSet(begins)
          <5>1. begin \in Surjection(S, begins)
            BY DEF Surjection
          <5> QED
            BY <1>1, <5>1, FS_Surjection
        <4> QED
          BY <2>1, <4>1 DEF IsLine, FragmentType
      <3>2. PICK high \in Int : \A b \in begins : b <= high
        BY <3>1, FiniteIsBounded
      <3>3. GreatestOf(begins) \in begins /\ \A b \in begins : b <= GreatestOf(begins)
        BY <3>1, <3>2, GreatestExists
      <3>4. PICK latest \in S : latest.first = GreatestOf(begins)
        BY <3>3
      <3> QED
        BY <3>3, <3>4
    <2>3. IsFiniteSet(S \ {last}) /\ Cardinality(S \ {last}) = n - 1
      BY <1>1, <1>3, FS_RemoveElement
    <2>4. PICK s : Ordered(S \ {last}, s)
      <3>1. n - 1 \in 0 .. size /\ S \ {last} \in SUBSET fragments
        BY <1>1
      <3> QED
        BY <1>3, <2>3, <3>1
    <2> DEFINE t == [i \in 1 .. n |-> IF i = n THEN last ELSE s[i]]
    <2>5. Ordered(S, t)
      <3>1. /\ s \in [1 .. n - 1 -> S \ {last}] /\ IsSorted(s)
            /\ \A f \in S \ {last} : \E i \in 1 .. n - 1 : s[i] = f
        BY <2>3, <2>4
      <3>2. t \in [1 .. n -> S]
        BY <3>1
      <3>3. \A f \in S : \E i \in 1 .. n : t[i] = f
        BY <3>1
      <3>4. ASSUME NEW i \in 1 .. n, NEW j \in 1 .. n, i < j
            PROVE  t[i].first <= t[j].first
        <4>1. t[i] = s[i] /\ s[i] \in S
          BY <3>1, <3>4
        <4>2. CASE j = n
          BY <2>2, <4>1, <4>2
        <4>3. CASE j # n
          BY <3>1, <3>4, <4>3 DEF IsSorted
        <4> QED
          BY <4>2, <4>3
      <3> HIDE DEF t
      <3> QED
        BY <1>3, <3>2, <3>3, <3>4 DEF IsSorted
    <2> QED
      BY <2>5
  <1>4. \A n \in 1 .. size : n \in Bad => n - 1 \in Bad
    BY <1>3
  <1>5. Bad = {}
    <2> HIDE DEF Bad
    <2>1. Bad \subseteq 0 .. size
      BY DEF Bad
    <2> QED
      BY <1>1, <1>2, <1>4, <2>1, NoneIsBad
  <1> QED
    BY <1>1, <1>5
(* What Sorted answers, and with it MergeFragments goes through.           *)
LEMMA SortedFacts ==
  ASSUME NEW fragments, IsLine(fragments)
  PROVE  /\ Cardinality(fragments) \in Nat
         /\ Sorted(fragments) \in [1 .. Cardinality(fragments) -> fragments]
         /\ \A i, j \in 1 .. Cardinality(fragments) :
               i < j => Sorted(fragments)[i].first <= Sorted(fragments)[j].first
         /\ \A f \in fragments : \E i \in 1 .. Cardinality(fragments) : Sorted(fragments)[i] = f
  <1>1. Cardinality(fragments) \in Nat
    BY FS_CardinalityType DEF IsLine
  <1>2. /\ Sorted(fragments) \in [1 .. Cardinality(fragments) -> fragments]
        /\ IsSorted(Sorted(fragments))
        /\ \A f \in fragments : \E i \in DOMAIN Sorted(fragments) : Sorted(fragments)[i] = f
    BY OrderExists DEF Sorted
  <1> QED
    BY <1>1, <1>2 DEF IsSorted

-----------------------------------------------------------------------------
(* The loop of MergeFragments, over fragments s in order.                  *)

Merging(s, size, merged) ==
    merged = [n \in 0 .. size |-> IF n = 0 THEN <<>> ELSE MergeStep(merged[n - 1], s[n])]

(* The recursion has a solution: the rounds up to n extend those before.   *)
LEMMA MergingExists ==
  ASSUME NEW s, NEW size \in Nat
  PROVE  \E merged : Merging(s, size, merged)
  <1> DEFINE Bad == {n \in 0 .. size : ~ \E merged : Merging(s, n, merged)}
  <1>1. 0 \notin Bad
    <2>1. Merging(s, 0, [n \in 0 .. 0 |-> <<>>])
      BY DEF Merging
    <2> QED
      BY <2>1
  <1>2. ASSUME NEW n \in 1 .. size, n - 1 \notin Bad
        PROVE  n \notin Bad
    <2>1. PICK before : Merging(s, n - 1, before)
      BY <1>2
    <2> DEFINE after == [k \in 0 .. n |-> IF k = n THEN MergeStep(before[n - 1], s[n]) ELSE before[k]]
    <2>2. ASSUME NEW k \in 0 .. n
          PROVE  after[k] = IF k = 0 THEN <<>> ELSE MergeStep(after[k - 1], s[k])
      <3>1. CASE k = n
        BY <3>1
      <3>2. CASE k # n
        <4>1. k \in 0 .. n - 1 /\ after[k] = before[k]
          BY <3>2
        <4>2. before[k] = IF k = 0 THEN <<>> ELSE MergeStep(before[k - 1], s[k])
          BY <2>1, <4>1 DEF Merging
        <4>3. k # 0 => k - 1 \in 0 .. n /\ k - 1 # n /\ after[k - 1] = before[k - 1]
          BY <4>1
        <4> QED
          BY <4>1, <4>2, <4>3
      <3> QED
        BY <3>1, <3>2
    <2>3. Merging(s, n, after)
      <3> HIDE DEF after
      <3>1. after = [k \in 0 .. n |-> after[k]]
        BY DEF after
      <3> QED
        BY <2>2, <3>1 DEF Merging
    <2> QED
      BY <2>3
  <1>3. Bad = {}
    <2>1. \A n \in 1 .. size : n \in Bad => n - 1 \in Bad
      BY <1>2
    <2>2. Bad \subseteq 0 .. size
      OBVIOUS
    <2> HIDE DEF Bad
    <2> QED
      BY <1>1, <2>1, <2>2, NoneIsBad
  <1> QED
    BY <1>3

(* What m has become of the first n fragments of s: fragments that do not  *)
(* touch, in order; none of s is left out; and every coordinate, and every *)
(* stretch from one coordinate to the next, of m comes from one of s.      *)
Apart(m) ==
    /\ m \in Seq(FragmentType)
    /\ \A j \in 1 .. Len(m) : m[j].first <= m[j].second
    /\ \A j, k \in 1 .. Len(m) : j < k => m[j].second < m[k].first

Covers(m, s, n) ==
    \A i \in 1 .. n : \E j \in 1 .. Len(m) :
        m[j].first <= s[i].first /\ s[i].second <= m[j].second

MadeOf(m, s, n) ==
    \A j \in 1 .. Len(m) :
        /\ \A c \in m[j].first .. m[j].second :
              \E i \in 1 .. n : s[i].first <= c /\ c <= s[i].second
        /\ \A c \in m[j].first .. m[j].second - 1 :
              \E i \in 1 .. n : s[i].first <= c /\ c + 1 <= s[i].second

Merged(m, s, n) ==
    /\ Apart(m) /\ Covers(m, s, n) /\ MadeOf(m, s, n)
    /\ n > 0 => m # <<>> /\ m[Len(m)].first <= s[n].first

LEMMA MergeStepFacts ==
  ASSUME NEW m, NEW s, NEW n \in Nat, Merged(m, s, n),
         \A i \in 1 .. n + 1 : s[i] \in FragmentType /\ s[i].first <= s[i].second,
         n > 0 => s[n].first <= s[n + 1].first
  PROVE  Merged(MergeStep(m, s[n + 1]), s, n + 1)
  <1> DEFINE f == s[n + 1]
             last == m[Len(m)]
             r == MergeStep(m, f)
  <1>1. m \in Seq(FragmentType) /\ Len(m) \in Nat
    BY DEF Merged, Apart
  <1>2. f \in FragmentType /\ f.first \in Int /\ f.second \in Int /\ f.first <= f.second
    BY DEF FragmentType
  <1>3. ASSUME NEW j \in 1 .. Len(m)
        PROVE  m[j] \in FragmentType /\ m[j].first \in Int /\ m[j].second \in Int
    <2>1. m[j] \in FragmentType
      BY <1>1
    <2> QED
      BY <2>1 DEF FragmentType
  <1>4. CASE m = <<>> \/ f.first > last.second
    <2>1. r = Append(m, f)
      BY <1>4 DEF MergeStep
    <2>2. /\ r \in Seq(FragmentType) /\ Len(r) = Len(m) + 1
          /\ \A j \in 1 .. Len(m) : r[j] = m[j]
          /\ r[Len(m) + 1] = f
      BY <1>1, <1>2, <2>1
    <2>3. Apart(r)
      <3>1. ASSUME NEW j \in 1 .. Len(m)
            PROVE  m[j].second < f.first
        <4>1. m[j].second <= last.second
          <5>1. CASE j = Len(m)
            BY <1>3, <3>1, <5>1
          <5>2. CASE j # Len(m)
            BY <1>1, <1>3, <3>1, <5>2 DEF Merged, Apart
          <5> QED
            BY <5>1, <5>2
        <4>2. m # <<>>
          BY <3>1
        <4> QED
          BY <1>1, <1>2, <1>3, <1>4, <4>1, <4>2
      <3> HIDE DEF r, f
      <3>2. \A j \in 1 .. Len(r) : r[j].first <= r[j].second
        BY <1>1, <1>2, <2>2 DEF Merged, Apart
      <3>3. \A j, k \in 1 .. Len(r) : j < k => r[j].second < r[k].first
        BY <1>1, <2>2, <3>1 DEF Merged, Apart
      <3> QED
        BY <2>2, <3>2, <3>3 DEF Apart
    <2>4. Covers(r, s, n + 1)
      <3> SUFFICES ASSUME NEW i \in 1 .. n + 1
                   PROVE  \E j \in 1 .. Len(r) : r[j].first <= s[i].first /\ s[i].second <= r[j].second
        BY DEF Covers
      <3> HIDE DEF r, f
      <3>1. CASE i = n + 1
        <4>1. Len(m) + 1 \in 1 .. Len(r) /\ r[Len(m) + 1] = s[i]
          BY <1>1, <2>2, <3>1 DEF f
        <4>2. s[i].first \in Int /\ s[i].second \in Int
          BY <1>2, <3>1 DEF f
        <4> QED
          BY <4>1, <4>2
      <3>2. CASE i # n + 1
        <4>1. i \in 1 .. n
          BY <3>2
        <4>2. PICK j \in 1 .. Len(m) : m[j].first <= s[i].first /\ s[i].second <= m[j].second
          BY <4>1 DEF Merged, Covers
        <4>3. j \in 1 .. Len(r) /\ r[j] = m[j]
          BY <1>1, <2>2
        <4> QED
          BY <4>2, <4>3
      <3> QED
        BY <3>1, <3>2
    <2>5. MadeOf(r, s, n + 1)
      <3> SUFFICES ASSUME NEW j \in 1 .. Len(r)
                   PROVE  /\ \A c \in r[j].first .. r[j].second :
                                \E i \in 1 .. n + 1 : s[i].first <= c /\ c <= s[i].second
                          /\ \A c \in r[j].first .. r[j].second - 1 :
                                \E i \in 1 .. n + 1 : s[i].first <= c /\ c + 1 <= s[i].second
        BY DEF MadeOf
      <3>1. CASE j = Len(m) + 1
        BY <1>2, <2>2, <3>1
      <3>2. CASE j # Len(m) + 1
        BY <1>1, <2>2, <3>2 DEF Merged, MadeOf
      <3> QED
        BY <3>1, <3>2
    <2> QED
      BY <1>1, <1>2, <2>2, <2>3, <2>4, <2>5 DEF Merged
  <1>5. CASE ~ (m = <<>> \/ f.first > last.second)
    <2> DEFINE end == Greater(last.second, f.second)
    <2>1. Len(m) \in 1 .. Len(m) /\ last \in FragmentType
      BY <1>1, <1>3, <1>5
    <2>2. end \in Int /\ last.second <= end /\ f.second <= end /\ end \in {last.second, f.second}
      BY <1>2, <1>3, <2>1 DEF Greater
    <2>3. r = [m EXCEPT ![Len(m)].second = end]
      BY <1>5 DEF MergeStep
    <2>4. /\ r \in Seq(FragmentType) /\ Len(r) = Len(m)
          /\ \A j \in 1 .. Len(m) - 1 : r[j] = m[j]
          /\ r[Len(m)].first = last.first /\ r[Len(m)].second = end
      <3>1. [last EXCEPT !.second = end] \in FragmentType
        BY <2>1, <2>2 DEF FragmentType
      <3>2. r = [m EXCEPT ![Len(m)] = [last EXCEPT !.second = end]]
        BY <2>3
      <3>3. /\ [last EXCEPT !.second = end].first = last.first
            /\ [last EXCEPT !.second = end].second = end
        BY <2>1 DEF FragmentType
      <3> QED
        BY <1>1, <2>1, <3>1, <3>2, <3>3
    <2>5. last.first <= f.first /\ f.first <= last.second
      <3>1. CASE n = 0
        <4>1. 1 \in 1 .. Len(m) /\ m[1].first \in m[1].first .. m[1].second
          BY <1>1, <1>3, <1>5 DEF Merged, Apart
        <4> QED
          BY <3>1, <4>1 DEF Merged, MadeOf
      <3>2. CASE n > 0
        BY <1>2, <1>5, <2>1, <3>2 DEF Merged, FragmentType
      <3> QED
        BY <3>1, <3>2
    <2>6. Apart(r)
      <3> HIDE DEF r, end
      <3>1. last.first <= last.second
        BY <2>1 DEF Merged, Apart
      <3>2. ASSUME NEW j \in 1 .. Len(r)
            PROVE  r[j].first <= r[j].second
        <4>1. CASE j = Len(m)
          <5>1. last.first \in Int /\ last.second \in Int
            BY <1>3, <2>1
          <5> QED
            BY <2>2, <2>4, <3>1, <4>1, <5>1
        <4>2. CASE j # Len(m)
          <5>1. j \in 1 .. Len(m) - 1 /\ j \in 1 .. Len(m)
            BY <1>1, <2>4, <4>2
          <5>2. m[j].first <= m[j].second
            BY <5>1 DEF Merged, Apart
          <5> QED
            BY <2>4, <5>1, <5>2
        <4> QED
          BY <4>1, <4>2
      <3>3. ASSUME NEW j \in 1 .. Len(r), NEW k \in 1 .. Len(r), j < k
            PROVE  r[j].second < r[k].first
        <4>1. j \in 1 .. Len(m) - 1 /\ r[j] = m[j] /\ m[j].second < m[k].first
          BY <1>1, <2>4, <3>3 DEF Merged, Apart
        <4>2. r[k].first = m[k].first
          BY <1>1, <2>4, <3>3
        <4> QED
          BY <4>1, <4>2
      <3> QED
        BY <2>4, <3>2, <3>3 DEF Apart
    <2>7. Covers(r, s, n + 1)
      <3> SUFFICES ASSUME NEW i \in 1 .. n + 1
                   PROVE  \E j \in 1 .. Len(r) : r[j].first <= s[i].first /\ s[i].second <= r[j].second
        BY DEF Covers
      <3> HIDE DEF r, end
      <3>1. CASE i = n + 1
        BY <1>2, <2>1, <2>2, <2>4, <2>5, <3>1
      <3>2. CASE i # n + 1
        <4>1. PICK j \in 1 .. Len(m) : m[j].first <= s[i].first /\ s[i].second <= m[j].second
          BY <3>2 DEF Merged, Covers
        <4>2. CASE j = Len(m)
          <5>1. s[i].second \in Int
            BY DEF FragmentType
          <5> QED
            BY <1>3, <2>1, <2>2, <2>4, <4>1, <4>2, <5>1
        <4>3. CASE j # Len(m)
          BY <1>1, <2>4, <4>1, <4>3
        <4> QED
          BY <4>2, <4>3
      <3> QED
        BY <3>1, <3>2
    <2>8. MadeOf(r, s, n + 1)
      <3> SUFFICES ASSUME NEW j \in 1 .. Len(r)
                   PROVE  /\ \A c \in r[j].first .. r[j].second :
                                \E i \in 1 .. n + 1 : s[i].first <= c /\ c <= s[i].second
                          /\ \A c \in r[j].first .. r[j].second - 1 :
                                \E i \in 1 .. n + 1 : s[i].first <= c /\ c + 1 <= s[i].second
        BY DEF MadeOf
      <3> HIDE DEF r, end
      <3>1. CASE j = Len(m)
        <4>1. ASSUME NEW c \in r[j].first .. r[j].second
              PROVE  \E i \in 1 .. n + 1 : s[i].first <= c /\ c <= s[i].second
          <5>1. CASE c <= last.second
            <6>1. c \in m[j].first .. m[j].second
              BY <1>3, <2>1, <2>4, <3>1, <4>1, <5>1
            <6> QED
              BY <2>4, <6>1 DEF Merged, MadeOf
          <5>2. CASE ~ (c <= last.second)
            <6>1. s[n + 1].first <= c /\ c <= s[n + 1].second
              BY <1>2, <1>3, <2>1, <2>2, <2>4, <2>5, <3>1, <5>2
            <6> QED
              BY <6>1
          <5> QED
            BY <5>1, <5>2
        <4>2. ASSUME NEW c \in r[j].first .. r[j].second - 1
              PROVE  \E i \in 1 .. n + 1 : s[i].first <= c /\ c + 1 <= s[i].second
          <5>1. CASE c + 1 <= last.second
            <6>1. c \in m[j].first .. m[j].second - 1
              BY <1>3, <2>1, <2>4, <3>1, <4>2, <5>1
            <6> QED
              BY <2>4, <6>1 DEF Merged, MadeOf
          <5>2. CASE ~ (c + 1 <= last.second)
            <6>1. s[n + 1].first <= c /\ c + 1 <= s[n + 1].second
              BY <1>2, <1>3, <2>1, <2>2, <2>4, <2>5, <3>1, <5>2
            <6> QED
              BY <6>1
          <5> QED
            BY <5>1, <5>2
        <4> QED
          BY <4>1, <4>2
      <3>2. CASE j # Len(m)
        BY <1>1, <2>4, <3>2 DEF Merged, MadeOf
      <3> QED
        BY <3>1, <3>2
    <2>9. r # <<>> /\ r[Len(r)].first <= s[n + 1].first
      BY <1>1, <2>1, <2>4, <2>5
    <2> QED
      BY <2>6, <2>7, <2>8, <2>9 DEF Merged
  <1> QED
    BY <1>4, <1>5

LEMMA MergeFragmentsFacts ==
  ASSUME NEW fragments, IsLine(fragments)
  PROVE  Merged(MergeFragments(fragments), Sorted(fragments), Cardinality(fragments))
  <1> DEFINE s == Sorted(fragments)
             size == Cardinality(fragments)
             merged == CHOOSE m : Merging(s, size, m)
             Bad == {n \in 0 .. size : ~ Merged(merged[n], s, n)}
  <1>1. /\ size \in Nat
        /\ \A i \in 1 .. size : s[i] \in FragmentType /\ s[i].first <= s[i].second
        /\ \A i, j \in 1 .. size : i < j => s[i].first <= s[j].first
    BY SortedFacts DEF IsLine
  <1>2. Merging(s, size, merged)
    BY <1>1, MergingExists
  <1>3. \A n \in 0 .. size : merged[n] = IF n = 0 THEN <<>> ELSE MergeStep(merged[n - 1], s[n])
    BY <1>2 DEF Merging
  <1>4. MergeFragments(fragments) = merged[size]
    BY DEF MergeFragments, Merging
  <1> HIDE DEF s, merged
  <1>5. Merged(<<>>, s, 0)
    BY DEF Merged, Apart, Covers, MadeOf
  <1>6. ASSUME NEW n \in 1 .. size, Merged(merged[n - 1], s, n - 1)
        PROVE  Merged(merged[n], s, n)
    <2>1. /\ n - 1 \in Nat /\ n = (n - 1) + 1
          /\ \A i \in 1 .. n : s[i] \in FragmentType /\ s[i].first <= s[i].second
          /\ n - 1 > 0 => s[n - 1].first <= s[n].first
      BY <1>1
    <2>2. Merged(MergeStep(merged[n - 1], s[(n - 1) + 1]), s, (n - 1) + 1)
      BY <1>6, <2>1, MergeStepFacts
    <2> QED
      BY <1>3, <2>1, <2>2
  <1>7. Bad = {}
    <2>1. 0 \notin Bad
      BY <1>1, <1>3, <1>5
    <2>2. ASSUME NEW n \in 1 .. size, n \in Bad
          PROVE  n - 1 \in Bad
      <3>1. n - 1 \in 0 .. size /\ ~ Merged(merged[n], s, n)
        BY <1>1, <2>2
      <3>2. ~ Merged(merged[n - 1], s, n - 1)
        BY <1>6, <3>1
      <3> HIDE DEF merged, s
      <3> QED
        BY <3>1, <3>2
    <2>3. Bad \subseteq 0 .. size
      OBVIOUS
    <2> HIDE DEF Bad
    <2> QED
      BY <1>1, <2>1, <2>2, <2>3, NoneIsBad
  <1> QED
    BY <1>1, <1>4, <1>7 DEF s

-----------------------------------------------------------------------------
(* What is found on a line.                                                *)

LEMMA FoundOnce ==
  ASSUME NEW fragments, IsLine(fragments), NEW c \in Int,
         NEW f \in FragmentsAt(fragments, c), NEW g \in FragmentsAt(fragments, c)
  PROVE  f = g
  <1> DEFINE m == MergeFragments(fragments)
  <1>1. Apart(m)
    BY MergeFragmentsFacts DEF Merged
  <1>2. PICK j \in 1 .. Len(m) : f = m[j] /\ f.first <= c /\ c <= f.second
    BY <1>1 DEF FragmentsAt, Apart
  <1>3. PICK k \in 1 .. Len(m) : g = m[k] /\ g.first <= c /\ c <= g.second
    BY <1>1 DEF FragmentsAt, Apart
  <1> HIDE DEF m
  <1>4. /\ m[j].first \in Int /\ m[j].second \in Int
        /\ m[k].first \in Int /\ m[k].second \in Int
    <2>1. m[j] \in FragmentType /\ m[k] \in FragmentType
      BY <1>1 DEF Apart
    <2> QED
      BY <2>1 DEF FragmentType
  <1>5. ~ (j < k) /\ ~ (k < j)
    BY <1>1, <1>2, <1>3, <1>4 DEF Apart
  <1> QED
    BY <1>1, <1>2, <1>3, <1>5 DEF Apart

(* A fragment that is found reaches along roads, and is found all along.   *)
LEMMA FoundAlong ==
  ASSUME NEW fragments, IsLine(fragments), NEW c \in Int, NEW f \in FragmentsAt(fragments, c)
  PROVE  /\ f \in FragmentType /\ f.first <= c /\ c <= f.second
         /\ \A d \in f.first .. f.second :
               /\ f \in FragmentsAt(fragments, d)
               /\ \E g \in fragments : g.first <= d /\ d <= g.second
         /\ \A d \in f.first .. f.second - 1 :
               \E g \in fragments : g.first <= d /\ d + 1 <= g.second
  <1> DEFINE m == MergeFragments(fragments)
             s == Sorted(fragments)
             size == Cardinality(fragments)
  <1>1. Apart(m) /\ MadeOf(m, s, size)
    BY MergeFragmentsFacts DEF Merged
  <1>2. PICK j \in 1 .. Len(m) : f = m[j] /\ f.first <= c /\ c <= f.second
    BY <1>1 DEF FragmentsAt, Apart
  <1>3. \A i \in 1 .. size : s[i] \in fragments
    BY SortedFacts
  <1>4. f \in FragmentType
    BY <1>1, <1>2 DEF Apart
  <1>5. ASSUME NEW d \in f.first .. f.second
        PROVE  f \in FragmentsAt(fragments, d)
    <2>1. f.first <= d /\ d <= f.second
      BY <1>4 DEF FragmentType
    <2>2. j \in DOMAIN m
      BY <1>1 DEF Apart
    <2> QED
      BY <1>2, <2>1, <2>2 DEF FragmentsAt
  <1>6. \A d \in f.first .. f.second : \E g \in fragments : g.first <= d /\ d <= g.second
    BY <1>1, <1>2, <1>3 DEF MadeOf
  <1>7. \A d \in f.first .. f.second - 1 : \E g \in fragments : g.first <= d /\ d + 1 <= g.second
    BY <1>1, <1>2, <1>3 DEF MadeOf
  <1> QED
    BY <1>2, <1>4, <1>5, <1>6, <1>7

(* What passes a coordinate is found there.                                *)
LEMMA FoundWhereRoadsPass ==
  ASSUME NEW fragments, IsLine(fragments), NEW c \in Int,
         NEW g \in fragments, g.first <= c, c <= g.second
  PROVE  \E f \in FragmentsAt(fragments, c) : f.first <= g.first /\ g.second <= f.second
  <1> DEFINE m == MergeFragments(fragments)
             s == Sorted(fragments)
             size == Cardinality(fragments)
  <1>1. Apart(m) /\ Covers(m, s, size)
    BY MergeFragmentsFacts DEF Merged
  <1>2. PICK i \in 1 .. size : s[i] = g
    BY SortedFacts
  <1>3. PICK j \in 1 .. Len(m) : m[j].first <= g.first /\ g.second <= m[j].second
    BY <1>1, <1>2 DEF Covers
  <1>4. m[j] \in FragmentType /\ g \in FragmentType /\ j \in DOMAIN m
    BY <1>1 DEF Apart, IsLine
  <1>5. m[j].first <= c /\ c <= m[j].second
    BY <1>3, <1>4 DEF FragmentType
  <1>6. m[j] \in FragmentsAt(fragments, c)
    BY <1>4, <1>5 DEF FragmentsAt
  <1> QED
    BY <1>3, <1>6

(* The index answers what the roads of a line would.                       *)
LEMMA LineIsIndexed ==
  ASSUME NEW fragments, IsLine(fragments), NEW c \in Int
  PROVE  IsIndexed(fragments, c)
  <1> DEFINE found == FragmentsAt(fragments, c)
  <1>1. Cardinality(found) <= 1
    <2>1. CASE found = {}
      BY <2>1, FS_EmptySet
    <2>2. CASE found # {}
      <3>1. PICK f : found = {f}
        BY <2>2, FoundOnce
      <3> QED
        BY <3>1, FS_Singleton
    <2> QED
      BY <2>1, <2>2
  <1>2. found # {} => Passing(fragments, c) # {}
    <2> SUFFICES ASSUME NEW f \in found
                 PROVE  Passing(fragments, c) # {}
      OBVIOUS
    <2>1. f \in FragmentType /\ f.first <= c /\ c <= f.second
      BY FoundAlong
    <2>2. c \in f.first .. f.second
      BY <2>1 DEF FragmentType
    <2> QED
      BY <2>2, FoundAlong DEF Passing
  <1>3. \A g \in Passing(fragments, c) : \E f \in found : f.first <= g.first /\ g.second <= f.second
    BY FoundWhereRoadsPass DEF Passing
  <1>4. \A f, g \in found : f = g
    BY FoundOnce
  <1> HIDE DEF found
  <1>5. /\ found = {} <=> Passing(fragments, c) = {}
        /\ \A f \in found, g \in Passing(fragments, c) : f.first <= g.first /\ g.second <= f.second
    BY <1>2, <1>3, <1>4
  <1> QED
    BY <1>1, <1>5 DEF IsIndexed, found

-----------------------------------------------------------------------------
(* Rounding.                                                               *)

LEMMA DivFacts ==
  ASSUME NEW a \in Int, NEW b \in Nat \ {0}
  PROVE  a \div b \in Int /\ b * (a \div b) <= a /\ a < b * (a \div b) + b
  OBVIOUS

LEMMA Scaling ==
  ASSUME NEW a \in Int, NEW b \in Int
  PROVE  /\ Unit * a \in Int
         /\ a <= b => Unit * a <= Unit * b
         /\ a < b => Unit * a + Unit <= Unit * b
  BY ConstantsAssumption

LEMMA RoundFacts ==
  ASSUME NEW c \in Int
  PROVE  /\ Round(c) \in Int
         /\ 2 * (Unit * Round(c)) - Unit <= 2 * c /\ 2 * c <= 2 * (Unit * Round(c)) + Unit
  <1>1. Unit \in Nat \ {0}
    BY ConstantsAssumption
  <1>2. CASE c >= 0
    <2> DEFINE q == (2 * c + Unit) \div (2 * Unit)
    <2>1. q \in Int /\ (2 * Unit) * q <= 2 * c + Unit /\ 2 * c + Unit < (2 * Unit) * q + 2 * Unit
      <3> DEFINE a == 2 * c + Unit
                 b == 2 * Unit
      <3>1. a \in Int /\ b \in Nat \ {0}
        BY <1>1
      <3> HIDE DEF a, b
      <3>2. a \div b \in Int /\ b * (a \div b) <= a /\ a < b * (a \div b) + b
        BY <3>1, DivFacts
      <3> QED
        BY <3>2 DEF a, b
    <2>2. Round(c) = q
      BY <1>2 DEF Round
    <2> HIDE DEF q
    <2>3. (2 * Unit) * q = 2 * (Unit * q) /\ Unit * q \in Int
      BY <1>1, <2>1
    <2> QED
      BY <1>1, <2>1, <2>2, <2>3
  <1>3. CASE ~ (c >= 0)
    <2> DEFINE q == (Unit - 2 * c) \div (2 * Unit)
    <2>1. q \in Int /\ (2 * Unit) * q <= Unit - 2 * c /\ Unit - 2 * c < (2 * Unit) * q + 2 * Unit
      <3> DEFINE a == Unit - 2 * c
                 b == 2 * Unit
      <3>1. a \in Int /\ b \in Nat \ {0}
        BY <1>1
      <3> HIDE DEF a, b
      <3>2. a \div b \in Int /\ b * (a \div b) <= a /\ a < b * (a \div b) + b
        BY <3>1, DivFacts
      <3> QED
        BY <3>2 DEF a, b
    <2>2. Round(c) = - q
      BY <1>3 DEF Round
    <2> HIDE DEF q
    <2>3. (2 * Unit) * q = - (2 * (Unit * (- q))) /\ Unit * (- q) \in Int
      BY <1>1, <2>1
    <2> QED
      BY <1>1, <2>1, <2>2, <2>3
  <1> QED
    BY <1>2, <1>3

LEMMA RoundNear ==
  ASSUME NEW c \in Int, NEW k \in Int, 2 * (Unit * k) - Unit < 2 * c, 2 * c < 2 * (Unit * k) + Unit
  PROVE  Round(c) = k
  <1> DEFINE r == Round(c)
  <1>1. r \in Int /\ 2 * (Unit * r) - Unit <= 2 * c /\ 2 * c <= 2 * (Unit * r) + Unit
    BY RoundFacts
  <1>2. /\ r < k => Unit * r + Unit <= Unit * k
        /\ k < r => Unit * k + Unit <= Unit * r
        /\ Unit * k \in Int /\ Unit * r \in Int
    BY <1>1, Scaling
  <1> HIDE DEF r
  <1>3. ~ (r < k) /\ ~ (k < r)
    BY <1>1, <1>2, ConstantsAssumption
  <1> QED
    BY <1>1, <1>3 DEF r

LEMMA RoundMonotone ==
  ASSUME NEW c \in Int, NEW d \in Int, c <= d
  PROVE  Round(c) <= Round(d)
  <1> DEFINE r == Round(c)
             s == Round(d)
  <1>1. /\ r \in Int /\ 2 * (Unit * r) - Unit <= 2 * c
        /\ s \in Int /\ 2 * d <= 2 * (Unit * s) + Unit
    BY RoundFacts
  <1>2. s < r => Unit * s + Unit <= Unit * r
    BY <1>1, Scaling
  <1>3. Unit * r \in Int /\ Unit * s \in Int /\ Unit \in Nat
    BY <1>1, Scaling, ConstantsAssumption
  <1>4. s < r => c = d
    <2> HIDE DEF r, s
    <2> QED
      BY <1>1, <1>2, <1>3
  <1> QED
    BY <1>1, <1>4

(* A place that is beyond the end of a stretch by no more than half the    *)
(* width of a road is rounded onto the stretch.                            *)
LEMMA RoundOnto ==
  ASSUME NEW c \in Int, NEW a \in Int, NEW b \in Int, a <= b,
         Unit * a - HalfWidth <= c, c <= Unit * b + HalfWidth
  PROVE  a <= Round(c) /\ Round(c) <= b
  <1>1. /\ Unit * a \in Int /\ Unit * b \in Int
        /\ Unit \in Nat \ {0} /\ HalfWidth \in Nat /\ 2 * HalfWidth < Unit
    BY Scaling, ConstantsAssumption
  <1>2. Round(Unit * a - HalfWidth) = a
    BY <1>1, RoundNear
  <1>3. Round(Unit * b + HalfWidth) = b
    BY <1>1, RoundNear
  <1> QED
    BY <1>1, <1>2, <1>3, RoundMonotone

-----------------------------------------------------------------------------
(* One coordinate of a move.                                               *)

(* The dog is on a stretch of the line, or beyond its end by no more than  *)
(* half the width of a road.                                               *)
Spans(line, c) ==
    \E f \in FragmentsAt(line, Round(c)) :
        Unit * f.first - HalfWidth <= c /\ c <= Unit * f.second + HalfWidth

(* The coordinates of corners along a line, found from coordinate c.       *)
IsCorner(line, c, e) ==
    \/ e = Unit * Round(c)
    \/ \E f \in FragmentsAt(line, Round(c)) : e \in {Unit * f.first, Unit * f.second}

LEMMA FoundBounds ==
  ASSUME NEW line, IsLine(line), NEW c \in Int, NEW f \in FragmentsAt(line, Round(c))
  PROVE  /\ Round(c) \in Int /\ f.first \in Int /\ f.second \in Int
         /\ f.first <= Round(c) /\ Round(c) <= f.second
         /\ Unit * f.first \in Int /\ Unit * f.second \in Int
         /\ Unit * f.first <= Unit * Round(c) /\ Unit * Round(c) <= Unit * f.second
  <1>1. Round(c) \in Int
    BY RoundFacts
  <1>2. f \in FragmentType /\ f.first <= Round(c) /\ Round(c) <= f.second
    BY <1>1, FoundAlong
  <1>3. f.first \in Int /\ f.second \in Int
    BY <1>2 DEF FragmentType
  <1> QED
    BY <1>1, <1>2, <1>3, Scaling

(* The corners are bounded, so that the range has borders.                 *)
LEMMA CornersBounded ==
  ASSUME NEW line, IsLine(line), NEW c \in Int
  PROVE  \E low, high \in Int : \A e : IsCorner(line, c, e) => e \in Int /\ low <= e /\ e <= high
  <1>1. Round(c) \in Int /\ Unit * Round(c) \in Int
    BY RoundFacts, Scaling
  <1>2. CASE FragmentsAt(line, Round(c)) = {}
    BY <1>1, <1>2 DEF IsCorner
  <1>3. ASSUME NEW f \in FragmentsAt(line, Round(c))
        PROVE  \A e : IsCorner(line, c, e) =>
                  e \in Int /\ Unit * f.first <= e /\ e <= Unit * f.second
    <2>1. \A g \in FragmentsAt(line, Round(c)) : g = f
      BY <1>1, FoundOnce
    <2>2. /\ Unit * f.first \in Int /\ Unit * f.second \in Int
          /\ Unit * f.first <= Unit * Round(c) /\ Unit * Round(c) <= Unit * f.second
      BY FoundBounds
    <2> QED
      BY <1>1, <2>1, <2>2 DEF IsCorner
  <1>4. \A f \in FragmentsAt(line, Round(c)) : Unit * f.first \in Int /\ Unit * f.second \in Int
    BY FoundBounds
  <1> QED
    BY <1>2, <1>3, <1>4

LEMMA LowerBorder ==
  ASSUME NEW line, IsLine(line), NEW c \in Int, NEW S, \A e \in S : IsCorner(line, c, e)
  PROVE  LET border == LeastOf({c} \cup {e - HalfWidth : e \in S})
         IN  /\ border \in Int /\ border <= c
             /\ border = c \/ \E e \in S : border = e - HalfWidth
  <1> DEFINE T == {c} \cup {e - HalfWidth : e \in S}
  <1>1. PICK low \in Int, high \in Int :
           \A e : IsCorner(line, c, e) => e \in Int /\ low <= e /\ e <= high
    BY CornersBounded
  <1>2. HalfWidth \in Int
    BY ConstantsAssumption
  <1>3. \A n \in T : n \in Int /\ Lesser(c, low - HalfWidth) <= n
    BY <1>1, <1>2 DEF Lesser
  <1>4. Lesser(c, low - HalfWidth) \in Int
    BY <1>2 DEF Lesser
  <1>5. LeastOf(T) \in T /\ \A n \in T : LeastOf(T) <= n
    <2> HIDE DEF T
    <2>1. T \subseteq Int
      BY <1>3
    <2>2. T # {}
      BY DEF T
    <2> QED
      BY <1>3, <1>4, <2>1, <2>2, LeastExists
  <1> QED
    BY <1>3, <1>5

LEMMA UpperBorder ==
  ASSUME NEW line, IsLine(line), NEW c \in Int, NEW S, \A e \in S : IsCorner(line, c, e)
  PROVE  LET border == GreatestOf({c} \cup {e + HalfWidth : e \in S})
         IN  /\ border \in Int /\ c <= border
             /\ border = c \/ \E e \in S : border = e + HalfWidth
  <1> DEFINE T == {c} \cup {e + HalfWidth : e \in S}
  <1>1. PICK low \in Int, high \in Int :
           \A e : IsCorner(line, c, e) => e \in Int /\ low <= e /\ e <= high
    BY CornersBounded
  <1>2. HalfWidth \in Int
    BY ConstantsAssumption
  <1>3. \A n \in T : n \in Int /\ n <= Greater(c, high + HalfWidth)
    BY <1>1, <1>2 DEF Greater
  <1>4. Greater(c, high + HalfWidth) \in Int
    BY <1>2 DEF Greater
  <1>5. GreatestOf(T) \in T /\ \A n \in T : n <= GreatestOf(T)
    <2> HIDE DEF T
    <2>1. T \subseteq Int
      BY <1>3
    <2>2. T # {}
      BY DEF T
    <2> QED
      BY <1>3, <1>4, <2>1, <2>2, GreatestExists
  <1> QED
    BY <1>3, <1>5

(* Within the borders, a dog that is on a stretch of its line stays there; *)
(* one that is not stays where it is found from, or comes upon a stretch.  *)
LEMMA MoveAlong ==
  ASSUME NEW line, IsLine(line), NEW c \in Int, NEW d \in Int,
         NEW low \in Int, NEW high \in Int, low <= d, d <= high,
         low = c \/ \E e : IsCorner(line, c, e) /\ low = e - HalfWidth,
         high = c \/ \E e : IsCorner(line, c, e) /\ high = e + HalfWidth
  PROVE  /\ Spans(line, c) => Spans(line, d)
         /\ Round(d) = Round(c) \/ Spans(line, d)
  <1>1. Round(c) \in Int /\ Round(d) \in Int /\ Unit * Round(c) \in Int
    BY RoundFacts, Scaling
  <1>2. HalfWidth \in Nat
    BY ConstantsAssumption
  <1>3. ASSUME NEW f \in FragmentsAt(line, Round(c)),
               Unit * f.first - HalfWidth <= d, d <= Unit * f.second + HalfWidth
        PROVE  Spans(line, d)
    <2>1. f.first \in Int /\ f.second \in Int /\ f.first <= f.second
      BY <1>1, FoundBounds
    <2>2. Round(d) \in f.first .. f.second
      <3> DEFINE a == f.first
                 b == f.second
      <3>1. /\ a \in Int /\ b \in Int /\ a <= b
            /\ Unit * a - HalfWidth <= d /\ d <= Unit * b + HalfWidth
        BY <1>3, <2>1
      <3> HIDE DEF a, b
      <3>2. a <= Round(d) /\ Round(d) <= b
        BY <3>1, RoundOnto
      <3> QED
        BY <1>1, <3>1, <3>2 DEF a, b
    <2>3. f \in FragmentsAt(line, Round(d))
      BY <1>1, <2>2, FoundAlong
    <2> QED
      BY <1>3, <2>3 DEF Spans
  <1>4. ASSUME Spans(line, c)
        PROVE  Spans(line, d)
    <2>1. PICK f \in FragmentsAt(line, Round(c)) :
             Unit * f.first - HalfWidth <= c /\ c <= Unit * f.second + HalfWidth
      BY <1>4 DEF Spans
    <2>2. \A e : IsCorner(line, c, e) => e \in Int /\ Unit * f.first <= e /\ e <= Unit * f.second
      <3>1. \A g \in FragmentsAt(line, Round(c)) : g = f
        BY <1>1, FoundOnce
      <3> QED
        BY <1>1, <3>1, FoundBounds DEF IsCorner
    <2>3. Unit * f.first \in Int /\ Unit * f.second \in Int
      BY FoundBounds
    <2>4. Unit * f.first - HalfWidth <= d /\ d <= Unit * f.second + HalfWidth
      BY <1>2, <2>1, <2>2, <2>3
    <2> QED
      BY <1>3, <2>4
  <1>5. ASSUME Round(d) > Round(c)
        PROVE  Spans(line, d)
    <2>1. ~ (d <= c)
      BY <1>1, <1>5, RoundMonotone
    <2>2. PICK e : IsCorner(line, c, e) /\ high = e + HalfWidth
      BY <2>1
    <2>4. ~ (d <= Unit * Round(c) + HalfWidth)
      <3> SUFFICES ASSUME d <= Unit * Round(c) + HalfWidth PROVE FALSE
        OBVIOUS
      <3>1. Round(Unit * Round(c) + HalfWidth) = Round(c)
        BY <1>1, <1>2, RoundNear, ConstantsAssumption
      <3>2. Round(d) <= Round(Unit * Round(c) + HalfWidth)
        BY <1>1, <1>2, RoundMonotone
      <3> QED
        BY <1>1, <1>5, <3>1, <3>2
    <2>5. PICK f \in FragmentsAt(line, Round(c)) : e \in {Unit * f.first, Unit * f.second}
      BY <1>1, <1>2, <2>2, <2>4 DEF IsCorner
    <2>6. /\ Unit * f.first \in Int /\ Unit * f.second \in Int
          /\ Unit * f.first <= Unit * Round(c) /\ Unit * Round(c) <= Unit * f.second
      BY FoundBounds
    <2>7. Unit * f.first - HalfWidth <= d /\ d <= Unit * f.second + HalfWidth
      BY <1>1, <1>2, <2>2, <2>4, <2>5, <2>6
    <2> QED
      BY <1>3, <2>7
  <1>6. ASSUME Round(d) < Round(c)
        PROVE  Spans(line, d)
    <2>1. ~ (c <= d)
      BY <1>1, <1>6, RoundMonotone
    <2>2. PICK e : IsCorner(line, c, e) /\ low = e - HalfWidth
      BY <2>1
    <2>4. ~ (Unit * Round(c) - HalfWidth <= d)
      <3> SUFFICES ASSUME Unit * Round(c) - HalfWidth <= d PROVE FALSE
        OBVIOUS
      <3>1. Round(Unit * Round(c) - HalfWidth) = Round(c)
        BY <1>1, <1>2, RoundNear, ConstantsAssumption
      <3>2. Round(Unit * Round(c) - HalfWidth) <= Round(d)
        BY <1>1, <1>2, RoundMonotone
      <3> QED
        BY <1>1, <1>6, <3>1, <3>2
    <2>5. PICK f \in FragmentsAt(line, Round(c)) : e \in {Unit * f.first, Unit * f.second}
      BY <1>1, <1>2, <2>2, <2>4 DEF IsCorner
    <2>6. /\ Unit * f.first \in Int /\ Unit * f.second \in Int
          /\ Unit * f.first <= Unit * Round(c) /\ Unit * Round(c) <= Unit * f.second
      BY FoundBounds
    <2>7. Unit * f.first - HalfWidth <= d /\ d <= Unit * f.second + HalfWidth
      BY <1>1, <1>2, <2>2, <2>4, <2>5, <2>6
    <2> QED
      BY <1>3, <2>7
  <1> QED
    BY <1>1, <1>4, <1>5, <1>6

-----------------------------------------------------------------------------
(* The lines of a map.                                                     *)

LEMMA FragmentFacts ==
  ASSUME NEW a \in Int, NEW b \in Int
  PROVE  /\ Fragment(a, b) \in FragmentType
         /\ Fragment(a, b).first <= Fragment(a, b).second
  BY DEF Fragment, FragmentType, Lesser, Greater

LEMMA FiniteImage ==
  ASSUME NEW f, IsFiniteSet(DOMAIN f)
  PROVE  IsFiniteSet({f[x] : x \in DOMAIN f})
  <1>1. [x \in DOMAIN f |-> f[x]] \in Surjection(DOMAIN f, {f[x] : x \in DOMAIN f})
    BY DEF Surjection
  <1> QED
    BY <1>1, FS_Surjection

LEMMA LinesOfMaps ==
  ASSUME NEW map \in Maps, NEW c
  PROVE  IsLine(HorizontalRoads(map, c)) /\ IsLine(VerticalRoads(map, c))
  <1> DEFINE along == {r \in {h \in map : IsHorizontal(h)} : r.start.y = c}
             along_x == [r \in along |-> Fragment(r.start.x, r.end.x)]
             across == {r \in {v \in map : ~ IsHorizontal(v)} : r.start.x = c}
             across_y == [r \in across |-> Fragment(r.start.y, r.end.y)]
  <1>1. IsFiniteSet(map)
    BY MapsAssumption
  <1>2. IsFiniteSet(DOMAIN along_x) /\ IsFiniteSet(DOMAIN across_y)
    <2>1. along \in SUBSET map /\ across \in SUBSET map
      OBVIOUS
    <2> QED
      BY <1>1, <2>1, FS_Subset
  <1>3. IsFiniteSet({along_x[r] : r \in DOMAIN along_x})
        /\ IsFiniteSet({across_y[r] : r \in DOMAIN across_y})
    <2> HIDE DEF along_x, across_y
    <2> QED
      BY <1>2, FiniteImage
  <1>4. /\ HorizontalRoads(map, c) = {along_x[r] : r \in DOMAIN along_x}
        /\ VerticalRoads(map, c) = {across_y[r] : r \in DOMAIN across_y}
    BY DEF HorizontalRoads, VerticalRoads
  <1>5. \A f \in HorizontalRoads(map, c) \cup VerticalRoads(map, c) :
           f \in FragmentType /\ f.first <= f.second
    BY MapsAssumption, FragmentFacts DEF HorizontalRoads, VerticalRoads
  <1> QED
    BY <1>3, <1>4, <1>5 DEF IsLine

-----------------------------------------------------------------------------
(* The inductive invariant: the dog is on a road that is found from where  *)
(* it is, or beyond its end by half a width.  That the index finds a road  *)
(* is not inductive: it does not say that a dog on the move comes off its  *)
(* road only where it comes upon another.                                  *)

Place == [x : Int, y : Int]

OnRoad(map, p) ==
    \/ Spans(HorizontalRoads(map, Round(p.y)), p.x)
    \/ Spans(VerticalRoads(map, Round(p.x)), p.y)

TypeInv ==
    /\ roads \in Maps /\ position_ \in Place
    /\ direction_ \in Direction /\ moving \in BOOLEAN

Inv == TypeInv /\ OnRoad(roads, position_)

(* On the axis of a road a dog is on a stretch of its line.                *)
LEMMA AxisSpans ==
  ASSUME NEW line, IsLine(line), NEW c \in Int, NEW g \in line,
         Unit * g.first <= c, c <= Unit * g.second
  PROVE  Spans(line, c)
  <1> DEFINE a == g.first
             b == g.second
  <1>1. a \in Int /\ b \in Int /\ a <= b
    BY DEF IsLine, FragmentType
  <1>2. HalfWidth \in Nat /\ Unit * a \in Int /\ Unit * b \in Int /\ Round(c) \in Int
    BY <1>1, ConstantsAssumption, Scaling, RoundFacts
  <1>3. Unit * a - HalfWidth <= c /\ c <= Unit * b + HalfWidth
    BY <1>2
  <1>4. a <= Round(c) /\ Round(c) <= b
    <2> HIDE DEF a, b
    <2> QED
      BY <1>1, <1>3, RoundOnto
  <1>5. PICK f \in FragmentsAt(line, Round(c)) : f.first <= a /\ b <= f.second
    BY <1>2, <1>4, FoundWhereRoadsPass
  <1>6. f.first \in Int /\ f.second \in Int
    BY FoundBounds
  <1>7. Unit * f.first <= Unit * a /\ Unit * b <= Unit * f.second
    BY <1>1, <1>5, <1>6, Scaling
  <1>8. Unit * f.first \in Int /\ Unit * f.second \in Int
    BY <1>6, Scaling
  <1>9. Unit * f.first - HalfWidth <= c /\ c <= Unit * f.second + HalfWidth
    BY <1>2, <1>3, <1>7, <1>8
  <1> QED
    BY <1>9 DEF Spans

LEMMA InitInv == Init => Inv
  <1> SUFFICES ASSUME Init PROVE Inv
    OBVIOUS
  <1> USE DEF Init
  <1>1. PICK r \in roads : position_ \in OnAxis(r)
    OBVIOUS
  <1>2. /\ r.start.x \in Int /\ r.start.y \in Int /\ r.end.x \in Int /\ r.end.y \in Int
        /\ r.start.y = r.end.y \/ r.start.x = r.end.x
    BY MapsAssumption
  <1> DEFINE xs == Fragment(r.start.x, r.end.x)
             ys == Fragment(r.start.y, r.end.y)
  <1>3. /\ xs \in FragmentType /\ xs.first <= xs.second
        /\ ys \in FragmentType /\ ys.first <= ys.second
    BY <1>2, FragmentFacts
  <1>4. /\ xs.first \in Int /\ xs.second \in Int /\ ys.first \in Int /\ ys.second \in Int
        /\ Unit * xs.first \in Int /\ Unit * xs.second \in Int
        /\ Unit * ys.first \in Int /\ Unit * ys.second \in Int
    BY <1>3, Scaling DEF FragmentType
  <1>5. /\ position_ \in [x : Unit * xs.first .. Unit * xs.second, y : Unit * ys.first .. Unit * ys.second]
        /\ position_ \in Place
    BY <1>1, <1>4 DEF OnAxis, Place
  <1>6. /\ Unit * xs.first <= position_.x /\ position_.x <= Unit * xs.second
        /\ Unit * ys.first <= position_.y /\ position_.y <= Unit * ys.second
        /\ position_.x \in Int /\ position_.y \in Int
    BY <1>4, <1>5
  <1>7. HalfWidth \in Nat /\ Unit \in Nat \ {0}
    BY ConstantsAssumption
  <1>8. CASE IsHorizontal(r)
    <2>1. ys.first = r.start.y /\ ys.second = r.start.y
      BY <1>2, <1>8 DEF IsHorizontal, Fragment, Lesser, Greater
    <2>2. Round(position_.y) = r.start.y
      <3> HIDE DEF xs, ys
      <3>1. position_.y = Unit * r.start.y
        BY <1>4, <1>6, <2>1
      <3> QED
        BY <1>2, <1>4, <1>6, <1>7, <2>1, <3>1, RoundNear
    <2>3. xs \in HorizontalRoads(roads, r.start.y)
      BY <1>8 DEF HorizontalRoads
    <2>4. Spans(HorizontalRoads(roads, r.start.y), position_.x)
      <3> HIDE DEF xs
      <3> QED
        BY <1>6, <2>3, AxisSpans, LinesOfMaps
    <2> QED
      BY <1>5, <2>2, <2>4 DEF Inv, TypeInv, OnRoad, Direction
  <1>9. CASE ~ IsHorizontal(r)
    <2>1. xs.first = r.start.x /\ xs.second = r.start.x
      BY <1>2, <1>9 DEF IsHorizontal, Fragment, Lesser, Greater
    <2>2. Round(position_.x) = r.start.x
      <3> HIDE DEF xs, ys
      <3>1. position_.x = Unit * r.start.x
        BY <1>4, <1>6, <2>1
      <3> QED
        BY <1>2, <1>4, <1>6, <1>7, <2>1, <3>1, RoundNear
    <2>3. ys \in VerticalRoads(roads, r.start.x)
      BY <1>9 DEF VerticalRoads
    <2>4. Spans(VerticalRoads(roads, r.start.x), position_.y)
      <3> HIDE DEF ys
      <3> QED
        BY <1>6, <2>3, AxisSpans, LinesOfMaps
    <2> QED
      BY <1>5, <2>2, <2>4 DEF Inv, TypeInv, OnRoad, Direction
  <1> QED
    BY <1>8, <1>9

(* The borders of the range contain the dog, and each is the dog's own     *)
(* coordinate or half a width beyond a corner.                             *)
LEMMA BoundsFacts ==
  ASSUME TypeInv
  PROVE  LET p == position_
             range == Bounds(p)
             along == HorizontalRoads(roads, Round(p.y))
             across == VerticalRoads(roads, Round(p.x))
         IN  /\ range.min_x \in Int /\ range.min_x <= p.x
             /\ range.max_x \in Int /\ p.x <= range.max_x
             /\ range.min_y \in Int /\ range.min_y <= p.y
             /\ range.max_y \in Int /\ p.y <= range.max_y
             /\ range.min_x = p.x \/ \E e : IsCorner(along, p.x, e) /\ range.min_x = e - HalfWidth
             /\ range.max_x = p.x \/ \E e : IsCorner(along, p.x, e) /\ range.max_x = e + HalfWidth
             /\ range.min_y = p.y \/ \E e : IsCorner(across, p.y, e) /\ range.min_y = e - HalfWidth
             /\ range.max_y = p.y \/ \E e : IsCorner(across, p.y, e) /\ range.max_y = e + HalfWidth
  <1> DEFINE p == position_
             along == HorizontalRoads(roads, Round(p.y))
             across == VerticalRoads(roads, Round(p.x))
             xs == {c.x : c \in Corners(p)}
             ys == {c.y : c \in Corners(p)}
  <1>1. p.x \in Int /\ p.y \in Int /\ IsLine(along) /\ IsLine(across)
    BY LinesOfMaps DEF TypeInv, Place
  <1>2. \A e \in xs : IsCorner(along, p.x, e)
    BY DEF Corners, RoadsAt, GetRoadsAtPoint, IsCorner
  <1>3. \A e \in ys : IsCorner(across, p.y, e)
    BY DEF Corners, RoadsAt, GetRoadsAtPoint, IsCorner
  <1>4. /\ {c.x - HalfWidth : c \in Corners(p)} = {e - HalfWidth : e \in xs}
        /\ {c.x + HalfWidth : c \in Corners(p)} = {e + HalfWidth : e \in xs}
        /\ {c.y - HalfWidth : c \in Corners(p)} = {e - HalfWidth : e \in ys}
        /\ {c.y + HalfWidth : c \in Corners(p)} = {e + HalfWidth : e \in ys}
    OBVIOUS
  <1>5. /\ Bounds(p).min_x = LeastOf({p.x} \cup {e - HalfWidth : e \in xs})
        /\ Bounds(p).max_x = GreatestOf({p.x} \cup {e + HalfWidth : e \in xs})
        /\ Bounds(p).min_y = LeastOf({p.y} \cup {e - HalfWidth : e \in ys})
        /\ Bounds(p).max_y = GreatestOf({p.y} \cup {e + HalfWidth : e \in ys})
    BY <1>4 DEF Bounds
  <1> HIDE DEF p, along, across, xs, ys
  <1>6. /\ Bounds(p).min_x \in Int /\ Bounds(p).min_x <= p.x
        /\ Bounds(p).min_x = p.x \/ \E e \in xs : Bounds(p).min_x = e - HalfWidth
    <2> DEFINE c == p.x
               border == LeastOf({c} \cup {e - HalfWidth : e \in xs})
    <2>1. IsLine(along) /\ c \in Int /\ \A e \in xs : IsCorner(along, c, e)
      BY <1>1, <1>2
    <2>2. Bounds(p).min_x = border
      BY <1>5
    <2> HIDE DEF c
    <2>3. /\ border \in Int /\ border <= c
          /\ border = c \/ \E e \in xs : border = e - HalfWidth
      BY <2>1, LowerBorder
    <2> HIDE DEF border
    <2> QED
      BY <2>2, <2>3 DEF c
  <1>7. /\ Bounds(p).max_x \in Int /\ p.x <= Bounds(p).max_x
        /\ Bounds(p).max_x = p.x \/ \E e \in xs : Bounds(p).max_x = e + HalfWidth
    <2> DEFINE c == p.x
               border == GreatestOf({c} \cup {e + HalfWidth : e \in xs})
    <2>1. IsLine(along) /\ c \in Int /\ \A e \in xs : IsCorner(along, c, e)
      BY <1>1, <1>2
    <2>2. Bounds(p).max_x = border
      BY <1>5
    <2> HIDE DEF c
    <2>3. /\ border \in Int /\ c <= border
          /\ border = c \/ \E e \in xs : border = e + HalfWidth
      BY <2>1, UpperBorder
    <2> HIDE DEF border
    <2> QED
      BY <2>2, <2>3 DEF c
  <1>8. /\ Bounds(p).min_y \in Int /\ Bounds(p).min_y <= p.y
        /\ Bounds(p).min_y = p.y \/ \E e \in ys : Bounds(p).min_y = e - HalfWidth
    <2> DEFINE c == p.y
               border == LeastOf({c} \cup {e - HalfWidth : e \in ys})
    <2>1. IsLine(across) /\ c \in Int /\ \A e \in ys : IsCorner(across, c, e)
      BY <1>1, <1>3
    <2>2. Bounds(p).min_y = border
      BY <1>5
    <2> HIDE DEF c
    <2>3. /\ border \in Int /\ border <= c
          /\ border = c \/ \E e \in ys : border = e - HalfWidth
      BY <2>1, LowerBorder
    <2> HIDE DEF border
    <2> QED
      BY <2>2, <2>3 DEF c
  <1>9. /\ Bounds(p).max_y \in Int /\ p.y <= Bounds(p).max_y
        /\ Bounds(p).max_y = p.y \/ \E e \in ys : Bounds(p).max_y = e + HalfWidth
    <2> DEFINE c == p.y
               border == GreatestOf({c} \cup {e + HalfWidth : e \in ys})
    <2>1. IsLine(across) /\ c \in Int /\ \A e \in ys : IsCorner(across, c, e)
      BY <1>1, <1>3
    <2>2. Bounds(p).max_y = border
      BY <1>5
    <2> HIDE DEF c
    <2>3. /\ border \in Int /\ c <= border
          /\ border = c \/ \E e \in ys : border = e + HalfWidth
      BY <2>1, UpperBorder
    <2> HIDE DEF border
    <2> QED
      BY <2>2, <2>3 DEF c
  <1> QED
    BY <1>2, <1>3, <1>6, <1>7, <1>8, <1>9 DEF p, along, across

(* A place within the borders that moves on is clamped on its way.         *)
LEMMA ClampFacts ==
  ASSUME NEW c \in Int, NEW d \in Int, NEW min \in Int, NEW max \in Int, min <= c, c <= max
  PROVE  /\ Clamp(d, min, max) \in Int
         /\ min <= Clamp(d, min, max) /\ Clamp(d, min, max) <= max
         /\ c <= d => c <= Clamp(d, min, max) /\ Clamp(d, min, max) <= d
         /\ d <= c => d <= Clamp(d, min, max) /\ Clamp(d, min, max) <= c
  BY DEF Clamp

(* What a tick does to the dog: it stays, or moves ahead along one axis,   *)
(* no farther than it is carried, and within the range.                    *)
LEMMA MoveDogFacts ==
  ASSUME TypeInv, NEW way \in Ways, MoveDog(way)
  PROVE  /\ roads' = roads /\ TypeInv'
         /\ \/ position_' = position_
            \/ \E part \in 1 .. way :
                  /\ moving
                  /\ position_'.x = position_.x + part * Towards(direction_).x
                  /\ position_'.y = position_.y + part * Towards(direction_).y
         /\ \/ /\ position_'.y = position_.y
               /\ Bounds(position_).min_x <= position_'.x
               /\ position_'.x <= Bounds(position_).max_x
            \/ /\ position_'.x = position_.x
               /\ Bounds(position_).min_y <= position_'.y
               /\ position_'.y <= Bounds(position_).max_y
  <1> DEFINE p == position_
             go == IF moving THEN Towards(direction_) ELSE [x |-> 0, y |-> 0]
             new_pos == [x |-> p.x + way * go.x, y |-> p.y + way * go.y]
             range == Bounds(p)
             clamped == [x |-> Clamp(new_pos.x, range.min_x, range.max_x),
                         y |-> Clamp(new_pos.y, range.min_y, range.max_y)]
  <1>1. /\ position_' = clamped /\ moving' = (moving /\ clamped = new_pos)
        /\ roads' = roads /\ direction_' = direction_
    BY DEF MoveDog
  <1>2. /\ p \in Place /\ p.x \in Int /\ p.y \in Int /\ way \in Nat
        /\ p = [x |-> p.x, y |-> p.y]
    BY ConstantsAssumption DEF TypeInv, Place
  <1>3. /\ range.min_x \in Int /\ range.min_x <= p.x
        /\ range.max_x \in Int /\ p.x <= range.max_x
        /\ range.min_y \in Int /\ range.min_y <= p.y
        /\ range.max_y \in Int /\ p.y <= range.max_y
    BY BoundsFacts
  <1>4. \E dx, dy \in {-1, 0, 1} :
           /\ go = [x |-> dx, y |-> dy] /\ (dx = 0 \/ dy = 0)
           /\ (dx # 0 \/ dy # 0) => moving /\ Towards(direction_) = [x |-> dx, y |-> dy]
    <2>1. CASE moving
      BY <2>1 DEF TypeInv, Direction, Towards
    <2>2. CASE ~ moving
      BY <2>2
    <2> QED
      BY <2>1, <2>2
  <1>5. PICK dx \in {-1, 0, 1}, dy \in {-1, 0, 1} :
           /\ go = [x |-> dx, y |-> dy] /\ (dx = 0 \/ dy = 0)
           /\ (dx # 0 \/ dy # 0) => moving /\ Towards(direction_) = [x |-> dx, y |-> dy]
    BY <1>4
  <1>6. new_pos = [x |-> p.x + way * dx, y |-> p.y + way * dy]
    BY <1>5
  <1> HIDE DEF p, go, new_pos, range
  <1>7. /\ new_pos.x = p.x + way * dx /\ new_pos.x \in Int
        /\ new_pos.y = p.y + way * dy /\ new_pos.y \in Int
    BY <1>2, <1>6
  <1>8. /\ clamped.x \in Int /\ range.min_x <= clamped.x /\ clamped.x <= range.max_x
        /\ p.x <= new_pos.x => p.x <= clamped.x /\ clamped.x <= new_pos.x
        /\ new_pos.x <= p.x => new_pos.x <= clamped.x /\ clamped.x <= p.x
    <2>1. clamped.x = Clamp(new_pos.x, range.min_x, range.max_x)
      OBVIOUS
    <2> QED
      BY <1>2, <1>3, <1>7, <2>1, ClampFacts
  <1>9. /\ clamped.y \in Int /\ range.min_y <= clamped.y /\ clamped.y <= range.max_y
        /\ p.y <= new_pos.y => p.y <= clamped.y /\ clamped.y <= new_pos.y
        /\ new_pos.y <= p.y => new_pos.y <= clamped.y /\ clamped.y <= p.y
    <2>1. clamped.y = Clamp(new_pos.y, range.min_y, range.max_y)
      OBVIOUS
    <2> QED
      BY <1>2, <1>3, <1>7, <2>1, ClampFacts
  <1>10. /\ dx = 0 => clamped.x = p.x
         /\ dy = 0 => clamped.y = p.y
    BY <1>2, <1>7, <1>8, <1>9
  <1>11. clamped = [x |-> clamped.x, y |-> clamped.y]
    OBVIOUS
  <1>12. roads' = roads /\ TypeInv'
    <2>1. position_' \in Place
      BY <1>1, <1>8, <1>9 DEF Place
    <2> QED
      BY <1>1, <2>1 DEF TypeInv
  <1> HIDE DEF clamped
  <1>13. \/ position_' = p
         \/ \E part \in 1 .. way :
               /\ moving
               /\ position_'.x = p.x + part * Towards(direction_).x
               /\ position_'.y = p.y + part * Towards(direction_).y
    <2>1. CASE clamped.x = p.x /\ clamped.y = p.y
      BY <1>1, <1>2, <1>11, <2>1
    <2>2. CASE clamped.x # p.x
      <3>1. dy = 0 /\ clamped.y = p.y /\ dx \in {-1, 1}
        BY <1>5, <1>10, <2>2
      <3>2. moving /\ Towards(direction_).x = dx /\ Towards(direction_).y = 0
        BY <1>5, <3>1
      <3>3. CASE dx = 1
        <4>1. clamped.x - p.x \in 1 .. way /\ clamped.x = p.x + (clamped.x - p.x) * 1
          BY <1>2, <1>7, <1>8, <2>2, <3>3
        <4> QED
          BY <1>1, <1>2, <3>1, <3>2, <3>3, <4>1
      <3>4. CASE dx = -1
        <4>1. p.x - clamped.x \in 1 .. way /\ clamped.x = p.x + (p.x - clamped.x) * (-1)
          BY <1>2, <1>7, <1>8, <2>2, <3>4
        <4> QED
          BY <1>1, <1>2, <3>1, <3>2, <3>4, <4>1
      <3> QED
        BY <3>1, <3>3, <3>4
    <2>3. CASE clamped.y # p.y
      <3>1. dx = 0 /\ clamped.x = p.x /\ dy \in {-1, 1}
        BY <1>5, <1>10, <2>3
      <3>2. moving /\ Towards(direction_).y = dy /\ Towards(direction_).x = 0
        BY <1>5, <3>1
      <3>3. CASE dy = 1
        <4>1. clamped.y - p.y \in 1 .. way /\ clamped.y = p.y + (clamped.y - p.y) * 1
          BY <1>2, <1>7, <1>9, <2>3, <3>3
        <4> QED
          BY <1>1, <1>2, <3>1, <3>2, <3>3, <4>1
      <3>4. CASE dy = -1
        <4>1. p.y - clamped.y \in 1 .. way /\ clamped.y = p.y + (p.y - clamped.y) * (-1)
          BY <1>2, <1>7, <1>9, <2>3, <3>4
        <4> QED
          BY <1>1, <1>2, <3>1, <3>2, <3>4, <4>1
      <3> QED
        BY <3>1, <3>3, <3>4
    <2> QED
      BY <2>1, <2>2, <2>3
  <1>14. clamped.y = p.y \/ clamped.x = p.x
    BY <1>5, <1>10
  <1> QED
    BY <1>1, <1>8, <1>9, <1>12, <1>13, <1>14 DEF p, range

LEMMA MoveDogInv ==
  ASSUME Inv, NEW way \in Ways, MoveDog(way)
  PROVE  Inv'
  <1> DEFINE p == position_
             q == position_'
             along == HorizontalRoads(roads, Round(p.y))
             across == VerticalRoads(roads, Round(p.x))
  <1>1. TypeInv /\ OnRoad(roads, p)
    BY DEF Inv
  <1>2. /\ roads' = roads /\ TypeInv'
        /\ \/ q.y = p.y /\ Bounds(p).min_x <= q.x /\ q.x <= Bounds(p).max_x
           \/ q.x = p.x /\ Bounds(p).min_y <= q.y /\ q.y <= Bounds(p).max_y
    BY <1>1, MoveDogFacts
  <1>3. /\ IsLine(along) /\ IsLine(across)
        /\ p.x \in Int /\ p.y \in Int /\ q.x \in Int /\ q.y \in Int
    BY <1>1, <1>2, LinesOfMaps DEF TypeInv, Place
  <1> DEFINE range == Bounds(p)
  <1>4. /\ range.min_x \in Int /\ range.max_x \in Int /\ range.min_y \in Int /\ range.max_y \in Int
        /\ range.min_x = p.x \/ \E e : IsCorner(along, p.x, e) /\ range.min_x = e - HalfWidth
        /\ range.max_x = p.x \/ \E e : IsCorner(along, p.x, e) /\ range.max_x = e + HalfWidth
        /\ range.min_y = p.y \/ \E e : IsCorner(across, p.y, e) /\ range.min_y = e - HalfWidth
        /\ range.max_y = p.y \/ \E e : IsCorner(across, p.y, e) /\ range.max_y = e + HalfWidth
    BY <1>1, BoundsFacts
  <1>5. Spans(along, p.x) \/ Spans(across, p.y)
    BY <1>1 DEF OnRoad
  <1> HIDE DEF p, q, along, across, range
  <1>6. CASE q.y = p.y /\ range.min_x <= q.x /\ q.x <= range.max_x
    <2>1. /\ Spans(along, p.x) => Spans(along, q.x)
          /\ Round(q.x) = Round(p.x) \/ Spans(along, q.x)
      BY <1>3, <1>4, <1>6, MoveAlong
    <2>2. \/ Spans(HorizontalRoads(roads, Round(q.y)), q.x)
          \/ Spans(VerticalRoads(roads, Round(q.x)), q.y)
      BY <1>5, <1>6, <2>1 DEF along, across
    <2> QED
      BY <1>2, <2>2 DEF Inv, OnRoad, q
  <1>7. CASE q.x = p.x /\ range.min_y <= q.y /\ q.y <= range.max_y
    <2>1. /\ Spans(across, p.y) => Spans(across, q.y)
          /\ Round(q.y) = Round(p.y) \/ Spans(across, q.y)
      BY <1>3, <1>4, <1>7, MoveAlong
    <2>2. \/ Spans(HorizontalRoads(roads, Round(q.y)), q.x)
          \/ Spans(VerticalRoads(roads, Round(q.x)), q.y)
      BY <1>5, <1>7, <2>1 DEF along, across
    <2> QED
      BY <1>2, <2>2 DEF Inv, OnRoad, q
  <1> QED
    BY <1>2, <1>6, <1>7 DEF range, q, p

LEMMA NextInv == Inv /\ [Next]_vars => Inv'
  <1> SUFFICES ASSUME Inv, [Next]_vars PROVE Inv'
    OBVIOUS
  <1>1. ASSUME NEW direction \in Direction, SetDogDirection(direction) PROVE Inv'
    BY <1>1 DEF SetDogDirection, Inv, TypeInv, OnRoad
  <1>2. CASE Stop
    BY <1>2 DEF Stop, Inv, TypeInv, OnRoad
  <1>3. ASSUME NEW way \in Ways, MoveDog(way) PROVE Inv'
    BY <1>3, MoveDogInv
  <1>4. CASE UNCHANGED vars
    BY <1>4 DEF vars, Inv, TypeInv, OnRoad
  <1> QED
    BY <1>1, <1>2, <1>3, <1>4 DEF Next

(* A dog is on a road that is found from where it is, or beyond its end by *)
(* half a width.                                                           *)
THEOREM DogOnRoad == Spec => []Inv
  BY InitInv, NextInv, PTL DEF Spec

-----------------------------------------------------------------------------
(* What follows from it.                                                   *)

(* On every map the index finds the roads: there is a fragment at a point  *)
(* just if a road passes it, one at most, which reaches along all of them. *)
THEOREM IndexIsRight == Spec => []IndexFindsTheRoads
  <1>1. Inv => IndexFindsTheRoads
    <2> SUFFICES ASSUME Inv, NEW road \in roads, NEW p \in Near(road)
                 PROVE  /\ IsIndexed(HorizontalRoads(roads, p[2]), p[1])
                        /\ IsIndexed(VerticalRoads(roads, p[1]), p[2])
      BY DEF IndexFindsTheRoads
    <2>1. p[1] \in Int /\ p[2] \in Int
      BY DEF Near
    <2>2. /\ IsLine(HorizontalRoads(roads, p[2]))
          /\ IsLine(VerticalRoads(roads, p[1]))
      BY LinesOfMaps DEF Inv, TypeInv
    <2> QED
      BY <2>1, <2>2, LineIsIndexed
  <1> QED
    BY <1>1, DogOnRoad, PTL

(* No dog is ever where the index finds no road.                           *)
THEOREM DogNeverStranded == Spec => []NeverStranded
  <1>1. Inv => NeverStranded
    <2> SUFFICES ASSUME Inv PROVE Corners(position_) # {}
      BY DEF NeverStranded
    <2> DEFINE found == RoadsAt(position_)
    <2>1. found.horizontal # {} \/ found.vertical # {}
      BY DEF Inv, OnRoad, Spans, RoadsAt, GetRoadsAtPoint
    <2>2. CASE found.horizontal # {}
      <3>1. PICK f \in found.horizontal : TRUE
        BY <2>2
      <3>2. f.first \in UNION {{g.first, g.second} : g \in found.horizontal}
        BY <3>1
      <3>3. [x |-> Unit * f.first, y |-> Unit * Round(position_.y)] \in Corners(position_)
        BY <3>2 DEF Corners
      <3> QED
        BY <3>3
    <2>3. CASE found.vertical # {}
      <3>1. PICK f \in found.vertical : TRUE
        BY <2>3
      <3>2. f.first \in UNION {{g.first, g.second} : g \in found.vertical}
        BY <3>1
      <3>3. [x |-> Unit * Round(position_.x), y |-> Unit * f.first] \in Corners(position_)
        BY <3>2 DEF Corners
      <3> QED
        BY <3>3
    <2> QED
      BY <2>1, <2>2, <2>3
  <1> QED
    BY <1>1, DogOnRoad, PTL

(* The tick carries a dog ahead only, and not too far.                     *)
THEOREM DogMovesAhead == Spec => MovesAhead
  <1>1. Inv /\ [Next]_vars =>
           [position_' # position_ =>
              \E way \in Ways : \E part \in 1 .. way :
                  /\ moving
                  /\ position_'.x = position_.x + part * Towards(direction_).x
                  /\ position_'.y = position_.y + part * Towards(direction_).y]_vars
    <2> SUFFICES ASSUME Inv, Next, position_' # position_
                 PROVE  \E way \in Ways : \E part \in 1 .. way :
                           /\ moving
                           /\ position_'.x = position_.x + part * Towards(direction_).x
                           /\ position_'.y = position_.y + part * Towards(direction_).y
      OBVIOUS
    <2>1. PICK way \in Ways : MoveDog(way)
      BY DEF Next, SetDogDirection, Stop
    <2> QED
      BY <2>1, MoveDogFacts DEF Inv
  <1> QED
    BY <1>1, DogOnRoad, PTL DEF MovesAhead, Spec

(* A stretch of a line that spans the dog has a road that does.            *)
LEMMA SpannedByRoad ==
  ASSUME NEW line, IsLine(line), NEW c \in Int, Spans(line, c)
  PROVE  \E g \in line : Unit * g.first - HalfWidth <= c /\ c <= Unit * g.second + HalfWidth
  <1> DEFINE k == Round(c)
  <1>1. PICK f \in FragmentsAt(line, k) :
           Unit * f.first - HalfWidth <= c /\ c <= Unit * f.second + HalfWidth
    BY DEF Spans
  <1>2. /\ k \in Int /\ Unit * k \in Int /\ Unit \in Nat \ {0} /\ HalfWidth \in Nat
        /\ 2 * (Unit * k) - Unit <= 2 * c /\ 2 * c <= 2 * (Unit * k) + Unit
    BY RoundFacts, Scaling, ConstantsAssumption
  <1>3. /\ f.first \in Int /\ f.second \in Int /\ f.first <= k /\ k <= f.second
        /\ Unit * f.first \in Int /\ Unit * f.second \in Int
    BY FoundBounds
  <1>4. /\ \A d \in f.first .. f.second : \E g \in line : g.first <= d /\ d <= g.second
        /\ \A d \in f.first .. f.second - 1 : \E g \in line : g.first <= d /\ d + 1 <= g.second
    BY <1>2, FoundAlong
  <1>5. \A g \in line : g.first \in Int /\ g.second \in Int
    BY DEF IsLine, FragmentType
  <1> HIDE DEF k
  <1>6. CASE c >= Unit * k /\ k < f.second
    <2>1. PICK g \in line : g.first <= k /\ k + 1 <= g.second
      BY <1>2, <1>3, <1>4, <1>6
    <2>2. Unit * g.first <= Unit * k /\ Unit * k + Unit <= Unit * g.second
      <3>1. k < g.second
        BY <1>2, <1>5, <2>1
      <3> QED
        BY <1>2, <1>5, <2>1, <3>1, Scaling
    <2>3. Unit * g.first \in Int /\ Unit * g.second \in Int
      BY <1>5, Scaling
    <2> QED
      BY <1>2, <1>6, <2>2, <2>3
  <1>7. CASE c < Unit * k /\ f.first < k
    <2>1. PICK g \in line : g.first <= k - 1 /\ (k - 1) + 1 <= g.second
      BY <1>2, <1>3, <1>4, <1>7
    <2>2. Unit * g.first + Unit <= Unit * k /\ Unit * k <= Unit * g.second
      <3>1. g.first < k /\ k <= g.second
        BY <1>2, <1>5, <2>1
      <3> QED
        BY <1>2, <1>5, <3>1, Scaling
    <2>3. Unit * g.first \in Int /\ Unit * g.second \in Int
      BY <1>5, Scaling
    <2> QED
      BY <1>2, <1>7, <2>2, <2>3
  <1>8. CASE (c >= Unit * k /\ k = f.second) \/ (c < Unit * k /\ k = f.first)
    <2>1. PICK g \in line : g.first <= k /\ k <= g.second
      BY <1>2, <1>3, <1>4
    <2>2. Unit * g.first <= Unit * k /\ Unit * k <= Unit * g.second
      BY <1>2, <1>5, <2>1, Scaling
    <2>3. Unit * g.first \in Int /\ Unit * g.second \in Int
      BY <1>5, Scaling
    <2> QED
      BY <1>1, <1>2, <1>8, <2>2, <2>3
  <1> QED
    BY <1>2, <1>3, <1>6, <1>7, <1>8

(* A dog stays beside some road, however the roads of a line overlap.      *)
THEOREM DogBesideRoads == Spec => []StaysBesideRoads
  <1>1. Inv => StaysBesideRoads
    <2> SUFFICES ASSUME Inv PROVE StaysBesideRoads
      OBVIOUS
    <2> DEFINE p == position_
               X == Round(p.x)
               Y == Round(p.y)
               half == Unit \div 2
    <2>1. /\ roads \in Maps /\ p.x \in Int /\ p.y \in Int
          /\ IsLine(HorizontalRoads(roads, Y)) /\ IsLine(VerticalRoads(roads, X))
      BY LinesOfMaps DEF Inv, TypeInv, Place
    <2>2. /\ X \in Int /\ Y \in Int /\ Unit * X \in Int /\ Unit * Y \in Int
          /\ 2 * (Unit * X) - Unit <= 2 * p.x /\ 2 * p.x <= 2 * (Unit * X) + Unit
          /\ 2 * (Unit * Y) - Unit <= 2 * p.y /\ 2 * p.y <= 2 * (Unit * Y) + Unit
      BY <2>1, RoundFacts, Scaling
    <2>3. half \in Int /\ 2 * half <= Unit /\ Unit < 2 * half + 2
      BY ConstantsAssumption, DivFacts
    <2>4. /\ Unit * X - half <= p.x /\ p.x <= Unit * X + half
          /\ Unit * Y - half <= p.y /\ p.y <= Unit * Y + half
      <3> HIDE DEF p, X, Y, half
      <3> QED
        BY <2>1, <2>2, <2>3, ConstantsAssumption
    <2>5. CASE Spans(HorizontalRoads(roads, Y), p.x)
      <3>1. PICK g \in HorizontalRoads(roads, Y) :
               Unit * g.first - HalfWidth <= p.x /\ p.x <= Unit * g.second + HalfWidth
        BY <2>1, <2>5, SpannedByRoad
      <3>2. PICK road \in roads :
               IsHorizontal(road) /\ road.start.y = Y /\ g = Fragment(road.start.x, road.end.x)
        BY <3>1 DEF HorizontalRoads
      <3>3. /\ Fragment(road.start.y, road.end.y).first = Y
            /\ Fragment(road.start.y, road.end.y).second = Y
        BY <2>2, <3>2 DEF IsHorizontal, Fragment, Lesser, Greater
      <3> HIDE DEF X, Y, half
      <3>4. Beside(road, p)
        BY <2>4, <3>1, <3>2, <3>3 DEF Beside, half
      <3> QED
        BY <3>4 DEF StaysBesideRoads
    <2>6. CASE Spans(VerticalRoads(roads, X), p.y)
      <3>1. PICK g \in VerticalRoads(roads, X) :
               Unit * g.first - HalfWidth <= p.y /\ p.y <= Unit * g.second + HalfWidth
        BY <2>1, <2>6, SpannedByRoad
      <3>2. PICK road \in roads :
               ~ IsHorizontal(road) /\ road.start.x = X /\ g = Fragment(road.start.y, road.end.y)
        BY <3>1 DEF VerticalRoads
      <3>3. /\ Fragment(road.start.x, road.end.x).first = X
            /\ Fragment(road.start.x, road.end.x).second = X
        BY <2>1, <2>2, <3>2, MapsAssumption DEF IsHorizontal, Fragment, Lesser, Greater
      <3> HIDE DEF X, Y, half
      <3>4. Beside(road, p)
        BY <2>4, <3>1, <3>2, <3>3 DEF Beside, half
      <3> QED
        BY <3>4 DEF StaysBesideRoads
    <2> QED
      BY <2>5, <2>6 DEF Inv, OnRoad
  <1> QED
    BY <1>1, DogOnRoad, PTL
=============================================================================

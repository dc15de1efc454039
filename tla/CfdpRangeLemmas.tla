---------------------------- MODULE CfdpRangeLemmas ----------------------------
(***************************************************************************)
(* What the operations on received ranges (CfdpRanges) compute, for every       *)
(* array in canonical form: ccsds_cfdp_ranges_add merges and keeps the form,     *)
(* ccsds_cfdp_ranges_missing lists the gaps.                                 *)
(***************************************************************************)
EXTENDS CfdpRanges, SequenceTheorems, FiniteSetTheorems, WellFoundedInduction, TLAPS

-------------------------------------------------------------------------------
(* Least and greatest numbers *)

\* Every set of numbers that is not empty has a least one.
LEMMA LeastExists ==
    ASSUME NEW T, T \subseteq Nat, T # {}
    PROVE  \E x \in T : \A y \in T : x <= y
<1> DEFINE L == OpToRel(<, Nat)
<1>1. IsWellFoundedOn(L, Nat)
  BY NatLessThanWellFounded
<1>2. \A x, y \in Nat : y < x => << y, x >> \in L
  BY DEF OpToRel
<1> HIDE DEF L
<1>3. PICK x \in T : \A y \in T : ~(<< y, x >> \in L)
  BY <1>1, WFMin
<1>4. ASSUME NEW y \in T PROVE x <= y
  <2>1. x \in Nat /\ y \in Nat
    OBVIOUS
  <2>2. y < x => << y, x >> \in L
    BY <1>2, <2>1, Zenon
  <2>3. ~(y < x)
    BY <1>3, <2>2, Zenon
  <2> QED
    BY <2>1, <2>3
<1> QED
  BY <1>4

LEMMA MinIsLeast ==
    ASSUME NEW T, T \subseteq Nat, T # {}
    PROVE  Min(T) \in T /\ \A y \in T : Min(T) <= y
BY LeastExists DEF Min

LEMMA MaxIsGreatest ==
    ASSUME NEW T, T \subseteq Nat, NEW x \in T, \A y \in T : y <= x
    PROVE  Max(T) = x
<1>1. \A z \in T : (\A y \in T : z >= y) => z = x
  OBVIOUS
<1>2. \A y \in T : x >= y
  OBVIOUS
<1> QED
  BY <1>1, <1>2 DEF Max

-------------------------------------------------------------------------------
(* The two loops *)

\* The canonical form, said of all pairs of ranges and not only of neighbours.
Sorted(R) ==
    /\ \A i \in 1..Len(R) : R[i].start < R[i].end
    /\ \A i, j \in 1..Len(R) : i < j => R[i].end < R[j].start

LEMMA RangeTypes ==
    ASSUME NEW R \in Seq(Range32)
    PROVE  Len(R) \in Nat /\ \A i \in 1..Len(R) : R[i] \in Range32 /\ R[i].start \in Nat /\ R[i].end \in Nat
<1>1. \A i \in 1..Len(R) : R[i] \in Range32
  BY ElementOfSeq
<1> QED
  BY <1>1 DEF Range32

\* Where the first loop stops: all before end below s, the one there does not.
LEMMA FirstTouchingIs ==
    ASSUME NEW R \in Seq(Range32), NEW s \in Nat, NEW f, f = FirstTouching(R, s)
    PROVE  /\ f \in 1..(Len(R) + 1)
           /\ \A i \in 1..(f - 1) : R[i].end < s
           /\ f <= Len(R) => R[f].end >= s
<1> DEFINE T == {i \in 1..(Len(R) + 1) : i = Len(R) + 1 \/ R[i].end >= s}
<1>1. Len(R) \in Nat /\ \A i \in 1..Len(R) : R[i].end \in Nat
  BY RangeTypes
<1>2. T \subseteq Nat /\ Len(R) + 1 \in T
  BY <1>1
<1>3. f \in T /\ \A y \in T : f <= y
  <2>1. f = Min(T)
    BY DEF FirstTouching
  <2> HIDE DEF T
  <2> QED
    BY <1>2, <2>1, MinIsLeast
<1>4. ASSUME NEW i \in 1..(f - 1) PROVE R[i].end < s
  <2>1. i \in 1..Len(R) /\ ~(f <= i)
    BY <1>1, <1>3
  <2>2. i \notin T
    BY <1>3, <2>1
  <2> QED
    BY <1>1, <2>1, <2>2
<1>5. f \in 1..(Len(R) + 1) /\ (f <= Len(R) => R[f].end >= s)
  BY <1>1, <1>3
<1> QED
  BY <1>4, <1>5

\* Where the second loop stops: those it passed begin at or below e, the one there
\* begins above.
LEMMA FirstBeyondIs ==
    ASSUME NEW R \in Seq(Range32), NEW e \in Nat, NEW f \in 1..(Len(R) + 1),
           NEW l, l = FirstBeyond(R, e, f)
    PROVE  /\ l \in f..(Len(R) + 1)
           /\ \A i \in f..(l - 1) : R[i].start <= e
           /\ l <= Len(R) => R[l].start > e
<1> DEFINE T == {i \in f..(Len(R) + 1) : i = Len(R) + 1 \/ R[i].start > e}
<1>1. Len(R) \in Nat /\ \A i \in 1..Len(R) : R[i].start \in Nat
  BY RangeTypes
<1>2. T \subseteq Nat /\ Len(R) + 1 \in T
  BY <1>1
<1>3. l \in T /\ \A y \in T : l <= y
  <2>1. l = Min(T)
    BY DEF FirstBeyond
  <2> HIDE DEF T
  <2> QED
    BY <1>2, <2>1, MinIsLeast
<1>4. ASSUME NEW i \in f..(l - 1) PROVE R[i].start <= e
  <2>1. i \in 1..Len(R) /\ i \in f..(Len(R) + 1) /\ ~(l <= i)
    BY <1>1, <1>3
  <2>2. i \notin T
    BY <1>3, <2>1
  <2> QED
    BY <1>1, <2>1, <2>2
<1>5. l \in f..(Len(R) + 1) /\ (l <= Len(R) => R[l].start > e)
  BY <1>1, <1>3
<1> QED
  BY <1>4, <1>5

\* What a concatenation holds.
LEMMA Cat ==
    ASSUME NEW S, NEW a \in Seq(S), NEW b \in Seq(S)
    PROVE  /\ a \o b \in Seq(S) /\ Len(a \o b) = Len(a) + Len(b)
           /\ \A k \in 1..Len(a) : (a \o b)[k] = a[k]
OBVIOUS

\* The array R with the ranges f, ..., l - 1 merged into m.
Spliced(A, R, m, f, l) ==
    /\ A \in Seq(Range32) /\ Len(A) = Len(R) - (l - f) + 1
    /\ \A k \in 1..(f - 1) : A[k] = R[k]
    /\ A[f] = m
    /\ \A k \in (f + 1)..Len(A) : A[k] = R[k - f - 1 + l]

LEMMA SpliceIs ==
    ASSUME NEW R \in Seq(Range32), NEW m \in Range32, NEW f \in 1..(Len(R) + 1),
           NEW l \in f..(Len(R) + 1)
    PROVE  Spliced(SubSeq(R, 1, f - 1) \o << m >> \o SubSeq(R, l, Len(R)), R, m, f, l)
<1> DEFINE a == SubSeq(R, 1, f - 1)
           b == a \o << m >>
           c == SubSeq(R, l, Len(R))
           A == b \o c
           n == Len(R)
<1>1. n \in Nat /\ f \in Nat /\ l \in Nat
  OBVIOUS
<1>2. a \in Seq(Range32) /\ Len(a) = f - 1 /\ \A k \in 1..(f - 1) : a[k] = R[k]
  BY <1>1
<1>3. c \in Seq(Range32) /\ Len(c) = n - l + 1 /\ \A k \in 1..(n - l + 1) : c[k] = R[l + k - 1]
  BY <1>1
<1> HIDE DEF a, c
<1>4. /\ b \in Seq(Range32) /\ Len(b) = f /\ b[f] = m
      /\ \A k \in 1..(f - 1) : b[k] = R[k]
  BY <1>1, <1>2, SMTT(40)
<1> HIDE DEF b
<1>5. /\ A \in Seq(Range32) /\ Len(A) = f + (n - l + 1)
      /\ \A k \in 1..f : A[k] = b[k]
  <2>0. b \in Seq(Range32) /\ c \in Seq(Range32)
    BY <1>3, <1>4
  <2>1. /\ A \in Seq(Range32) /\ Len(A) = Len(b) + Len(c)
        /\ \A k \in 1..Len(b) : A[k] = b[k]
    BY <2>0, Cat
  <2> HIDE DEF A, n
  <2> QED
    BY <1>1, <1>3, <1>4, <2>1
<1>6. ASSUME NEW k \in (f + 1)..Len(A) PROVE A[k] = R[k - f - 1 + l]
  <2>1. k - f \in 1..Len(c) /\ Len(b) + (k - f) = k /\ l + (k - f) - 1 = k - f - 1 + l
    BY <1>1, <1>3, <1>4, <1>5
  <2>2. A[k] = c[k - f]
    BY <1>3, <1>4, <1>5, <2>1
  <2> QED
    BY <1>3, <2>1, <2>2
<1> HIDE DEF A, n
<1>7. Len(A) = n - (l - f) + 1
  BY <1>1, <1>5
<1>8. A[f] = m /\ \A k \in 1..(f - 1) : A[k] = R[k]
  BY <1>1, <1>4, <1>5
<1> QED
  BY <1>5, <1>6, <1>7, <1>8 DEF Spliced, A, b, a, c, n

\* The ranges f, ..., l - 1 are those the two loops find for [s, e).
Located(R, s, e, f, l) ==
    /\ f \in 1..(Len(R) + 1) /\ l \in f..(Len(R) + 1)
    /\ \A i \in 1..(f - 1) : R[i].end < s
    /\ f <= Len(R) => R[f].end >= s
    /\ \A i \in f..(l - 1) : R[i].start <= e
    /\ l <= Len(R) => R[l].start > e

LEMMA LoopsLocate ==
    ASSUME NEW R \in Seq(Range32), NEW s \in Nat, NEW e \in Nat
    PROVE  Located(R, s, e, FirstTouching(R, s), FirstBeyond(R, e, FirstTouching(R, s)))
<1> DEFINE f == FirstTouching(R, s)
           l == FirstBeyond(R, e, f)
<1>1. /\ f \in 1..(Len(R) + 1) /\ \A i \in 1..(f - 1) : R[i].end < s
      /\ f <= Len(R) => R[f].end >= s
  BY FirstTouchingIs
<1> HIDE DEF f
<1>2. /\ l \in f..(Len(R) + 1) /\ \A i \in f..(l - 1) : R[i].start <= e
      /\ l <= Len(R) => R[l].start > e
  BY <1>1, FirstBeyondIs
<1> HIDE DEF l
<1>3. Located(R, s, e, f, l)
  BY <1>1, <1>2 DEF Located
<1> QED
  BY <1>3 DEF f, l

\* x is in the bytes of range r.
Holds(r, x) == r.start <= x /\ x < r.end

\* m reaches over the new range and those it touches, over nothing else, and clear
\* of the others.
Reaches(m, R, s, e, f, l) ==
    /\ m \in Range32 /\ m.start < m.end
    /\ \A i \in 1..(f - 1) : R[i].end < m.start
    /\ \A i \in l..Len(R) : m.end < R[i].start
    /\ \A x \in Nat : Holds(m, x) <=>
          (s <= x /\ x < e) \/ \E i \in f..(l - 1) : Holds(R[i], x)

LEMMA MergedRangeIs ==
    ASSUME NEW R \in Seq(Range32), Sorted(R), NEW s \in Nat, NEW e \in Nat, s < e,
           NEW f, NEW l, Located(R, s, e, f, l)
    PROVE  Reaches(MergedRange(R, s, e, f, l), R, s, e, f, l)
<1> DEFINE S == {s} \cup {R[i].start : i \in f..(l - 1)}
           E == {e} \cup {R[i].end : i \in f..(l - 1)}
           m == MergedRange(R, s, e, f, l)
<1>1. Len(R) \in Nat /\ \A i \in 1..Len(R) : R[i].start \in Nat /\ R[i].end \in Nat
  BY RangeTypes
<1>2. /\ f \in 1..(Len(R) + 1) /\ \A i \in 1..(f - 1) : R[i].end < s
      /\ f <= Len(R) => R[f].end >= s
  BY DEF Located
<1>3. /\ l \in f..(Len(R) + 1) /\ \A i \in f..(l - 1) : R[i].start <= e
      /\ l <= Len(R) => R[l].start > e
  BY DEF Located
<1>4. f \in Nat /\ l \in Nat /\ \A i \in f..(l - 1) : i \in 1..Len(R)
  BY <1>1, <1>2, <1>3
<1>5. /\ \A i \in 1..Len(R) : R[i].start < R[i].end
      /\ \A i, j \in 1..Len(R) : i < j => R[i].end < R[j].start
  BY DEF Sorted
<1>6. S \subseteq Nat /\ s \in S /\ E \subseteq Nat
  BY <1>1, <1>4
<1>7. Min(S) \in S /\ \A y \in S : Min(S) <= y
  BY <1>6, MinIsLeast
<1>8. Max(E) \in E /\ \A y \in E : y <= Max(E)
  <2>1. \E x \in E : \A y \in E : y <= x
    <3>1. CASE f = l
      <4>1. f..(l - 1) = {}
        BY <1>4, <3>1
      <4>2. E = {e}
        BY <4>1
      <4> HIDE DEF E
      <4> QED
        BY <4>2
    <3>2. CASE f < l
      <4>1. l - 1 \in f..(l - 1) /\ l - 1 \in 1..Len(R)
        BY <1>4, <3>2
      <4>2. \A i \in f..(l - 1) : R[i].end <= R[l - 1].end
        BY <1>1, <1>4, <1>5, <4>1
      <4>3. R[l - 1].end \in E /\ R[l - 1].end \in Nat
        BY <1>1, <4>1
      <4>4. CASE R[l - 1].end <= e
        <5>1. \A i \in f..(l - 1) : R[i].end <= e
          BY <1>1, <1>4, <4>2, <4>3, <4>4
        <5> QED
          BY <5>1
      <4>5. CASE R[l - 1].end > e
        <5>1. \A y \in E : y <= R[l - 1].end
          BY <4>2, <4>3, <4>5
        <5> QED
          BY <4>3, <5>1
      <4> QED
        BY <4>3, <4>4, <4>5
    <3> QED
      BY <1>3, <1>4, <3>1, <3>2
  <2>2. PICK x \in E : \A y \in E : y <= x
    BY <2>1
  <2> HIDE DEF E
  <2>3. Max(E) = x
    BY <1>6, <2>2, MaxIsGreatest
  <2> QED
    BY <2>2, <2>3
<1>9. m.start = Min(S) /\ m.end = Max(E) /\ m = [start |-> Min(S), end |-> Max(E)]
  BY DEF MergedRange, m
<1>10. /\ m.start \in Nat /\ m.end \in Nat /\ m.start <= s /\ e <= m.end
       /\ m.start = s \/ \E i \in f..(l - 1) : m.start = R[i].start
       /\ m.end = e \/ \E i \in f..(l - 1) : m.end = R[i].end
       /\ \A i \in f..(l - 1) : m.start <= R[i].start /\ R[i].end <= m.end
  <2> DEFINE lo == Min(S)
             hi == Max(E)
  <2>1. lo \in S /\ (\A y \in S : lo <= y) /\ lo \in Nat
    BY <1>6, <1>7
  <2>2. hi \in E /\ (\A y \in E : y <= hi) /\ hi \in Nat
    BY <1>6, <1>8
  <2>3. m.start = lo /\ m.end = hi
    BY <1>9
  <2> HIDE DEF lo, hi
  <2>4. /\ lo <= s /\ (lo = s \/ \E i \in f..(l - 1) : lo = R[i].start)
        /\ \A i \in f..(l - 1) : lo <= R[i].start
    BY <2>1
  <2>5. /\ e <= hi /\ (hi = e \/ \E i \in f..(l - 1) : hi = R[i].end)
        /\ \A i \in f..(l - 1) : R[i].end <= hi
    BY <2>2
  <2> QED
    BY <2>1, <2>2, <2>3, <2>4, <2>5
<1> HIDE DEF S, E, m
<1>11. m \in Range32
  BY <1>9, <1>10 DEF Range32
<1>12. m.start < m.end
  BY <1>10
<1>13. ASSUME NEW i \in 1..(f - 1) PROVE R[i].end < m.start
  <2>1. i \in 1..Len(R) /\ R[i].end < s /\ \A j \in f..(l - 1) : i < j
    BY <1>1, <1>2, <1>3, <1>4
  <2>2. \A j \in f..(l - 1) : R[i].end < R[j].start
    BY <1>4, <1>5, <2>1
  <2> QED
    BY <1>10, <2>1, <2>2
<1>14. ASSUME NEW i \in l..Len(R) PROVE m.end < R[i].start
  <2>1. i \in 1..Len(R) /\ l \in 1..Len(R) /\ R[l].start > e /\ \A j \in f..(l - 1) : j < i
    BY <1>1, <1>2, <1>3, <1>4
  <2>2. \A j \in f..(l - 1) : R[j].end < R[i].start
    BY <1>4, <1>5, <2>1
  <2>3. e < R[i].start
    <3>1. CASE i = l
      BY <2>1, <3>1
    <3>2. CASE l < i
      <4>1. R[l].end < R[i].start /\ R[l].start < R[l].end
        BY <1>5, <2>1, <3>2
      <4> QED
        BY <1>1, <2>1, <4>1
    <3> QED
      BY <1>4, <3>1, <3>2
  <2> QED
    BY <1>10, <2>2, <2>3
<1>15. ASSUME NEW x \in Nat, m.start <= x, x < m.end, ~(s <= x /\ x < e)
       PROVE  \E i \in f..(l - 1) : R[i].start <= x /\ x < R[i].end
  <2>1. CASE x < s
    <3>1. PICK i \in f..(l - 1) : m.start = R[i].start
      BY <1>10, <1>15, <2>1
    <3>2. f \in 1..Len(R) /\ R[f].end >= s /\ i \in 1..Len(R)
      BY <1>1, <1>2, <1>3, <1>4
    <3>3. R[i].end >= s
      <4>1. CASE i = f
        BY <3>2, <4>1
      <4>2. CASE f < i
        <5>1. R[f].end < R[i].start /\ R[i].start < R[i].end
          BY <1>5, <3>2, <4>2
        <5> QED
          BY <1>1, <3>2, <5>1
      <4> QED
        BY <1>4, <4>1, <4>2
    <3> QED
      BY <1>1, <1>15, <2>1, <3>1, <3>2, <3>3
  <2>2. CASE x >= e
    <3>1. PICK i \in f..(l - 1) : m.end = R[i].end
      BY <1>10, <1>15, <2>2
    <3>2. R[i].start <= e /\ i \in 1..Len(R)
      BY <1>3, <1>4
    <3> QED
      BY <1>1, <1>15, <2>2, <3>1, <3>2
  <2> QED
    BY <1>15, <2>1, <2>2
<1>16. ASSUME NEW x \in Nat, \/ s <= x /\ x < e
                            \/ \E i \in f..(l - 1) : R[i].start <= x /\ x < R[i].end
       PROVE  m.start <= x /\ x < m.end
  <2>1. CASE s <= x /\ x < e
    BY <1>10, <2>1
  <2>2. ASSUME NEW i \in f..(l - 1), R[i].start <= x, x < R[i].end PROVE m.start <= x /\ x < m.end
    <3>1. R[i].start \in Nat /\ R[i].end \in Nat
      BY <1>1, <1>4
    <3> QED
      BY <1>10, <2>2, <3>1
  <2> QED
    BY <1>16, <2>1, <2>2
<1> QED
  BY <1>11, <1>12, <1>13, <1>14, <1>15, <1>16 DEF Reaches, Holds, m

-------------------------------------------------------------------------------
(* ccsds_cfdp_ranges_add *)

LEMMA InCovered ==
    ASSUME NEW R \in Seq(Range32), NEW x
    PROVE  x \in Covered(R) <=> x \in Nat /\ \E i \in 1..Len(R) : Holds(R[i], x)
<1>1. \A i \in 1..Len(R) : R[i].start \in Nat /\ R[i].end \in Nat
  BY RangeTypes
<1>2. x \in Covered(R) <=> \E i \in 1..Len(R) : x \in R[i].start..(R[i].end - 1)
  BY DEF Covered
<1>3. \A i \in 1..Len(R) : x \in R[i].start..(R[i].end - 1) <=> x \in Nat /\ Holds(R[i], x)
  BY <1>1 DEF Holds
<1> QED
  BY <1>2, <1>3

\* An array that is sorted stays so when ranges are merged, and stands for the new
\* bytes and those it stood for.
LEMMA SpliceKeeps ==
    ASSUME NEW R \in Seq(Range32), Sorted(R), NEW s \in Nat, NEW e \in Nat, s < e,
           NEW f, NEW l, Located(R, s, e, f, l), NEW m, Reaches(m, R, s, e, f, l),
           NEW A, Spliced(A, R, m, f, l)
    PROVE  Sorted(A) /\ Covered(A) = Covered(R) \cup (s..(e - 1))
<1> DEFINE n == Len(R)
           d == l - f - 1
<1>1. n \in Nat /\ \A i \in 1..n : R[i].start \in Nat /\ R[i].end \in Nat
  BY RangeTypes
<1>2. f \in 1..(n + 1) /\ l \in f..(n + 1) /\ f \in Nat /\ l \in Nat /\ d \in Int
  BY <1>1 DEF Located
<1>3. /\ m.start < m.end /\ m.start \in Nat /\ m.end \in Nat
      /\ \A i \in 1..(f - 1) : R[i].end < m.start
      /\ \A i \in l..n : m.end < R[i].start
      /\ \A x \in Nat : Holds(m, x) <=>
            (s <= x /\ x < e) \/ \E i \in f..(l - 1) : Holds(R[i], x)
  BY DEF Reaches, Range32
<1>4. /\ \A i \in 1..n : R[i].start < R[i].end
      /\ \A i, j \in 1..n : i < j => R[i].end < R[j].start
  BY DEF Sorted
<1>5. /\ A \in Seq(Range32) /\ Len(A) = n - d
      /\ \A k \in 1..(f - 1) : A[k] = R[k] /\ k \in 1..n
      /\ A[f] = m /\ f \in 1..Len(A)
      /\ \A k \in (f + 1)..Len(A) : A[k] = R[k + d] /\ k + d \in l..n /\ k + d \in 1..n
  <2>1. /\ A \in Seq(Range32) /\ Len(A) = n - (l - f) + 1
        /\ \A k \in 1..(f - 1) : A[k] = R[k]
        /\ A[f] = m
        /\ \A k \in (f + 1)..Len(A) : A[k] = R[k - f - 1 + l]
    BY DEF Spliced
  <2>2. Len(A) = n - d /\ f \in 1..Len(A)
    BY <1>1, <1>2, <2>1
  <2>3. \A k \in (f + 1)..Len(A) : k - f - 1 + l = k + d /\ k + d \in l..n /\ k + d \in 1..n
    BY <1>1, <1>2, <2>2
  <2>4. \A k \in 1..(f - 1) : k \in 1..n
    BY <1>1, <1>2
  <2> QED
    BY <2>1, <2>2, <2>3, <2>4
<1> HIDE DEF d, n
<1>6. Len(A) \in Nat
  BY <1>5
<1>7. Sorted(A)
  <2>1. ASSUME NEW k \in 1..Len(A) PROVE A[k].start < A[k].end
    <3>1. CASE k \in 1..(f - 1)
      BY <1>4, <1>5, <3>1
    <3>2. CASE k = f
      BY <1>3, <1>5, <3>2
    <3>3. CASE k \in (f + 1)..Len(A)
      BY <1>4, <1>5, <3>3
    <3> QED
      BY <1>2, <1>6, <3>1, <3>2, <3>3
  <2>2. ASSUME NEW j \in 1..Len(A), NEW k \in 1..Len(A), j < k PROVE A[j].end < A[k].start
    <3>1. CASE k \in 1..(f - 1)
      <4>1. j \in 1..(f - 1)
        BY <1>2, <1>6, <2>2, <3>1
      <4> QED
        BY <1>4, <1>5, <2>2, <3>1, <4>1
    <3>2. CASE k = f
      <4>1. j \in 1..(f - 1)
        BY <1>2, <1>6, <2>2, <3>2
      <4> QED
        BY <1>3, <1>5, <3>2, <4>1
    <3>3. CASE k \in (f + 1)..Len(A) /\ j \in 1..(f - 1)
      <4>1. A[k] = R[k + d] /\ k + d \in 1..n /\ A[j] = R[j] /\ j \in 1..n /\ k + d \in l..n
        BY <1>5, <3>3
      <4>2. j < k + d
        BY <1>2, <3>3, <4>1
      <4> QED
        BY <1>4, <4>1, <4>2
    <3>4. CASE k \in (f + 1)..Len(A) /\ j = f
      BY <1>3, <1>5, <3>4
    <3>5. CASE k \in (f + 1)..Len(A) /\ j \in (f + 1)..Len(A)
      <4>1. A[k] = R[k + d] /\ k + d \in 1..n /\ A[j] = R[j + d] /\ j + d \in 1..n
        BY <1>5, <3>5
      <4>2. j + d < k + d
        BY <1>2, <1>6, <2>2
      <4> QED
        BY <1>4, <4>1, <4>2
    <3> QED
      BY <1>2, <1>6, <3>1, <3>2, <3>3, <3>4, <3>5
  <2> QED
    BY <2>1, <2>2 DEF Sorted
<1>8. ASSUME NEW x \in Nat
      PROVE  (\E k \in 1..Len(A) : Holds(A[k], x)) <=>
                (s <= x /\ x < e) \/ \E i \in 1..n : Holds(R[i], x)
  <2>1. ASSUME NEW k \in 1..Len(A), Holds(A[k], x)
        PROVE  (s <= x /\ x < e) \/ \E i \in 1..n : Holds(R[i], x)
    <3>1. CASE k \in 1..(f - 1)
      BY <1>5, <2>1, <3>1
    <3>2. CASE k = f
      <4>1. Holds(m, x)
        BY <1>5, <2>1, <3>2
      <4>2. \A i \in f..(l - 1) : i \in 1..n
        BY <1>1, <1>2
      <4> QED
        BY <1>3, <4>1, <4>2
    <3>3. CASE k \in (f + 1)..Len(A)
      BY <1>5, <2>1, <3>3
    <3> QED
      BY <1>2, <1>6, <3>1, <3>2, <3>3
  <2>2. ASSUME s <= x, x < e PROVE \E k \in 1..Len(A) : Holds(A[k], x)
    BY <1>3, <1>5, <2>2
  <2>3. ASSUME NEW i \in 1..n, Holds(R[i], x) PROVE \E k \in 1..Len(A) : Holds(A[k], x)
    <3>1. CASE i < f
      <4>1. i \in 1..(f - 1) /\ i \in 1..Len(A)
        BY <1>1, <1>2, <1>5, <1>6, <3>1
      <4> QED
        BY <1>5, <2>3, <4>1
    <3>2. CASE i \in f..(l - 1)
      BY <1>3, <1>5, <2>3, <3>2
    <3>3. CASE i >= l
      <4> DEFINE k == i - d
      <4>1. k \in (f + 1)..Len(A) /\ k + d = i /\ k \in 1..Len(A)
        BY <1>1, <1>2, <1>5, <3>3 DEF d
      <4> HIDE DEF k
      <4>2. A[k] = R[i]
        BY <1>5, <4>1
      <4> QED
        BY <2>3, <4>1, <4>2
    <3> QED
      BY <1>1, <1>2, <3>1, <3>2, <3>3
  <2> QED
    BY <2>1, <2>2, <2>3
<1>9. ASSUME NEW x PROVE x \in Covered(A) <=> x \in Covered(R) \cup (s..(e - 1))
  <2>1. x \in s..(e - 1) <=> x \in Nat /\ s <= x /\ x < e
    OBVIOUS
  <2>2. x \in Covered(A) <=> x \in Nat /\ \E k \in 1..Len(A) : Holds(A[k], x)
    BY <1>5, InCovered
  <2>3. x \in Covered(R) <=> x \in Nat /\ \E i \in 1..n : Holds(R[i], x)
    BY InCovered DEF n
  <2> QED
    BY <1>8, <2>1, <2>2, <2>3
<1> QED
  BY <1>7, <1>9

\* What ccsds_cfdp_ranges_add makes of an array and returns.
LEMMA RangesAddKeeps ==
    ASSUME NEW R \in Seq(Range32), Sorted(R), Len(R) <= MaxNakRanges,
           NEW s \in Nat, NEW e \in Nat
    PROVE  LET a == RangesAdd(R, s, e)
           IN  /\ a.ranges \in Seq(Range32) /\ Sorted(a.ranges) /\ Len(a.ranges) <= MaxNakRanges
               /\ a.status = "OK" => Covered(a.ranges) = Covered(R) \cup (s..(e - 1))
               /\ a.status # "OK" => a.ranges = R
<1> DEFINE a == RangesAdd(R, s, e)
           f == FirstTouching(R, s)
           l == FirstBeyond(R, e, f)
           m == MergedRange(R, s, e, f, l)
           A == SubSeq(R, 1, f - 1) \o << m >> \o SubSeq(R, l, Len(R))
<1>1. CASE ~(s < e) \/ NoRoom(R, f, l)
  <2>1. a.status # "OK" /\ a.ranges = R
    BY <1>1 DEF RangesAdd, RangeIsValid
  <2> HIDE DEF a
  <2>2. /\ a.ranges \in Seq(Range32) /\ Sorted(a.ranges) /\ Len(a.ranges) <= MaxNakRanges
    BY <2>1
  <2> QED
    BY <2>1, <2>2 DEF a
<1>2. CASE s < e /\ ~NoRoom(R, f, l)
  <2>1. a.status = "OK" /\ a.ranges = A
    BY <1>2 DEF RangesAdd, RangeIsValid
  <2>2. Located(R, s, e, f, l) /\ ~(l = f /\ Len(R) = MaxNakRanges)
    BY <1>2, LoopsLocate DEF NoRoom
  <2> HIDE DEF a, f, l
  <2>3. Reaches(m, R, s, e, f, l)
    BY <1>2, <2>2, MergedRangeIs
  <2> HIDE DEF m
  <2>4. f \in 1..(Len(R) + 1) /\ l \in f..(Len(R) + 1) /\ m \in Range32
    BY <2>2, <2>3 DEF Located, Reaches
  <2>5. Spliced(A, R, m, f, l)
    BY <2>4, SpliceIs
  <2> HIDE DEF A
  <2>6. Sorted(A) /\ Covered(A) = Covered(R) \cup (s..(e - 1))
    BY <1>2, <2>2, <2>3, <2>5, SpliceKeeps
  <2>7. A \in Seq(Range32) /\ Len(A) = Len(R) - (l - f) + 1
    BY <2>5 DEF Spliced
  <2>8. Len(A) <= MaxNakRanges
    BY <2>2, <2>4, <2>7, MaxNakRangesAssumption
  <2> QED
    BY <2>1, <2>6, <2>7, <2>8 DEF a
<1> QED
  BY <1>1, <1>2

-------------------------------------------------------------------------------
(* ccsds_cfdp_ranges_missing *)

\* The state of the loop before the first range.
ScanStart(s) == [status |-> "OK", ranges |-> << >>, cursor |-> s, done |-> FALSE]

\* The loop is what its recursion says.
LEMMA MissingScanIs ==
    ASSUME NEW R, Len(R) \in Nat, NEW s, NEW e
    PROVE  LET scan == MissingScan(R, s, e)
           IN  /\ scan[0] = ScanStart(s)
               /\ \A k \in 1..Len(R) : scan[k] = MissingStep(scan[k - 1], R[k], e)
<1> DEFINE After(g, n) == [k \in 0..n |-> IF k = 0 THEN ScanStart(s)
                                         ELSE MissingStep(g[k - 1], R[k], e)]
           T == {n \in Nat : ~ \E g : g = After(g, n)}
<1>1. T = {}
  <2> SUFFICES ASSUME T # {} PROVE FALSE
    OBVIOUS
  <2>1. PICK n \in T : \A y \in T : n <= y
    BY LeastExists
  <2>2. n \in Nat /\ ~ \E g : g = After(g, n)
    OBVIOUS
  <2>3. CASE n = 0
    <3> DEFINE g == [k \in 0..0 |-> ScanStart(s)]
    <3>1. g = After(g, 0)
      <4>1. \A k \in 0..0 : k = 0
        OBVIOUS
      <4> QED
        BY <4>1, Zenon
    <3> QED
      BY <2>2, <2>3, <3>1
  <2>4. CASE n # 0
    <3>1. n - 1 \in Nat /\ ~(n <= n - 1)
      BY <2>2, <2>4
    <3>2. PICK g : g = After(g, n - 1)
      BY <2>1, <3>1
    <3> DEFINE x == MissingStep(g[n - 1], R[n], e)
               h == [k \in 0..n |-> IF k = n THEN x ELSE g[k]]
    <3> HIDE DEF x
    <3>3. \A k \in 0..n : h[k] = IF k = 0 THEN ScanStart(s) ELSE MissingStep(h[k - 1], R[k], e)
      <4> SUFFICES ASSUME NEW k \in 0..n
                   PROVE  h[k] = IF k = 0 THEN ScanStart(s) ELSE MissingStep(h[k - 1], R[k], e)
        OBVIOUS
      <4>1. CASE k = 0
        <5>1. 0 \in 0..(n - 1) /\ k # n /\ h[k] = g[0]
          BY <2>2, <2>4, <4>1
        <5>2. g[0] = ScanStart(s)
          BY <3>2, <5>1, Zenon
        <5> QED
          BY <4>1, <5>1, <5>2
      <4>2. CASE k # 0 /\ k # n
        <5>1. k \in 0..(n - 1) /\ k - 1 \in 0..n /\ k - 1 # n /\ h[k] = g[k] /\ h[k - 1] = g[k - 1]
          BY <2>2, <4>2
        <5>2. g[k] = MissingStep(g[k - 1], R[k], e)
          BY <3>2, <4>2, <5>1, Zenon
        <5> HIDE DEF h
        <5> QED
          BY <4>2, <5>1, <5>2
      <4>3. CASE k = n
        <5>1. k - 1 \in 0..n /\ k - 1 # n /\ h[k] = x /\ h[k - 1] = g[n - 1]
          BY <2>2, <2>4, <4>3
        <5> HIDE DEF h
        <5> QED
          BY <2>4, <4>3, <5>1 DEF x
      <4> QED
        BY <4>1, <4>2, <4>3
    <3>4. h = After(h, n)
      <4>1. h = [k \in 0..n |-> h[k]]
        OBVIOUS
      <4> HIDE DEF h
      <4> QED
        BY <3>3, <4>1, Zenon
    <3> QED
      BY <2>2, <3>4
  <2> QED
    BY <2>3, <2>4
<1> DEFINE scan == MissingScan(R, s, e)
<1>2. \E g : g = After(g, Len(R))
  BY <1>1
<1>3. scan = CHOOSE g : g = After(g, Len(R))
  BY DEF MissingScan, ScanStart
<1>4. scan = After(scan, Len(R))
  <2> HIDE DEF scan
  <2> QED
    BY <1>2, <1>3, Zenon
<1> HIDE DEF scan
<1>5. scan[0] = ScanStart(s)
  BY <1>4, 0 \in 0..Len(R), Zenon
<1>6. ASSUME NEW k \in 1..Len(R) PROVE scan[k] = MissingStep(scan[k - 1], R[k], e)
  <2>1. k \in 0..Len(R) /\ k # 0
    OBVIOUS
  <2> QED
    BY <1>4, <2>1, Zenon
<1> QED
  BY <1>5, <1>6 DEF scan


\* The ranges of A are the gaps of R between s and c.
GapsUpTo(A, R, s, c) ==
    /\ A \in Seq(Range32) /\ Sorted(A) /\ Len(A) <= MaxNakRanges
    /\ \A x \in Nat : x \in Covered(A) <=> s <= x /\ x < c /\ x \notin Covered(R)

\* c is where the window begins or a received range ends.
AtEdge(R, s, c) == c = s \/ (c > s /\ c - 1 \in Covered(R))

\* Adding a range above all others.
LEMMA AddAbove ==
    ASSUME NEW R \in Seq(Range32), NEW s \in Nat, NEW e \in Nat, s < e,
           \A i \in 1..Len(R) : R[i].end < s
    PROVE  RangesAdd(R, s, e).status = IF Len(R) = MaxNakRanges THEN "BUFFER" ELSE "OK"
<1> DEFINE f == FirstTouching(R, s)
           l == FirstBeyond(R, e, f)
<1>1. Len(R) \in Nat /\ \A i \in 1..Len(R) : R[i].end \in Nat
  BY RangeTypes
<1>2. f \in 1..(Len(R) + 1) /\ (f <= Len(R) => R[f].end >= s)
  BY FirstTouchingIs
<1>3. f = Len(R) + 1
  <2> HIDE DEF f
  <2>1. f <= Len(R) => f \in 1..Len(R) /\ R[f].end < s /\ R[f].end >= s /\ R[f].end \in Nat
    BY <1>1, <1>2
  <2> QED
    BY <1>1, <1>2, <2>1
<1> HIDE DEF f
<1>4. l \in f..(Len(R) + 1)
  BY <1>2, FirstBeyondIs
<1> HIDE DEF l
<1>5. l = f
  BY <1>1, <1>3, <1>4
<1>6. RangeIsValid(s, e) /\ (NoRoom(R, f, l) <=> Len(R) = MaxNakRanges)
  BY <1>5 DEF RangeIsValid, NoRoom
<1> QED
  BY <1>6 DEF RangesAdd, f, l

\* The ranges of a sequence of gaps lie in the window.
LEMMA GapsWithin ==
    ASSUME NEW A, NEW R, NEW s \in Nat, NEW c \in Nat, GapsUpTo(A, R, s, c)
    PROVE  /\ Len(A) \in Nat
           /\ \A i \in 1..Len(A) : /\ A[i].start \in Nat /\ A[i].end \in Nat
                                   /\ s <= A[i].start /\ A[i].start < A[i].end /\ A[i].end <= c
<1>1. A \in Seq(Range32) /\ Len(A) \in Nat
  BY DEF GapsUpTo
<1>2. ASSUME NEW i \in 1..Len(A)
      PROVE  /\ A[i].start \in Nat /\ A[i].end \in Nat
             /\ s <= A[i].start /\ A[i].start < A[i].end /\ A[i].end <= c
  <2>1. A[i].start \in Nat /\ A[i].end \in Nat /\ A[i].start < A[i].end
    BY <1>1, RangeTypes DEF GapsUpTo, Sorted
  <2> DEFINE x == A[i].end - 1
  <2>2. x \in Nat /\ Holds(A[i], x) /\ Holds(A[i], A[i].start)
    BY <2>1 DEF Holds
  <2> HIDE DEF x
  <2>3. x \in Covered(A) /\ A[i].start \in Covered(A)
    BY <1>1, <2>1, <2>2, InCovered
  <2>4. x < c /\ s <= A[i].start
    BY <2>1, <2>2, <2>3 DEF GapsUpTo
  <2> QED
    BY <2>1, <2>4 DEF x
<1> QED
  BY <1>1, <1>2

\* The ranges of A end below c.
Below(A, c) == \A i \in 1..Len(A) : A[i].end < c

\* Nothing of [c, g) is received.
Open(R, c, g) == \A x \in Nat : c <= x /\ x < g => x \notin Covered(R)

\* What adding the gap that ends at g to the gaps of A returns.
GapTold(a, A, R, s, g) ==
    /\ a.status = IF Len(A) = MaxNakRanges THEN "BUFFER" ELSE "OK"
    /\ a.status = "OK" => GapsUpTo(a.ranges, R, s, g)
    /\ a.status # "OK" => a.ranges = A

\* The gap between c and the next received byte g is added, if there is room.
LEMMA GapAdded ==
    ASSUME NEW A, NEW R, NEW s, s \in Nat, NEW c, c \in Nat, NEW g, g \in Nat,
           GapsUpTo(A, R, s, c), s <= c, c < g, Below(A, c), Open(R, c, g)
    PROVE  GapTold(RangesAdd(A, c, g), A, R, s, g)
<1> USE DEF Below, Open
<1> DEFINE a == RangesAdd(A, c, g)
<1>1. A \in Seq(Range32) /\ Sorted(A) /\ Len(A) <= MaxNakRanges
  BY DEF GapsUpTo
<1>2. a.status = IF Len(A) = MaxNakRanges THEN "BUFFER" ELSE "OK"
  BY <1>1, AddAbove
<1>3. /\ a.ranges \in Seq(Range32) /\ Sorted(a.ranges) /\ Len(a.ranges) <= MaxNakRanges
      /\ a.status = "OK" => Covered(a.ranges) = Covered(A) \cup (c..(g - 1))
      /\ a.status # "OK" => a.ranges = A
  BY <1>1, RangesAddKeeps
<1> HIDE DEF a
<1>4. a.status = "OK" => GapsUpTo(a.ranges, R, s, g)
  <2> SUFFICES ASSUME a.status = "OK", NEW x \in Nat
               PROVE  x \in Covered(a.ranges) <=> s <= x /\ x < g /\ x \notin Covered(R)
    BY <1>3 DEF GapsUpTo
  <2>1. x \in Covered(a.ranges) <=> x \in Covered(A) \/ (c <= x /\ x < g)
    BY <1>3
  <2>2. x \in Covered(A) <=> s <= x /\ x < c /\ x \notin Covered(R)
    BY DEF GapsUpTo
  <2>3. c <= x /\ x < g => x \notin Covered(R)
    OBVIOUS
  <2> QED
    BY <2>1, <2>2, <2>3
<1>5. GapTold(a, A, R, s, g)
  BY <1>2, <1>3, <1>4 DEF GapTold
<1> QED
  BY <1>5 DEF a


\* Received bytes do not add to the gaps.
LEMMA GapsGrow ==
    ASSUME NEW A, NEW R, NEW s \in Nat, NEW c \in Nat, NEW d \in Nat, GapsUpTo(A, R, s, c),
           c <= d, \A x \in Nat : c <= x /\ x < d => x \in Covered(R)
    PROVE  GapsUpTo(A, R, s, d)
<1>1. \A x \in Nat : x \in Covered(A) <=> s <= x /\ x < d /\ x \notin Covered(R)
  BY DEF GapsUpTo
<1> QED
  BY <1>1 DEF GapsUpTo

\* There are more gaps than there is room for: A is full, and c begins another one.
Short(R, s, e) ==
    \E A, c : /\ c \in Nat /\ GapsUpTo(A, R, s, c) /\ Len(A) = MaxNakRanges
              /\ AtEdge(R, s, c) /\ s <= c /\ c < e /\ c \notin Covered(R)

\* The loop has listed the gaps below the cursor, and has passed k ranges, or knows
\* that none of those left begins in the window.
Listed(acc, R, k, s, e) ==
    /\ GapsUpTo(acc.ranges, R, s, acc.cursor) /\ AtEdge(R, s, acc.cursor)
    /\ \A i \in 1..Len(acc.ranges) : acc.ranges[i].end < acc.cursor
    /\ \A x \in Nat : e <= x /\ x < acc.cursor => x \in Covered(R)
    /\ acc.done => \A x \in Nat : acc.cursor <= x /\ x < e => x \notin Covered(R)
    /\ ~acc.done => \A j \in 1..k : R[j].end <= acc.cursor

ScanInv(acc, R, k, s, e) ==
    /\ acc \in [status: {"OK", "BUFFER"}, ranges: Seq(Range32), cursor: Nat, done: BOOLEAN]
    /\ s <= acc.cursor
    /\ acc.status = "OK" => Listed(acc, R, k, s, e)
    /\ acc.status # "OK" => Short(R, s, e)

LEMMA ScanBegins ==
    ASSUME NEW R \in Seq(Range32), NEW s \in Nat, NEW e \in Nat, s < e
    PROVE  ScanInv(ScanStart(s), R, 0, s, e)
<1> DEFINE acc == ScanStart(s)
<1>1. /\ acc \in [status: {"OK", "BUFFER"}, ranges: Seq(Range32), cursor: Nat, done: BOOLEAN]
      /\ acc.ranges = << >> /\ acc.cursor = s /\ acc.status = "OK" /\ acc.done = FALSE
  BY DEF ScanStart
<1>2. Len(<< >>) = 0 /\ << >> \in Seq(Range32)
  OBVIOUS
<1>3. Covered(<< >>) = {}
  BY DEF Covered
<1>4. Sorted(<< >>)
  BY DEF Sorted
<1>5. GapsUpTo(<< >>, R, s, s)
  BY <1>2, <1>3, <1>4, MaxNakRangesAssumption DEF GapsUpTo
<1> HIDE DEF acc
<1>6. Listed(acc, R, 0, s, e)
  BY <1>1, <1>2, <1>5 DEF Listed, AtEdge
<1>7. ScanInv(acc, R, 0, s, e)
  BY <1>1, <1>6 DEF ScanInv
<1> QED
  BY <1>7 DEF acc

LEMMA ScanStep ==
    ASSUME NEW R \in Seq(Range32), Sorted(R), NEW s \in Nat, NEW e \in Nat, s < e,
           NEW k \in 1..Len(R), NEW acc, ScanInv(acc, R, k - 1, s, e)
    PROVE  ScanInv(MissingStep(acc, R[k], e), R, k, s, e)
<1> DEFINE r == R[k]
           n == Len(R)
           c == acc.cursor
           A == acc.ranges
           next == MissingStep(acc, r, e)
<1>1. n \in Nat /\ \A i \in 1..n : R[i].start \in Nat /\ R[i].end \in Nat
  BY RangeTypes
<1>2. /\ \A i \in 1..n : R[i].start < R[i].end
      /\ \A i, j \in 1..n : i < j => R[i].end < R[j].start
  BY DEF Sorted
<1>3. \A x \in Nat : x \in Covered(R) <=> \E i \in 1..n : R[i].start <= x /\ x < R[i].end
  BY InCovered DEF Holds
<1>4. /\ acc \in [status: {"OK", "BUFFER"}, ranges: Seq(Range32), cursor: Nat, done: BOOLEAN]
      /\ c \in Nat /\ s <= c
  BY DEF ScanInv
<1>5. r.start \in Nat /\ r.end \in Nat /\ r.start < r.end /\ k \in Nat
  BY <1>1, <1>2
<1>6. \A j \in 1..n : j < k => j \in 1..(k - 1)
  BY <1>1
<1>7. \A j \in 1..n : k < j => r.start < R[j].start
  BY <1>1, <1>2
<1>8. \A x \in Nat : r.start <= x /\ x < r.end => x \in Covered(R)
  BY <1>3
<1>9. ASSUME acc.status = "OK", ~acc.done, NEW x \in Nat, c <= x, x < r.start
      PROVE  x \notin Covered(R)
  <2>1. \A j \in 1..(k - 1) : R[j].end <= c
    BY <1>9 DEF ScanInv, Listed
  <2>2. ASSUME NEW j \in 1..n, R[j].start <= x, x < R[j].end PROVE FALSE
    <3>1. CASE j < k
      BY <1>1, <1>4, <1>6, <1>9, <2>1, <2>2, <3>1
    <3>2. CASE j = k
      BY <1>5, <1>9, <2>2, <3>2
    <3>3. CASE k < j
      BY <1>1, <1>5, <1>7, <1>9, <2>2, <3>3
    <3> QED
      BY <1>1, <1>5, <3>1, <3>2, <3>3
  <2> QED
    BY <1>3, <2>2
<1> HIDE DEF r, n
<1>10. CASE acc.done \/ acc.status # "OK" \/ c >= e
  <2>1. next = [acc EXCEPT !.done = TRUE]
    BY <1>10 DEF MissingStep
  <2>2. /\ next.status = acc.status /\ next.ranges = A /\ next.cursor = c /\ next.done = TRUE
        /\ next \in [status: {"OK", "BUFFER"}, ranges: Seq(Range32), cursor: Nat, done: BOOLEAN]
    BY <1>4, <2>1
  <2> HIDE DEF next
  <2>3. acc.status = "OK" => Listed(next, R, k, s, e)
    <3> SUFFICES ASSUME acc.status = "OK" PROVE Listed(next, R, k, s, e)
      OBVIOUS
    <3>1. \A x \in Nat : c <= x /\ x < e => x \notin Covered(R)
      BY <1>4, <1>10 DEF ScanInv, Listed
    <3> QED
      BY <2>2, <3>1 DEF ScanInv, Listed
  <2> QED
    BY <1>4, <2>2, <2>3 DEF ScanInv, next, r
<1>11. CASE ~acc.done /\ acc.status = "OK" /\ c < e /\ r.end <= c
  <2>1. next = acc
    BY <1>4, <1>11 DEF MissingStep
  <2>2. \A j \in 1..k : R[j].end <= c
    <3>1. \A j \in 1..(k - 1) : R[j].end <= c
      BY <1>11 DEF ScanInv, Listed
    <3> QED
      BY <1>5, <1>11, <3>1 DEF r
  <2>3. Listed(acc, R, k, s, e)
    BY <1>11, <2>2 DEF ScanInv, Listed
  <2> QED
    BY <1>4, <1>11, <2>1, <2>3 DEF ScanInv, r
<1>12. CASE ~acc.done /\ acc.status = "OK" /\ c < e /\ ~(r.end <= c) /\ r.start >= e
  <2>1. next = [acc EXCEPT !.done = TRUE]
    BY <1>4, <1>12 DEF MissingStep
  <2>2. /\ next.status = "OK" /\ next.ranges = A /\ next.cursor = c /\ next.done = TRUE
        /\ next \in [status: {"OK", "BUFFER"}, ranges: Seq(Range32), cursor: Nat, done: BOOLEAN]
    BY <1>4, <1>12, <2>1
  <2> HIDE DEF next
  <2>3. \A x \in Nat : c <= x /\ x < e => x \notin Covered(R)
    BY <1>5, <1>9, <1>12
  <2>4. Listed(next, R, k, s, e)
    BY <1>12, <2>2, <2>3 DEF ScanInv, Listed
  <2> QED
    BY <1>4, <2>2, <2>4 DEF ScanInv, next, r
<1>13. CASE ~acc.done /\ acc.status = "OK" /\ c < e /\ ~(r.end <= c) /\ ~(r.start >= e)
  <2> DEFINE a   == RangesAdd(A, c, r.start)
             gap == IF r.start > c THEN a ELSE [status |-> "OK", ranges |-> A]
  <2>1. next = [acc EXCEPT !.status = gap.status, !.ranges = gap.ranges, !.cursor = r.end]
    BY <1>4, <1>13 DEF MissingStep
  <2>2. /\ GapsUpTo(A, R, s, c) /\ AtEdge(R, s, c) /\ \A i \in 1..Len(A) : A[i].end < c
        /\ \A x \in Nat : e <= x /\ x < c => x \in Covered(R)
        /\ \A j \in 1..(k - 1) : R[j].end <= c
    BY <1>13 DEF ScanInv, Listed
  <2>3. c \in Nat /\ c < r.end /\ r.start < e
    BY <1>4, <1>5, <1>13
  <2> DEFINE Told(st, B) ==
               \/ st = "OK" /\ GapsUpTo(B, R, s, r.end) /\ \A i \in 1..Len(B) : B[i].end < r.end
               \/ st = "BUFFER" /\ B \in Seq(Range32) /\ Short(R, s, e)
  <2>4. Told(gap.status, gap.ranges)
    <3>1. CASE r.start > c
      <4>1. /\ a.status = IF Len(A) = MaxNakRanges THEN "BUFFER" ELSE "OK"
            /\ a.status = "OK" => GapsUpTo(a.ranges, R, s, r.start)
            /\ a.status # "OK" => a.ranges = A
        <5>1. c < r.start
          BY <2>3, <1>5, <3>1
        <5>2. \A x \in Nat : c <= x /\ x < r.start => x \notin Covered(R)
          BY <1>9, <1>13
        <5>3. s <= c
          BY <1>4
        <5>4. Below(A, c) /\ Open(R, c, r.start) /\ GapsUpTo(A, R, s, c)
          BY <2>2, <5>2 DEF Below, Open
        <5>5. GapTold(a, A, R, s, r.start)
          BY <1>5, <2>3, <5>1, <5>3, <5>4, GapAdded, Zenon
        <5> HIDE DEF a, A
        <5> QED
          BY <5>5 DEF GapTold
      <4>2. gap = a
        BY <3>1
      <4> HIDE DEF a, gap
      <4>3. CASE a.status = "OK"
        <5>1. GapsUpTo(a.ranges, R, s, r.end)
          BY <1>5, <1>8, <4>1, <4>3, GapsGrow
        <5>2. \A i \in 1..Len(a.ranges) : a.ranges[i].end \in Nat /\ a.ranges[i].end <= r.start
          BY <1>5, <4>1, <4>3, GapsWithin
        <5>3. \A i \in 1..Len(a.ranges) : a.ranges[i].end < r.end
          BY <1>5, <5>2
        <5> QED
          BY <4>2, <4>3, <5>1, <5>3
      <4>4. CASE a.status # "OK"
        <5>1. a.status = "BUFFER" /\ Len(A) = MaxNakRanges /\ a.ranges = A
          BY <4>1, <4>4
        <5>2. c \notin Covered(R)
          BY <1>5, <1>9, <1>13, <2>3, <3>1
        <5>3. Short(R, s, e)
          BY <1>4, <1>13, <2>2, <2>3, <5>1, <5>2 DEF Short
        <5> QED
          BY <1>4, <4>2, <5>1, <5>3
      <4> QED
        BY <4>3, <4>4
    <3>2. CASE ~(r.start > c)
      <4>1. gap.status = "OK" /\ gap.ranges = A
        BY <3>2
      <4>2. GapsUpTo(A, R, s, r.end)
        <5>1. \A x \in Nat : c <= x /\ x < r.end => x \in Covered(R)
          BY <1>5, <1>8, <2>3, <3>2
        <5> QED
          BY <1>5, <2>2, <2>3, <5>1, GapsGrow, SMTT(40)
      <4>3. \A i \in 1..Len(A) : A[i].end \in Nat
        BY <2>2, <2>3, GapsWithin
      <4>4. \A i \in 1..Len(A) : A[i].end < r.end
        BY <1>5, <2>2, <2>3, <4>3
      <4> HIDE DEF gap, A
      <4> QED
        BY <4>1, <4>2, <4>4
    <3> QED
      BY <3>1, <3>2
  <2> HIDE DEF gap
  <2>5. gap.status \in {"OK", "BUFFER"} /\ gap.ranges \in Seq(Range32)
    BY <2>4 DEF GapsUpTo
  <2>6. /\ next.status = gap.status /\ next.ranges = gap.ranges /\ next.cursor = r.end
        /\ next.done = FALSE
        /\ next \in [status: {"OK", "BUFFER"}, ranges: Seq(Range32), cursor: Nat, done: BOOLEAN]
    BY <1>4, <1>5, <1>13, <2>1, <2>5
  <2> HIDE DEF next
  <2>7. s <= r.end
    BY <1>4, <1>5, <2>3
  <2>8. gap.status = "OK" => Listed(next, R, k, s, e)
    <3> SUFFICES ASSUME gap.status = "OK" PROVE Listed(next, R, k, s, e)
      OBVIOUS
    <3>1. AtEdge(R, s, r.end)
      <4>1. r.end - 1 \in Nat /\ r.start <= r.end - 1 /\ r.end - 1 < r.end
        BY <1>5
      <4>2. r.end - 1 \in Covered(R)
        BY <1>8, <4>1
      <4> QED
        BY <1>4, <1>5, <2>3, <4>2 DEF AtEdge
    <3>2. \A x \in Nat : e <= x /\ x < r.end => x \in Covered(R)
      BY <1>5, <1>8, <2>3
    <3>3. \A j \in 1..k : R[j].end <= r.end
      <4>1. ASSUME NEW j \in 1..k PROVE R[j].end <= r.end
        <5>1. CASE j = k
          BY <1>5, <5>1 DEF r
        <5>2. CASE j # k
          <6>1. j \in 1..(k - 1) /\ R[j].end <= c /\ R[j].end \in Nat
            BY <1>1, <1>5, <2>2, <5>2 DEF n
          <6> QED
            BY <1>5, <2>3, <6>1
        <5> QED
          BY <5>1, <5>2
      <4> QED
        BY <4>1
    <3> QED
      BY <2>4, <2>6, <3>1, <3>2, <3>3 DEF Listed
  <2>9. gap.status # "OK" => Short(R, s, e)
    BY <2>4
  <2> QED
    BY <2>6, <2>7, <2>8, <2>9 DEF ScanInv, next, r
<1> QED
  BY <1>4, <1>10, <1>11, <1>12, <1>13

\* The whole loop.
LEMMA ScanKeeps ==
    ASSUME NEW R \in Seq(Range32), Sorted(R), NEW s \in Nat, NEW e \in Nat, s < e
    PROVE  ScanInv(MissingScan(R, s, e)[Len(R)], R, Len(R), s, e)
<1> DEFINE scan == MissingScan(R, s, e)
           T    == {k \in Nat : k <= Len(R) /\ ~ScanInv(scan[k], R, k, s, e)}
<1>1. Len(R) \in Nat
  OBVIOUS
<1>2. scan[0] = ScanStart(s) /\ \A k \in 1..Len(R) : scan[k] = MissingStep(scan[k - 1], R[k], e)
  BY <1>1, MissingScanIs
<1> HIDE DEF scan
<1>3. T = {}
  <2> SUFFICES ASSUME T # {} PROVE FALSE
    OBVIOUS
  <2>1. PICK k \in T : \A y \in T : k <= y
    BY LeastExists
  <2>2. k \in Nat /\ k <= Len(R) /\ ~ScanInv(scan[k], R, k, s, e)
    OBVIOUS
  <2>3. k # 0
    BY <1>2, <2>2, ScanBegins
  <2>4. k - 1 \in Nat /\ k - 1 <= Len(R) /\ ~(k <= k - 1) /\ k \in 1..Len(R)
    BY <1>1, <2>2, <2>3
  <2>5. ScanInv(scan[k - 1], R, k - 1, s, e)
    BY <2>1, <2>4
  <2>6. ScanInv(scan[k], R, k, s, e)
    BY <1>2, <2>4, <2>5, ScanStep
  <2> QED
    BY <2>2, <2>6
<1>4. ScanInv(scan[Len(R)], R, Len(R), s, e)
  BY <1>1, <1>3
<1> QED
  BY <1>4 DEF scan


\* ccsds_cfdp_ranges_missing lists the gaps of the window, or there are too many.
LEMMA RangesMissingIs ==
    ASSUME NEW R \in Seq(Range32), Sorted(R), NEW s \in Nat, NEW e \in Nat
    PROVE  LET m == RangesMissing(R, s, e)
           IN  /\ m.status \in {"OK", "BUFFER", "INVALID"} /\ m.ranges \in Seq(Range32)
               /\ s < e /\ m.status = "OK" => GapsUpTo(m.ranges, R, s, e)
               /\ s < e /\ m.status # "OK" => Short(R, s, e)
<1> DEFINE m == RangesMissing(R, s, e)
<1>1. CASE ~(s < e)
  <2>1. m = [status |-> "INVALID", ranges |-> << >>]
    BY <1>1 DEF RangesMissing, RangeIsValid
  <2> QED
    BY <1>1, <2>1
<1>2. CASE s < e
  <2> DEFINE acc  == MissingScan(R, s, e)[Len(R)]
             tail == RangesAdd(acc.ranges, acc.cursor, e)
  <2>1. m = IF acc.status # "OK" \/ acc.cursor >= e
              THEN [status |-> acc.status, ranges |-> acc.ranges]
              ELSE [status |-> tail.status, ranges |-> tail.ranges]
    BY <1>2 DEF RangesMissing, RangeIsValid
  <2>2. ScanInv(acc, R, Len(R), s, e)
    BY <1>2, ScanKeeps
  <2> HIDE DEF acc
  <2>3. /\ acc.status \in {"OK", "BUFFER"} /\ acc.ranges \in Seq(Range32) /\ acc.cursor \in Nat
        /\ s <= acc.cursor
    BY <2>2 DEF ScanInv
  <2>4. CASE acc.status # "OK"
    <3>1. m.status = acc.status /\ m.ranges = acc.ranges
      BY <2>1, <2>4
    <3> QED
      BY <2>2, <2>3, <2>4, <3>1 DEF ScanInv
  <2>5. CASE acc.status = "OK" /\ acc.cursor >= e
    <3>1. m.status = "OK" /\ m.ranges = acc.ranges
      BY <2>1, <2>5
    <3>2. /\ GapsUpTo(acc.ranges, R, s, acc.cursor)
          /\ \A x \in Nat : e <= x /\ x < acc.cursor => x \in Covered(R)
      BY <2>2, <2>5 DEF ScanInv, Listed
    <3>3. \A x \in Nat : s <= x /\ x < acc.cursor /\ x \notin Covered(R) <=>
                         s <= x /\ x < e /\ x \notin Covered(R)
      BY <2>3, <2>5, <3>2
    <3>4. GapsUpTo(acc.ranges, R, s, e)
      BY <3>2, <3>3 DEF GapsUpTo
    <3> QED
      BY <2>3, <3>1, <3>4
  <2>6. CASE acc.status = "OK" /\ acc.cursor < e
    <3>1. m.status = tail.status /\ m.ranges = tail.ranges
      BY <2>1, <2>3, <2>6
    <3>2. Listed(acc, R, Len(R), s, e)
      BY <2>2, <2>6 DEF ScanInv
    <3>3. \A x \in Nat : acc.cursor <= x /\ x < e => x \notin Covered(R)
      <4>1. CASE acc.done
        BY <3>2, <4>1 DEF Listed
      <4>2. CASE ~acc.done
        <5>1. \A j \in 1..Len(R) : R[j].end <= acc.cursor /\ R[j].end \in Nat
          BY <3>2, <4>2, RangeTypes DEF Listed
        <5>2. ASSUME NEW x \in Nat, acc.cursor <= x PROVE x \notin Covered(R)
          BY <2>3, <5>1, <5>2, InCovered DEF Holds
        <5> QED
          BY <5>2
      <4> QED
        BY <4>1, <4>2
    <3>4. /\ GapsUpTo(acc.ranges, R, s, acc.cursor) /\ AtEdge(R, s, acc.cursor)
          /\ \A i \in 1..Len(acc.ranges) : acc.ranges[i].end < acc.cursor
      BY <3>2 DEF Listed
    <3>5. /\ tail.status = IF Len(acc.ranges) = MaxNakRanges THEN "BUFFER" ELSE "OK"
          /\ tail.status = "OK" => GapsUpTo(tail.ranges, R, s, e)
          /\ tail.status # "OK" => tail.ranges = acc.ranges
      <4>1. Below(acc.ranges, acc.cursor) /\ Open(R, acc.cursor, e)
        BY <3>3, <3>4 DEF Below, Open
      <4>2. GapTold(tail, acc.ranges, R, s, e)
        BY <2>3, <2>6, <3>4, <4>1, GapAdded, Zenon
      <4> HIDE DEF tail
      <4> QED
        BY <4>2 DEF GapTold
    <3>6. tail.status # "OK" => Short(R, s, e)
      <4> HIDE DEF tail
      <4>1. acc.cursor \notin Covered(R)
        BY <2>3, <2>6, <3>3
      <4> QED
        BY <2>3, <2>6, <3>4, <3>5, <4>1 DEF Short
    <3> HIDE DEF tail, m
    <3>7. m.ranges \in Seq(Range32) /\ m.status \in {"OK", "BUFFER"}
      BY <2>3, <3>1, <3>5 DEF GapsUpTo
    <3>8. /\ m.status = "OK" => GapsUpTo(m.ranges, R, s, e)
          /\ m.status # "OK" => Short(R, s, e)
      BY <3>1, <3>5, <3>6
    <3> QED
      BY <3>7, <3>8 DEF m
  <2> QED
    BY <2>3, <2>4, <2>5, <2>6
<1> QED
  BY <1>1, <1>2

\* Where the gaps of the window begin.
Gaps(R, s, e) ==
    {b \in s..(e - 1) : b \notin Covered(R) /\ (b = s \/ b - 1 \in Covered(R))}

\* A range listed begins at a gap, and ends at a received byte or with the list.
LEMMA GapBounds ==
    ASSUME NEW A, NEW R, NEW s \in Nat, NEW c \in Nat, GapsUpTo(A, R, s, c),
           NEW i \in 1..Len(A)
    PROVE  /\ A[i].start \in Nat /\ A[i].end \in Nat /\ A[i].start < A[i].end
           /\ s <= A[i].start /\ A[i].end <= c /\ A[i].start \notin Covered(R)
           /\ A[i].start = s \/ A[i].start - 1 \in Covered(R)
           /\ A[i].end = c \/ A[i].end \in Covered(R)
           /\ \A x \in Nat : A[i].start <= x /\ x < A[i].end => x \notin Covered(R)
<1> DEFINE n == Len(A)
           a == A[i].start
           b == A[i].end
<1>1. n \in Nat /\ \A j \in 1..n : /\ A[j].start \in Nat /\ A[j].end \in Nat
                                  /\ s <= A[j].start /\ A[j].start < A[j].end /\ A[j].end <= c
  BY GapsWithin
<1>2. A \in Seq(Range32) /\ \A j, k \in 1..n : j < k => A[j].end < A[k].start
  BY DEF GapsUpTo, Sorted
<1>3. \A x \in Nat : x \in Covered(A) <=> \E j \in 1..n : A[j].start <= x /\ x < A[j].end
  BY <1>2, InCovered DEF Holds
<1>4. \A x \in Nat : x \in Covered(A) <=> s <= x /\ x < c /\ x \notin Covered(R)
  BY DEF GapsUpTo
<1>5. \A x \in Nat : a <= x /\ x < b => x \notin Covered(R)
  BY <1>1, <1>3, <1>4
<1>6. a \notin Covered(R)
  BY <1>1, <1>5
<1>7. ASSUME NEW x \in Nat, x = a - 1 \/ x = b PROVE x \notin Covered(A)
  <2>1. ASSUME NEW j \in 1..n, A[j].start <= x, x < A[j].end PROVE FALSE
    <3>1. CASE j < i
      <4>1. A[j].end < a
        BY <1>2, <3>1
      <4> QED
        BY <1>1, <1>7, <2>1, <4>1
    <3>2. CASE j = i
      BY <1>1, <1>7, <2>1, <3>2
    <3>3. CASE i < j
      <4>1. b < A[j].start
        BY <1>2, <3>3
      <4> QED
        BY <1>1, <1>7, <2>1, <4>1
    <3> QED
      BY <1>1, <3>1, <3>2, <3>3
  <2> QED
    BY <1>3, <2>1
<1>8. a = s \/ a - 1 \in Covered(R)
  <2> SUFFICES ASSUME a # s PROVE a - 1 \in Covered(R)
    OBVIOUS
  <2>1. a - 1 \in Nat /\ s <= a - 1 /\ a - 1 < c
    BY <1>1
  <2> QED
    BY <1>4, <1>7, <2>1
<1>9. b = c \/ b \in Covered(R)
  <2> SUFFICES ASSUME b # c PROVE b \in Covered(R)
    OBVIOUS
  <2>1. b \in Nat /\ s <= b /\ b < c
    BY <1>1
  <2> QED
    BY <1>4, <1>7, <2>1
<1> QED
  BY <1>1, <1>5, <1>6, <1>8, <1>9

\* A range of A starts at b.
Starts(A, b) == \E i \in 1..Len(A) : A[i].start = b

\* The list has a range for each gap, and no two for one.
LEMMA GapsListed ==
    ASSUME NEW A, NEW R, NEW s \in Nat, NEW e \in Nat, NEW c \in Nat, GapsUpTo(A, R, s, c)
    PROVE  /\ \A i, j \in 1..Len(A) : i # j => A[i].start # A[j].start
           /\ \A i \in 1..Len(A) : /\ A[i].start \in Nat /\ A[i].start < c
                                   /\ A[i].start < e => A[i].start \in Gaps(R, s, e)
           /\ \A b \in Gaps(R, s, e) : b < c => Starts(A, b)
<1>1. Len(A) \in Nat /\ A \in Seq(Range32)
  BY DEF GapsUpTo
<1>2. \A i \in 1..Len(A) :
        /\ A[i].start \in Nat /\ A[i].end \in Nat /\ A[i].start < A[i].end
        /\ s <= A[i].start /\ A[i].end <= c /\ A[i].start \notin Covered(R)
        /\ A[i].start = s \/ A[i].start - 1 \in Covered(R)
        /\ \A x \in Nat : A[i].start <= x /\ x < A[i].end => x \notin Covered(R)
  BY GapBounds
<1>3. ASSUME NEW i \in 1..Len(A), NEW j \in 1..Len(A), i < j PROVE A[i].start # A[j].start
  <2>1. A[i].end < A[j].start
    BY <1>3 DEF GapsUpTo, Sorted
  <2> QED
    BY <1>2, <2>1
<1>4. \A i, j \in 1..Len(A) : i # j => A[i].start # A[j].start
  BY <1>1, <1>3
<1>5. ASSUME NEW i \in 1..Len(A)
      PROVE  /\ A[i].start \in Nat /\ A[i].start < c
             /\ A[i].start < e => A[i].start \in Gaps(R, s, e)
  BY <1>2, <1>5 DEF Gaps
<1>6. ASSUME NEW b \in Gaps(R, s, e), b < c PROVE Starts(A, b)
  <2>1. b \in Nat /\ s <= b /\ b < c /\ b \notin Covered(R) /\ (b = s \/ b - 1 \in Covered(R))
    BY <1>6 DEF Gaps
  <2>2. b \in Covered(A)
    BY <2>1 DEF GapsUpTo
  <2>3. PICK i \in 1..Len(A) : A[i].start <= b /\ b < A[i].end
    BY <1>1, <2>1, <2>2, InCovered DEF Holds
  <2>4. ASSUME A[i].start # b PROVE FALSE
    <3>1. A[i].start \in Nat /\ s <= A[i].start
      BY <1>2
    <3>2. b - 1 \in Nat /\ A[i].start <= b - 1 /\ b - 1 < A[i].end /\ b # s
      BY <1>2, <2>1, <2>3, <2>4, <3>1
    <3>3. b - 1 \notin Covered(R)
      BY <1>2, <3>2
    <3> QED
      BY <2>1, <3>2, <3>3
  <2> QED
    BY <2>4 DEF Starts
<1> QED
  BY <1>4, <1>5, <1>6


\* A list that is complete has as many ranges as there are gaps.
LEMMA GapsCounted ==
    ASSUME NEW A, NEW R, NEW s \in Nat, NEW e \in Nat, GapsUpTo(A, R, s, e)
    PROVE  Len(A) = Cardinality(Gaps(R, s, e))
<1> DEFINE n == Len(A)
           G == Gaps(R, s, e)
           g == [i \in 1..n |-> A[i].start]
<1>1. n \in Nat
  BY DEF GapsUpTo
<1>2. /\ \A i, j \in 1..n : i # j => g[i] # g[j]
      /\ \A i \in 1..n : g[i] \in G
      /\ \A b \in G : \E i \in 1..n : g[i] = b
  <2>1. /\ \A i, j \in 1..n : i # j => A[i].start # A[j].start
        /\ \A i \in 1..n : A[i].start \in G
        /\ \A b \in G : \E i \in 1..n : A[i].start = b
    <3>1. \A b \in G : b < e
      BY DEF Gaps
    <3>2. \A i, j \in 1..Len(A) : i # j => A[i].start # A[j].start
      BY GapsListed
    <3>3. \A i \in 1..Len(A) : A[i].start \in Gaps(R, s, e)
      <4> SUFFICES ASSUME NEW i \in 1..Len(A) PROVE A[i].start \in Gaps(R, s, e)
        OBVIOUS
      <4>1. A[i].start \in Nat /\ A[i].start < e /\ (A[i].start < e => A[i].start \in Gaps(R, s, e))
        BY GapsListed
      <4> QED
        BY <4>1
    <3>4. \A b \in Gaps(R, s, e) : \E i \in 1..Len(A) : A[i].start = b
      <4> SUFFICES ASSUME NEW b \in Gaps(R, s, e) PROVE \E i \in 1..Len(A) : A[i].start = b
        OBVIOUS
      <4>1. b < e
        BY <3>1
      <4>2. Starts(A, b)
        BY <4>1, GapsListed
      <4> QED
        BY <4>2 DEF Starts
    <3> QED
      BY <3>2, <3>3, <3>4
  <2>2. \A i \in 1..n : g[i] = A[i].start
    OBVIOUS
  <2> HIDE DEF n, G, g
  <2> QED
    BY <2>1, <2>2
<1>3. g \in Bijection(1..n, G)
  <2> HIDE DEF G
  <2>1. g \in [1..n -> G]
    BY <1>2
  <2> HIDE DEF g
  <2> QED
    BY <1>2, <2>1 DEF Bijection, Injection, Surjection, IsInjective
<1>4. ExistsBijection(1..n, G)
  BY <1>3 DEF ExistsBijection
<1>5. IsFiniteSet(1..n) /\ Cardinality(1..n) = n
  <2>1. 1 \in Int /\ n \in Int /\ (1 > n => n = 0)
    BY <1>1
  <2> HIDE DEF n
  <2>2. /\ IsFiniteSet(1..n)
        /\ Cardinality(1..n) = IF 1 > n THEN 0 ELSE n - 1 + 1
    BY <2>1, FS_Interval
  <2> QED
    BY <1>1, <2>1, <2>2
<1> HIDE DEF G
<1>6. Cardinality(G) = n
  BY <1>4, <1>5, FS_Bijection
<1> QED
  BY <1>6 DEF G

\* When the list is full and another gap begins, there are more gaps than places.
LEMMA GapsExceed ==
    ASSUME NEW R, NEW s \in Nat, NEW e \in Nat, Short(R, s, e)
    PROVE  Cardinality(Gaps(R, s, e)) > MaxNakRanges
<1> DEFINE G == Gaps(R, s, e)
           n == MaxNakRanges
<1>1. PICK A, c : /\ c \in Nat /\ GapsUpTo(A, R, s, c) /\ Len(A) = n
                  /\ AtEdge(R, s, c) /\ s <= c /\ c < e /\ c \notin Covered(R)
  BY DEF Short
<1>2. n \in Nat
  BY MaxNakRangesAssumption
<1> DEFINE g == [i \in 1..n |-> A[i].start]
           h == [i \in 1..(n + 1) |-> IF i = n + 1 THEN c ELSE g[i]]
<1>3. /\ \A i, j \in 1..n : i # j => g[i] # g[j]
      /\ \A i \in 1..n : g[i] \in G /\ g[i] < c
  <2>1. /\ \A i, j \in 1..n : i # j => A[i].start # A[j].start
        /\ \A i \in 1..n : A[i].start \in G /\ A[i].start < c
    <3>1. \A i \in 1..n : /\ A[i].start \in Nat /\ A[i].start < c
                          /\ A[i].start < e => A[i].start \in G
      BY <1>1, GapsListed
    <3>2. \A i, j \in 1..n : i # j => A[i].start # A[j].start
      <4>1. GapsUpTo(A, R, s, c) /\ c \in Nat /\ Len(A) = n
        BY <1>1
      <4>2. \A i, j \in 1..Len(A) : i # j => A[i].start # A[j].start
        BY <4>1, GapsListed
      <4> QED
        BY <4>1, <4>2
    <3>3. ASSUME NEW i \in 1..n PROVE A[i].start \in G /\ A[i].start < c
      <4>1. A[i].start \in Nat /\ A[i].start < c /\ c < e /\ c \in Nat
        BY <1>1, <3>1
      <4>2. A[i].start < e
        BY <4>1
      <4> QED
        BY <3>1, <4>1, <4>2
    <3> QED
      BY <3>2, <3>3
  <2>2. \A i \in 1..n : g[i] = A[i].start
    OBVIOUS
  <2> HIDE DEF n, G, g
  <2> QED
    BY <2>1, <2>2
<1>4. c \in G
  BY <1>1 DEF Gaps, AtEdge
<1>5. G \subseteq s..(e - 1) /\ G \subseteq Nat
  BY DEF Gaps
<1> HIDE DEF G, g
<1>6. \A i \in 1..(n + 1) : i # n + 1 => i \in 1..n
  BY <1>2
<1>7. h \in [1..(n + 1) -> G]
  BY <1>3, <1>4, <1>6
<1>8. \A i, j \in 1..(n + 1) : i # j => h[i] # h[j]
  <2> SUFFICES ASSUME NEW i \in 1..(n + 1), NEW j \in 1..(n + 1), i # j PROVE h[i] # h[j]
    OBVIOUS
  <2>1. CASE i = n + 1
    <3>1. j \in 1..n /\ g[j] \in Nat /\ g[j] < c
      BY <1>3, <1>5, <1>6, <2>1
    <3> QED
      BY <1>1, <2>1, <3>1
  <2>2. CASE j = n + 1
    <3>1. i \in 1..n /\ g[i] \in Nat /\ g[i] < c
      BY <1>3, <1>5, <1>6, <2>2
    <3> QED
      BY <1>1, <2>2, <3>1
  <2>3. CASE i # n + 1 /\ j # n + 1
    BY <1>3, <1>6, <2>3
  <2> QED
    BY <2>1, <2>2, <2>3
<1> HIDE DEF h
<1>9. h \in Injection(1..(n + 1), G)
  BY <1>7, <1>8 DEF Injection, IsInjective
<1>10. IsFiniteSet(s..(e - 1))
  BY FS_Interval
<1>11. IsFiniteSet(G)
  BY <1>5, <1>10, FS_Subset
<1>12. Cardinality(1..(n + 1)) = n + 1 /\ Cardinality(G) \in Nat
  BY <1>2, <1>11, FS_Interval, FS_CardinalityType
<1>13. Cardinality(1..(n + 1)) <= Cardinality(G)
  BY <1>9, <1>11, FS_Injection
<1> QED
  BY <1>2, <1>12, <1>13 DEF G

\* A range that touches one of the array, or finds a free place, is accepted.
LEMMA TouchingAccepted ==
    ASSUME NEW R \in Seq(Range32), Sorted(R), NEW s \in Nat, NEW e \in Nat, s < e,
           \/ Len(R) # MaxNakRanges
           \/ \E j \in 1..Len(R) : R[j].end >= s /\ R[j].start <= e
    PROVE  RangesAdd(R, s, e).status = "OK"
<1> DEFINE f == FirstTouching(R, s)
           l == FirstBeyond(R, e, f)
           n == Len(R)
<1>1. n \in Nat /\ \A i \in 1..n : R[i].start \in Nat /\ R[i].end \in Nat
  BY RangeTypes
<1>2. /\ f \in 1..(n + 1) /\ \A i \in 1..(f - 1) : R[i].end < s
      /\ f <= n => R[f].end >= s
  BY FirstTouchingIs
<1> HIDE DEF f
<1>3. l \in f..(n + 1) /\ (l <= n => R[l].start > e)
  BY <1>2, FirstBeyondIs
<1> HIDE DEF l
<1>4. ~NoRoom(R, f, l)
  <2> SUFFICES ASSUME l = f, n = MaxNakRanges PROVE FALSE
    BY DEF NoRoom
  <2>1. PICK j \in 1..n : R[j].end >= s /\ R[j].start <= e
    OBVIOUS
  <2> HIDE DEF n
  <2>2. f <= j
    <3> SUFFICES ASSUME j < f PROVE FALSE
      BY <1>1, <1>2
    <3>1. j \in 1..(f - 1) /\ R[j].end < s
      BY <1>1, <1>2
    <3> QED
      BY <1>1, <2>1, <3>1
  <2>3. R[f].start > e /\ f \in 1..n
    BY <1>1, <1>2, <1>3, <2>2
  <2>4. CASE f = j
    BY <1>1, <2>1, <2>3, <2>4
  <2>5. CASE f < j
    <3>1. R[f].start < R[f].end /\ R[f].end < R[j].start
      BY <2>3, <2>5 DEF Sorted, n
    <3> QED
      BY <1>1, <2>1, <2>3, <3>1
  <2> QED
    BY <1>1, <1>2, <2>2, <2>4, <2>5
<1>5. RangeIsValid(s, e)
  BY DEF RangeIsValid
<1> QED
  BY <1>4, <1>5 DEF RangesAdd, f, l

================================================================================

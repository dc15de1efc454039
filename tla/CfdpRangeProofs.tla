---------------------------- MODULE CfdpRangeProofs ----------------------------
(***************************************************************************)
(* For every capacity of the array, every file length and every sequence of     *)
(* additions: the array of ccsds_cfdp_ranges_add stays in canonical form within  *)
(* its capacity and stands for exactly the bytes accepted, what the receiver    *)
(* derives from it is exact, and a gap it reports is accepted when it arrives.   *)
(***************************************************************************)
EXTENDS CfdpRangeTracker, CfdpRangeLemmas

-------------------------------------------------------------------------------
(* The tracker *)

RangesInv ==
    /\ ranges \in Seq(Range32) /\ Len(ranges) <= MaxNakRanges /\ Sorted(ranges)
    /\ received \subseteq 0..(FileLen - 1) /\ Covered(ranges) = received

LEMMA RangesInvInit == Init => RangesInv
<1> SUFFICES ASSUME Init PROVE RangesInv
  OBVIOUS
<1>1. ranges = << >> /\ received = {} /\ Len(<< >>) = 0 /\ << >> \in Seq(Range32)
  BY DEF Init
<1>2. Covered(<< >>) = {}
  BY DEF Covered
<1>3. Sorted(<< >>)
  BY DEF Sorted
<1> QED
  BY <1>1, <1>2, <1>3, MaxNakRangesAssumption DEF RangesInv

LEMMA RangesInvStep == RangesInv /\ [Next]_vars => RangesInv'
<1> SUFFICES ASSUME RangesInv, [Next]_vars PROVE RangesInv'
  OBVIOUS
<1>1. ASSUME NEW s \in 0..FileLen, NEW e \in 0..FileLen, Add(s, e) PROVE RangesInv'
  <2> DEFINE a == RangesAdd(ranges, s, e)
  <2>1. s \in Nat /\ e \in Nat
    BY FileLenAssumption
  <2>2. /\ ranges' = a.ranges
        /\ received' = IF a.status = "OK" THEN received \cup (s..(e - 1)) ELSE received
    BY <1>1 DEF Add
  <2>3. /\ a.ranges \in Seq(Range32) /\ Sorted(a.ranges) /\ Len(a.ranges) <= MaxNakRanges
        /\ a.status = "OK" => Covered(a.ranges) = Covered(ranges) \cup (s..(e - 1))
        /\ a.status # "OK" => a.ranges = ranges
    BY <2>1, RangesAddKeeps DEF RangesInv
  <2> HIDE DEF a
  <2>4. received' \subseteq 0..(FileLen - 1)
    <3>1. s..(e - 1) \subseteq 0..(FileLen - 1)
      BY <2>1, FileLenAssumption
    <3> QED
      BY <2>2, <3>1 DEF RangesInv
  <2>5. Covered(ranges') = received'
    BY <2>2, <2>3 DEF RangesInv
  <2>6. ranges' \in Seq(Range32) /\ Len(ranges') <= MaxNakRanges /\ Sorted(ranges')
    BY <2>2, <2>3
  <2> QED
    BY <2>4, <2>5, <2>6 DEF RangesInv, Sorted, Covered
<1>2. CASE UNCHANGED vars
  BY <1>2 DEF vars, RangesInv, Sorted, Covered
<1> QED
  BY <1>1, <1>2 DEF Next

LEMMA RangesInvAlways == Spec => []RangesInv
BY RangesInvInit, RangesInvStep, PTL DEF Spec

\* After any sequence of calls of ccsds_cfdp_ranges_add the array is within its
\* capacity, no range of it is empty, and ranges that overlap or touch are merged.
THEOREM RangesArrayInv == Spec => []ArrayInv
<1>1. RangesInv => ArrayInv
  <2> SUFFICES ASSUME RangesInv PROVE ArrayInv
    OBVIOUS
  <2>1. Len(ranges) \in Nat
    BY DEF RangesInv
  <2>2. ASSUME NEW i \in 1..(Len(ranges) - 1) PROVE ranges[i].end < ranges[i + 1].start
    <3>1. i \in 1..Len(ranges) /\ i + 1 \in 1..Len(ranges) /\ i < i + 1
      BY <2>1
    <3> QED
      BY <3>1 DEF RangesInv, Sorted
  <2>3. received \subseteq Nat
    BY FileLenAssumption DEF RangesInv
  <2> QED
    BY <2>2, <2>3 DEF RangesInv, Sorted, ArrayInv, TypeOK, Canonical
<1> QED
  BY <1>1, RangesInvAlways, PTL

\* The bounded array stands for exactly the bytes of the additions accepted: the
\* merging of ccsds_cfdp_ranges_add neither loses a byte nor invents one.
THEOREM RangesCoverageExact == Spec => []CoverageExact
<1>1. RangesInv => CoverageExact
  BY DEF RangesInv, CoverageExact
<1> QED
  BY <1>1, RangesInvAlways, PTL

\* ccsds_cfdp_ranges_is_complete, which looks for one range that holds the window and
\* stops at the first that starts above it, says yes exactly when every byte of the
\* window was accepted.
LEMMA CompleteIsExact == RangesInv => CompleteExact
<1>1. ASSUME RangesInv, NEW s \in 0..FileLen, NEW e \in 0..FileLen, s < e
      PROVE  RangesIsComplete(ranges, s, e) <=> s..(e - 1) \subseteq received
  <2> DEFINE R == ranges
             n == Len(R)
  <2>1. s \in Nat /\ e \in Nat /\ R \in Seq(Range32)
    BY <1>1, FileLenAssumption DEF RangesInv
  <2>2. n \in Nat /\ \A i \in 1..n : R[i].start \in Nat /\ R[i].end \in Nat
    BY <2>1, RangeTypes
  <2>3. /\ \A i \in 1..n : R[i].start < R[i].end
        /\ \A i, j \in 1..n : i < j => R[i].end < R[j].start
    BY <1>1 DEF RangesInv, Sorted
  <2>4. \A x \in Nat : x \in received <=> \E i \in 1..n : Holds(R[i], x)
    BY <1>1, <2>1, InCovered DEF RangesInv
  <2> HIDE DEF R, n
  <2>5. ASSUME NEW i \in 1..n, R[i].start <= s, R[i].end >= e PROVE s..(e - 1) \subseteq received
    <3>1. ASSUME NEW x \in s..(e - 1) PROVE x \in received
      <4>1. x \in Nat /\ Holds(R[i], x)
        BY <2>1, <2>2, <2>5 DEF Holds
      <4> QED
        BY <2>4, <4>1
    <3> QED
      BY <3>1
  <2>6. ASSUME s..(e - 1) \subseteq received
        PROVE  \E i \in 1..n : /\ R[i].start <= s /\ R[i].end >= e
                              /\ \A j \in 1..(i - 1) : R[j].start <= s
    <3>1. s \in received
      BY <1>1, <2>1, <2>6
    <3>2. PICK i \in 1..n : Holds(R[i], s)
      BY <2>1, <2>4, <3>1
    <3>3. R[i].start <= s /\ s < R[i].end
      BY <3>2 DEF Holds
    <3>4. ASSUME NEW j \in 1..(i - 1) PROVE R[j].start <= s
      <4>1. j \in 1..n /\ j < i
        BY <2>2
      <4>2. R[j].start < R[j].end /\ R[j].end < R[i].start
        BY <2>3, <4>1
      <4> QED
        BY <2>1, <2>2, <3>3, <4>1, <4>2, SMTT(40)
    <3>5. ASSUME R[i].end < e PROVE FALSE
      <4>1. R[i].end \in received /\ R[i].end \in Nat
        BY <2>1, <2>2, <2>6, <3>3, <3>5
      <4>2. PICK j \in 1..n : R[j].start <= R[i].end /\ R[i].end < R[j].end
        BY <2>4, <4>1 DEF Holds
      <4>3. CASE j < i
        <5>1. R[j].end < R[i].start /\ R[i].start < R[i].end
          BY <2>3, <4>3
        <5> QED
          BY <2>2, <4>2, <5>1
      <4>4. CASE i < j
        <5>1. R[i].end < R[j].start
          BY <2>3, <4>4
        <5> QED
          BY <2>2, <4>2, <5>1
      <4>5. CASE i = j
        BY <2>2, <4>2, <4>5
      <4> QED
        BY <2>2, <4>3, <4>4, <4>5
    <3> QED
      BY <2>1, <2>2, <3>3, <3>4, <3>5
  <2> QED
    BY <2>5, <2>6 DEF RangesIsComplete, R, n
<1> QED
  BY <1>1 DEF CompleteExact

\* ccsds_cfdp_ranges_missing lists the gaps of the window, one range for each, or there
\* are more than the array has places.
LEMMA MissingIsExact == RangesInv => MissingExact
<1> SUFFICES ASSUME RangesInv, NEW s \in 0..FileLen, NEW e \in 0..FileLen, s < e
             PROVE  LET m == RangesMissing(ranges, s, e)
                    IN  IF m.status = "OK"
                          THEN /\ Covered(m.ranges) = (s..(e - 1)) \ received
                               /\ Len(m.ranges) = Cardinality(GapStarts(s, e))
                          ELSE Cardinality(GapStarts(s, e)) > MaxNakRanges
  BY DEF MissingExact
<1> DEFINE m == RangesMissing(ranges, s, e)
<1>1. s \in Nat /\ e \in Nat /\ ranges \in Seq(Range32) /\ Sorted(ranges)
  BY FileLenAssumption DEF RangesInv
<1>2. /\ m.ranges \in Seq(Range32)
      /\ s < e /\ m.status = "OK" => GapsUpTo(m.ranges, ranges, s, e)
      /\ s < e /\ m.status # "OK" => Short(ranges, s, e)
  BY <1>1, RangesMissingIs
<1>3. GapStarts(s, e) = Gaps(ranges, s, e)
  BY DEF GapStarts, Gaps, RangesInv
<1> HIDE DEF m
<1>4. CASE m.status = "OK"
  <2>1. GapsUpTo(m.ranges, ranges, s, e)
    BY <1>2, <1>4
  <2>2. Len(m.ranges) = Cardinality(Gaps(ranges, s, e))
    BY <1>1, <2>1, GapsCounted
  <2>3. \A x \in Nat : x \in Covered(m.ranges) <=> s <= x /\ x < e /\ x \notin Covered(ranges)
    BY <2>1 DEF GapsUpTo
  <2>4. Covered(m.ranges) \subseteq Nat
    BY <1>2, InCovered
  <2>5. Covered(m.ranges) = (s..(e - 1)) \ received
    BY <1>1, <2>3, <2>4 DEF RangesInv
  <2> QED
    BY <1>3, <1>4, <2>2, <2>5 DEF m
<1>5. CASE m.status # "OK"
  BY <1>1, <1>2, <1>3, <1>5, GapsExceed DEF m
<1> QED
  BY <1>4, <1>5

\* What the receiver derives from the array is exact: the file is complete when every
\* byte was accepted, and a NAK asks for exactly the bytes that were not, one range for
\* each gap; ccsds_cfdp_ranges_missing gives up only when there are more gaps than a NAK
\* has places.
THEOREM RangesReportsExact == Spec => []ReportsExact
<1>1. RangesInv => ReportsExact
  BY CompleteIsExact, MissingIsExact DEF ReportsExact
<1> QED
  BY <1>1, RangesInvAlways, PTL

\* The bytes of a reported gap, added at once, are never refused for lack of room: the
\* gap touches a range of the array, or the array is empty.
THEOREM RangesWholeGapAccepted == Spec => []WholeGapAccepted
<1>1. ASSUME RangesInv, RangesMissing(ranges, 0, FileLen).status = "OK",
             NEW i \in 1..Len(RangesMissing(ranges, 0, FileLen).ranges)
      PROVE  LET m == RangesMissing(ranges, 0, FileLen)
             IN  RangesAdd(ranges, m.ranges[i].start, m.ranges[i].end).status = "OK"
  <2> DEFINE A == RangesMissing(ranges, 0, FileLen).ranges
             a == A[i].start
             b == A[i].end
             R == ranges
             n == Len(R)
  <2>1. 0 \in Nat /\ FileLen \in Nat /\ R \in Seq(Range32) /\ Sorted(R)
    BY <1>1, FileLenAssumption DEF RangesInv
  <2>2. n \in Nat /\ \A j \in 1..n : R[j].start \in Nat /\ R[j].end \in Nat /\ R[j].start < R[j].end
    BY <2>1, RangeTypes DEF Sorted
  <2>3. 0 < FileLen
    BY <1>1 DEF RangesMissing, RangeIsValid
  <2>4. GapsUpTo(A, R, 0, FileLen)
    BY <1>1, <2>1, <2>3, RangesMissingIs
  <2> HIDE DEF A
  <2>5. i \in 1..Len(A)
    BY <1>1 DEF A
  <2>6. /\ a \in Nat /\ b \in Nat /\ a < b
        /\ a = 0 \/ a - 1 \in Covered(R)
        /\ b = FileLen \/ b \in Covered(R)
        /\ \A x \in Nat : a <= x /\ x < b => x \notin Covered(R)
    BY <2>1, <2>4, <2>5, GapBounds
  <2> HIDE DEF a, b
  <2>7. \A x \in Nat : x \in Covered(R) <=> \E j \in 1..n : R[j].start <= x /\ x < R[j].end
    BY <2>1, InCovered DEF Holds
  <2>8. Covered(R) \subseteq 0..(FileLen - 1)
    BY <1>1 DEF RangesInv
  <2> HIDE DEF R, n
  <2>9. n # MaxNakRanges \/ \E j \in 1..n : R[j].end >= a /\ R[j].start <= b
    <3>1. CASE a # 0
      <4>1. a - 1 \in Nat /\ a - 1 \in Covered(R)
        BY <2>6, <3>1
      <4>2. PICK j \in 1..n : R[j].start <= a - 1 /\ a - 1 < R[j].end
        BY <2>7, <4>1
      <4> QED
        BY <2>2, <2>6, <4>2
    <3>2. CASE b # FileLen
      <4>1. PICK j \in 1..n : R[j].start <= b /\ b < R[j].end
        BY <2>6, <2>7, <3>2
      <4> QED
        BY <2>2, <2>6, <4>1
    <3>3. CASE a = 0 /\ b = FileLen
      <4>1. \A x \in Nat : x \notin Covered(R)
        BY <2>1, <2>6, <2>8, <3>3
      <4>2. 1 \notin 1..n
        BY <2>2, <2>7, <4>1
      <4> QED
        BY <2>2, <4>2, MaxNakRangesAssumption
    <3> QED
      BY <3>1, <3>2, <3>3
  <2>10. RangesAdd(R, a, b).status = "OK"
    BY <2>1, <2>6, <2>9, TouchingAccepted DEF n
  <2> QED
    BY <2>10 DEF R, a, b, A
<1>2. RangesInv => WholeGapAccepted
  BY <1>1 DEF WholeGapAccepted
<1> QED
  BY <1>2, RangesInvAlways, PTL

================================================================================

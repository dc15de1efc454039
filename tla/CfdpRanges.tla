------------------------------ MODULE CfdpRanges ------------------------------
(***************************************************************************)
(* The received-range tracker of the CFDP receiver                         *)
(* (src/ccsds_cfdp_ranges.c): a bounded array of half-open byte ranges      *)
(* [start, end) in increasing order, to which each File Data PDU is added   *)
(* and from which the completeness test and the NAK ranges are derived.     *)
(* The array is the sequence `R'; `first' and `last' are 1-based indices,   *)
(* so that R[first .. last-1] are the ranges the new one swallows.          *)
(***************************************************************************)
EXTENDS Naturals, Sequences, FiniteSetsExt, SequencesExt

CONSTANT MaxNakRanges          \* CCSDS_CFDP_MAX_NAK_RANGES

ASSUME MaxNakRangesAssumption == MaxNakRanges \in Nat \ {0}

Range32 == [start: Nat, end: Nat]

RangeIsValid(s, e) == s < e

\* The index the first while loop stops at: the first range not wholly below s.
FirstTouching(R, s) ==
    Min({i \in 1..(Len(R) + 1) : i = Len(R) + 1 \/ R[i].end >= s})

\* Mutant: the second loop compares with < instead of <=.
FirstBeyondStrict(R, e, first) ==
    Min({i \in first..(Len(R) + 1) : i = Len(R) + 1 \/ R[i].start >= e})

\* The index the second while loop stops at: the first range wholly above e.
FirstBeyond(R, e, first) ==
    Min({i \in first..(Len(R) + 1) : i = Len(R) + 1 \/ R[i].start > e})

\* Mutant: the end of the merged range is not grown.
MergedRangeShortEnd(R, s, e, first, last) ==
    [start |-> Min({s} \cup {R[i].start : i \in first..(last - 1)}),
     end   |-> e]

\* The new range, grown over the ranges R[first .. last-1] it touches.
MergedRange(R, s, e, first, last) ==
    [start |-> Min({s} \cup {R[i].start : i \in first..(last - 1)}),
     end   |-> Max({e} \cup {R[i].end : i \in first..(last - 1)})]

\* Mutant: the capacity test is made before looking for ranges to merge with.
NoRoomFullFirst(R, first, last) == Len(R) = MaxNakRanges

\* The new range merges with none and the array is full.
NoRoom(R, first, last) == last = first /\ Len(R) = MaxNakRanges

\* ccsds_cfdp_ranges_add: the status returned and the array afterwards.
RangesAdd(R, s, e) ==
    LET first == FirstTouching(R, s)
        last  == FirstBeyond(R, e, first)
    IN  IF ~RangeIsValid(s, e)
          THEN [status |-> "INVALID", ranges |-> R]
        ELSE IF NoRoom(R, first, last)
          THEN [status |-> "BUFFER", ranges |-> R]
        ELSE [status |-> "OK",
              ranges |-> SubSeq(R, 1, first - 1)
                         \o << MergedRange(R, s, e, first, last) >>
                         \o SubSeq(R, last, Len(R))]

\* ccsds_cfdp_ranges_is_complete for a valid window [s, e): some range holds
\* the window, and the scan did not stop before it on a range that starts above s.
RangesIsComplete(R, s, e) ==
    \E i \in 1..Len(R) : /\ R[i].start <= s /\ R[i].end >= e
                         /\ \A j \in 1..(i - 1) : R[j].start <= s

\* One iteration of the loop of ccsds_cfdp_ranges_missing over a received range.
MissingStep(acc, received, e) ==
    IF acc.done \/ acc.status # "OK" \/ acc.cursor >= e
      THEN [acc EXCEPT !.done = TRUE]
    ELSE IF received.end <= acc.cursor THEN acc
    ELSE IF received.start >= e THEN [acc EXCEPT !.done = TRUE]
    ELSE LET gap == IF received.start > acc.cursor
                      THEN RangesAdd(acc.ranges, acc.cursor, received.start)
                      ELSE [status |-> "OK", ranges |-> acc.ranges]
         IN  [acc EXCEPT !.status = gap.status, !.ranges = gap.ranges,
                         !.cursor = received.end]

\* The loop of ccsds_cfdp_ranges_missing after k received ranges.
MissingScan(R, s, e) ==
    LET scan[k \in 0..Len(R)] ==
          IF k = 0 THEN [status |-> "OK", ranges |-> << >>, cursor |-> s, done |-> FALSE]
          ELSE MissingStep(scan[k - 1], R[k], e)
    IN  scan

\* Mutant: the gap after the last received range is forgotten.
RangesMissingNoTail(R, s, e) ==
    LET scan == MissingScan(R, s, e)[Len(R)]
    IN  [status |-> scan.status, ranges |-> scan.ranges]

\* ccsds_cfdp_ranges_missing: the gaps of R inside the window [s, e).
RangesMissing(R, s, e) ==
    LET scan == MissingScan(R, s, e)[Len(R)]
        tail == RangesAdd(scan.ranges, scan.cursor, e)
    IN  IF ~RangeIsValid(s, e) THEN [status |-> "INVALID", ranges |-> << >>]
        ELSE IF scan.status # "OK" \/ scan.cursor >= e
          THEN [status |-> scan.status, ranges |-> scan.ranges]
        ELSE [status |-> tail.status, ranges |-> tail.ranges]

\* The bytes a sequence of ranges covers (the reference the checks compare with).
Covered(R) == UNION {R[i].start..(R[i].end - 1) : i \in 1..Len(R)}

===============================================================================

--------------------------- MODULE CfdpRangeTracker ---------------------------
(***************************************************************************)
(* The range tracker as a component: any sequence of additions, as File     *)
(* Data PDUs of arbitrary extent arrive lost, repeated, overlapping and out  *)
(* of order.  `received' is a history variable: the bytes of all additions  *)
(* the tracker accepted, which is what the bounded array has to stand for.  *)
(***************************************************************************)
EXTENDS CfdpRanges

CONSTANT FileLen               \* file size, in units of one segment

ASSUME FileLenAssumption == FileLen \in Nat

VARIABLES ranges,              \* received_ranges of the receiver slot
          received             \* history: bytes of the accepted additions

vars == << ranges, received >>

\* ccsds_cfdp_ranges_init
Init == ranges = << >> /\ received = {}

\* ccsds_cfdp_ranges_add on a File Data PDU [s, e)
Add(s, e) ==
    /\ ranges' = RangesAdd(ranges, s, e).ranges
    /\ received' = IF RangesAdd(ranges, s, e).status = "OK"
                     THEN received \cup (s..(e - 1))
                     ELSE received

Next == \E s, e \in 0..FileLen : Add(s, e)

Spec == Init /\ [][Next]_vars

-------------------------------------------------------------------------------
(* Properties *)

\* Type invariant: the array never outgrows CCSDS_CFDP_MAX_NAK_RANGES.
TypeOK ==
    /\ ranges \in Seq(Range32) /\ Len(ranges) <= MaxNakRanges
    /\ received \subseteq Nat

\* The array is in canonical form after every addition: no range is empty, and
\* each starts strictly above the end of the one before, so that ranges that
\* overlap or touch have been merged. The two while loops and the early exit of
\* ccsds_cfdp_ranges_is_complete are only right on such an array.
Canonical ==
    /\ \A i \in 1..Len(ranges) : ranges[i].start < ranges[i].end
    /\ \A i \in 1..(Len(ranges) - 1) : ranges[i].end < ranges[i + 1].start

\* What ccsds_cfdp_ranges_add keeps of its array.
ArrayInv == TypeOK /\ Canonical

\* The array stands for exactly the bytes accepted: merging neither loses a
\* received byte (it would be requested for ever) nor invents one (a file with
\* a hole would be committed).
CoverageExact == Covered(ranges) = received

\* ccsds_cfdp_ranges_is_complete answers yes exactly when every byte of the
\* window was accepted.
CompleteExact ==
    \A s, e \in 0..FileLen :
        s < e => (RangesIsComplete(ranges, s, e) <=> s..(e - 1) \subseteq received)

\* The maximal runs of bytes of [s, e) that were not received.
GapStarts(s, e) ==
    {b \in s..(e - 1) : b \notin received /\ (b = s \/ b - 1 \in received)}

\* ccsds_cfdp_ranges_missing reports exactly the bytes of the window that were
\* not received, one range per gap, and gives up (BUFFER_TOO_SMALL, which ends
\* the transaction with NAK_LIMIT_REACHED) only when there really are more gaps
\* than a NAK PDU carries.
MissingExact ==
    \A s, e \in 0..FileLen :
        s < e =>
          LET m == RangesMissing(ranges, s, e)
          IN  IF m.status = "OK"
                THEN /\ Covered(m.ranges) = (s..(e - 1)) \ received
                     /\ Len(m.ranges) = Cardinality(GapStarts(s, e))
                ELSE Cardinality(GapStarts(s, e)) > MaxNakRanges

\* What the receiver derives from the array, whether the file is complete and what
\* to request again, is exact.
ReportsExact == CompleteExact /\ MissingExact

\* Adding all the bytes of a reported gap at once is never refused for lack of
\* room: the gap touches a range of the array, or the array is empty.
WholeGapAccepted ==
    LET m == RangesMissing(ranges, 0, FileLen)
    IN  m.status = "OK" =>
          \A i \in 1..Len(m.ranges) :
             RangesAdd(ranges, m.ranges[i].start, m.ranges[i].end).status = "OK"

===============================================================================

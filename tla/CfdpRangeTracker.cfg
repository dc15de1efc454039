SPECIFICATION Spec
CONSTANTS
    MaxNakRanges = 3
    FileLen = 8
INVARIANTS
    ArrayInv
    CoverageExact
    ReportsExact
    WholeGapAccepted

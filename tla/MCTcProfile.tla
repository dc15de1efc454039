----------------------------- MODULE MCTcProfile -----------------------------
(***************************************************************************)
(* Model-checking instance of TcProfile: the ground's plans.  Packets are      *)
(* numbered in the order in which their last frames are sent.                 *)
(***************************************************************************)
EXTENDS TcProfile

\* Piece i (len bytes from off) of packet p (length total)
Piece(kind, map, p, i, off, len, total) ==
    [kind |-> kind, map |-> map, packets |-> << p >>, piece |-> i, off |-> off,
     len |-> len, total |-> total]

\* Unsegmented packets of one byte each, and a tail of so many bytes
Unsegmented(map, packets, tail) ==
    [kind |-> "unseg", map |-> map, packets |-> packets, piece |-> 1, off |-> 0,
     len |-> Len(packets) + tail, total |-> Len(packets)]

NoPacket(kind, map) == [kind |-> kind, map |-> map, packets |-> << >>, piece |-> 0,
                        off |-> 0, len |-> 0, total |-> 0]

\* One packet after the other: in three pieces, two in one frame, in two pieces.
Orderly == << Piece("first", 1, 1, 1, 0, 2, 4), Piece("cont", 1, 1, 2, 2, 1, 4),
              Piece("last", 1, 1, 3, 3, 1, 4),
              Unsegmented(2, << 2, 3 >>, 0),
              Piece("first", 2, 4, 1, 0, 2, 4), Piece("last", 2, 4, 2, 2, 2, 4) >>

\* A packet that exceeds the buffer, a frame without segment header, and one that fits.
Oversized == << Piece("first", 1, 1, 1, 0, 2, 5), Piece("cont", 1, 1, 2, 2, 2, 5),
                Piece("last", 1, 1, 3, 4, 1, 5), NoPacket("short", 0),
                Piece("first", 1, 2, 1, 0, 2, 3), Piece("last", 1, 2, 2, 2, 1, 3) >>

\* The segments of two MAPs interleaved.
Interleaved == << Piece("first", 2, 2, 1, 0, 2, 3), Piece("first", 1, 1, 1, 0, 2, 3),
                  Piece("last", 1, 1, 2, 2, 1, 3), Piece("first", 1, 3, 1, 0, 2, 3),
                  Piece("last", 2, 2, 2, 2, 1, 3), Piece("last", 1, 3, 2, 2, 1, 3) >>

\* A first segment that ends within the packet header, an empty segment in the midst
\* of a packet, and a tail that is no packet.
Malformed == << Piece("first", 1, 1, 1, 0, 1, 3), Piece("last", 1, 1, 2, 1, 2, 3),
                Piece("first", 1, 2, 1, 0, 2, 3), NoPacket("empty", 1),
                Piece("last", 1, 2, 2, 2, 1, 3), Unsegmented(2, << 3, 4 >>, 1) >>

MCPlans == {Orderly, Oversized, Interleaved, Malformed}

===============================================================================

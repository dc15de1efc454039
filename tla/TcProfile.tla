------------------------------- MODULE TcProfile -------------------------------
(***************************************************************************)
(* The telecommand receive profile, src/ccsds_profile.c: one call of           *)
(* ccsds_profile_tc_cltu_dispatch per input unit, from the frame checks through *)
(* SDLS (as far as the profile depends on it), the COP-1 check of module        *)
(* TcFarm and the segment walk, to the packet handlers.                        *)
(*                                                                         *)
(* The ground sends the frames of a plan in sequence-controlled mode, plan[k+1] *)
(* with number k; TcUplinkProofs shows that what arrives then is within         *)
(* HalfWindow of the frame expected, and that is all this module assumes.      *)
(* Every transmission is protected afresh, so any ARSN may come with it.       *)
(* Unsegmented packets may also come in bypass mode, on the clear MAP or not.  *)
(*                                                                         *)
(* A frame of the plan is a record: MAP, kind (segment boundary; "short" has no  *)
(* segment header and "empty" nothing after it), packets (those it carries, or   *)
(* the one it carries a piece of), piece (its number), off and len (the bytes of *)
(* the packet it carries) and total (the length that the packet's header gives). *)
(* Unsegmented, len is what the data field holds and total what its packets      *)
(* take: if they differ, a tail is left that is no packet.                       *)
(***************************************************************************)
EXTENDS TcFarm, Sequences, FiniteSets

CONSTANTS Plans,               \* what the ground may be sending
          HdrLen,              \* CCSDS_SPACE_PACKET_PRIMARY_HDR_LEN
          MaxPacketLen,        \* CONFIG_CCSDS_TC_MAX_SPACE_PACKET_LEN
          ClearMap,            \* clear_map_id
          RxWindow,            \* the SA's rx_window
          MaxArsn              \* bound of the model

ASSUME ProfileAssumption ==
    /\ HdrLen \in Nat /\ MaxPacketLen \in Nat /\ RxWindow \in Nat /\ MaxArsn \in Nat

Express == 0                   \* a packet sent in bypass mode; those of the plan are 1, 2, ...

Segments == {"first", "cont", "last"}

Frames == [map: Nat, kind: Segments \cup {"unseg", "short", "empty"},
           packets: Seq(Nat \ {Express}), piece: Nat, off: Nat, len: Nat, total: Nat]

\* The frames of plan pl that carry packet p or a piece of it
FramesIn(pl, p) == {k \in DOMAIN pl : \E i \in DOMAIN pl[k].packets : pl[k].packets[i] = p}

\* Frame k carries the segment after that of frame j, the next one on their MAP.
SegmentAfter(pl, j, k) ==
    /\ pl[j].kind \in {"first", "cont"} /\ pl[k].kind \in {"cont", "last"}
    /\ pl[k].map = pl[j].map /\ pl[k].packets = pl[j].packets
    /\ pl[k].piece = pl[j].piece + 1 /\ pl[k].off = pl[j].off + pl[j].len
    /\ \A i \in (j + 1)..(k - 1) : pl[i].kind \in Segments => pl[i].map # pl[j].map

\* The ground segments as the protocol asks: a packet is sent whole, its segments
\* in order on one MAP, which carries those of one packet at a time.
Segmented(pl) ==
    /\ \A k \in DOMAIN pl :
         /\ pl[k].kind \in Segments => Len(pl[k].packets) = 1 /\ pl[k].len > 0
         /\ pl[k].kind = "first" => pl[k].piece = 1 /\ pl[k].off = 0
         /\ pl[k].kind \in {"first", "cont"} =>
               /\ pl[k].off + pl[k].len < pl[k].total
               /\ \E j \in (k + 1)..Len(pl) : SegmentAfter(pl, k, j)
         /\ pl[k].kind \in {"cont", "last"} => \E j \in 1..(k - 1) : SegmentAfter(pl, j, k)
         /\ pl[k].kind = "last" =>
               /\ pl[k].off + pl[k].len = pl[k].total
               /\ pl[k].piece = Cardinality(FramesIn(pl, pl[k].packets[1]))
         /\ pl[k].kind = "unseg" =>
               \A i \in DOMAIN pl[k].packets : FramesIn(pl, pl[k].packets[i]) = {k}
         /\ pl[k].kind \in {"short", "empty"} => pl[k].packets = << >>
    /\ \A j, k \in DOMAIN pl :
         j < k /\ {pl[j].kind, pl[k].kind} \subseteq Segments /\ pl[j].packets = pl[k].packets
           => /\ pl[j].map = pl[k].map /\ pl[j].total = pl[k].total
              /\ pl[j].piece < pl[k].piece

\* Packets are numbered in the order in which the frames that complete them are sent.
Numbered(pl) ==
    \A j, k \in {i \in DOMAIN pl : pl[i].kind \in {"unseg", "last"}} :
      \A a \in DOMAIN pl[j].packets, b \in DOMAIN pl[k].packets :
        j < k \/ (j = k /\ a < b) => pl[j].packets[a] < pl[k].packets[b]

ASSUME PlanAssumption ==
    \A pl \in Plans : pl \in Seq(Frames) /\ Segmented(pl) /\ Numbered(pl)

VARIABLES farm,                \* profile->vc_state
          reassembly,          \* profile->reassembly
          ctx,                 \* profile->sdls (`on' if it is set): receive ARSN,
                               \* authenticated_rx_*
          clearEnabled,        \* profile->clear_map_enabled
          stage,               \* the counter record_tc_result incremented last
          plan,                \* the ground's frames
          taken,               \* ghost: plan frames accepted by the sequence check
          delivered,           \* history: pieces of each plan packet handed over
          failed,              \* history: packets whose handler failed
          refused,             \* ghost: ARSN of the frame authenticated_rx_fn refused, while
                               \* no later frame has been through SDLS or the walk
          handed               \* ghost: provenance shown to the handlers of the
                               \* last dispatch, with that of the frame

vars == << farm, reassembly, ctx, clearEnabled, stage, plan, taken, delivered,
           failed, refused, handed >>

Idle == [active |-> FALSE, map |-> 0, len |-> 0, expected |-> 0, parts |-> << >>]

Init ==
    /\ farm = FarmInit /\ reassembly = Idle
    /\ ctx \in [on: BOOLEAN, rxArsn: {0}, initialized: {FALSE}, valid: {FALSE}, arsn: {0}]
    /\ clearEnabled = TRUE /\ stage = "NONE" /\ plan \in Plans /\ taken = 0
    /\ delivered = << >> /\ failed = {} /\ refused = 0 /\ handed = {}

-------------------------------------------------------------------------------
(* SDLS, as the profile sees it *)

\* Mutant: the context is not withdrawn after the dispatch.
WithdrawNothing(c) == c

\* The four assignments that withdraw the authenticated receive context
\* (authenticated_rx_dispatching only tells the handlers who clears it).
Withdraw(c) == [c EXCEPT !.valid = FALSE, !.arsn = 0]

\* The replay check of ccsds_sdls_process_security
ArsnFresh(c, arsn) ==
    ~c.initialized \/ (arsn > c.rxArsn /\ arsn - c.rxArsn <= RxWindow)

\* ccsds_sdls_process_security for a frame that is authentic or not
ProcessSecurity(c, arsn, authentic) ==
    IF ArsnFresh(c, arsn) /\ authentic
      THEN [ok |-> TRUE, c |-> [c EXCEPT !.rxArsn = arsn, !.initialized = TRUE,
                                         !.valid = TRUE, !.arsn = arsn]]
      ELSE [ok |-> FALSE, c |-> Withdraw(c)]

-------------------------------------------------------------------------------
(* dispatch_tc_segment_part: a part of a segmented packet *)

\* Mutant: a continuation is taken whatever its MAP.
ForeignPartAnyMap(r, f) == ~r.active

ForeignPart(r, f) == ~r.active \/ r.map # f.map

\* The bytes join the buffer; the packet is complete when they end it and it
\* has the length its header gave.
AddPart(r, f) ==
    LET len == r.len + f.len
        parts == Append(r.parts, << f.packets[1], f.piece >>)
    IN  IF len > MaxPacketLen \/ len > r.expected
          \/ (f.kind = "last" /\ len # r.expected)
          THEN [ret |-> "EMSGSIZE", r |-> Idle, packet |-> << >>]
        ELSE IF f.kind = "last" THEN [ret |-> "OK", r |-> Idle, packet |-> parts]
        ELSE [ret |-> "OK", r |-> [r EXCEPT !.len = len, !.parts = parts], packet |-> << >>]

\* A part of a segmented packet. A first segment that does not hold the packet header,
\* or not less than the packet, is refused by the walk already.
SegmentPart(r, f) ==
    IF f.kind = "first"
      THEN IF f.len < HdrLen \/ f.total <= f.len
             THEN [ret |-> "EINVAL", r |-> r, packet |-> << >>]
           ELSE IF r.active THEN [ret |-> "EBUSY", r |-> Idle, packet |-> << >>]
           ELSE IF f.total > MaxPacketLen
             THEN [ret |-> "EMSGSIZE", r |-> r, packet |-> << >>]
           ELSE AddPart([active |-> TRUE, map |-> f.map, len |-> 0,
                         expected |-> f.total, parts |-> << >>], f)
    ELSE IF ForeignPart(r, f) THEN [ret |-> "EINVAL", r |-> Idle, packet |-> << >>]
    ELSE AddPart(r, f)

\* Mutant: an unsegmented packet discards the packet being reassembled.
UnsegmentedReassemblyReset(r) == Idle

\* An unsegmented packet leaves the packet being reassembled alone.
UnsegmentedReassembly(r) == r

-------------------------------------------------------------------------------
(* ccsds_profile_tc_cltu_dispatch *)

\* A unit that fails a check before the profile's state is reached: too long,
\* not a CLTU, not a TC frame for this spacecraft and channel, or of the
\* reserved service type.
RejectUnit ==
    /\ stage' \in {"OVERSIZE", "CLTU", "TC_FRAME"}
    /\ handed' = {}
    /\ UNCHANGED << farm, reassembly, ctx, clearEnabled, plan, taken, delivered, failed,
                    refused >>

\* A Type-BC control frame: UNLOCK, SET V(R) to the number expected, or an
\* unsupported one.
ControlFrame ==
    /\ LET s == CountFrame(farm)
       IN  farm' \in {Unlock(s), SetVr(s, s.vr), s}
    /\ stage' = "CONTROL" /\ handed' = {}
    /\ UNCHANGED << reassembly, ctx, clearEnabled, plan, taken, delivered, failed, refused >>

\* ccsds_profile_tc_set_clear_map
SetClearMap ==
    /\ clearEnabled' \in BOOLEAN
    /\ UNCHANGED << farm, reassembly, ctx, stage, plan, taken, delivered, failed, refused,
                    handed >>

\* Handing over the packets of one frame, in order, until a handler fails;
\* c is the SDLS context they find.  The histories keep those of the plan (a frame
\* with an express packet carries nothing else).
HandOver(c, carrier, packets, whole) ==
    \E n \in 0..Len(packets) :
      LET called == SubSeq(packets, 1, IF n < Len(packets) THEN n + 1 ELSE n)
          bad == {packets[i][1][1] : i \in {n + 1} \cap DOMAIN packets}
          express == \E i \in DOMAIN called : called[i][1][1] = Express
      IN  /\ delivered' = IF express THEN delivered ELSE delivered \o called
          /\ failed' = failed \cup (bad \ {Express})
          /\ handed' = IF called = << >> THEN {}
                       ELSE {[shown |-> IF c.valid THEN c.arsn ELSE 0,
                              carrier |-> carrier, refused |-> refused]}
          /\ stage' = IF n = Len(packets) /\ whole THEN "DISPATCHED" ELSE "ROUTER"

NoHandOver == UNCHANGED << delivered, failed >> /\ handed' = {}

\* The segment walk of a frame that passed the sequence check. Whatever it cannot
\* use, an empty segment, a first segment that ends within the packet header, the
\* tail after the last packet, is lost: V(R) has advanced.
WalkParts(f, c, carrier) ==
    \/ /\ f.kind = "short"                  \* no segment header
       /\ NoHandOver /\ stage' = "PACKET"
       /\ UNCHANGED reassembly
    \/ /\ f.kind = "empty"
       /\ NoHandOver /\ stage' = "ROUTER"
       /\ UNCHANGED reassembly
    \/ /\ f.kind = "unseg" /\ reassembly.active
       /\ NoHandOver /\ stage' = "ROUTER"
       /\ reassembly' = UnsegmentedReassembly(reassembly)
    \/ /\ f.kind = "unseg" /\ ~reassembly.active
       /\ HandOver(c, carrier, [i \in 1..Len(f.packets) |-> << << f.packets[i], 1 >> >>],
                   f.len = f.total)
       /\ UNCHANGED reassembly
    \/ /\ f.kind \in Segments
       /\ LET part == SegmentPart(reassembly, f)
          IN  /\ reassembly' = part.r
              /\ HandOver(c, carrier, IF part.packet = << >> THEN << >> ELSE << part.packet >>,
                          part.ret = "OK")

\* A data frame after SDLS: the FARM-B count, the sequence check, the walk.
AfterSecurity(f, c, carrier, check, accepts) ==
    /\ farm' = check.s
    /\ ctx' = Withdraw(c) /\ refused' = 0
    /\ \/ /\ check.ret # "OK"
          /\ NoHandOver /\ stage' = "TC_FRAME"
          /\ UNCHANGED << reassembly, taken >>
       \/ /\ check.ret = "OK"
          /\ WalkParts(f, c, carrier)
          /\ taken' = taken + accepts

\* A data frame (Type-A or B).  Without SDLS there is no context and nothing is
\* authenticated; on the clear MAP the context is left as it is found.
DataFrame(f, check, accepts) ==
    /\ UNCHANGED << clearEnabled, plan >>
    /\ \/ /\ ctx.on /\ f.kind = "short"
          /\ NoHandOver /\ stage' = "PACKET"
          /\ UNCHANGED << farm, reassembly, ctx, taken, refused >>
       \/ /\ ctx.on /\ f.kind # "short" /\ f.map = ClearMap /\ ~clearEnabled
          /\ NoHandOver /\ stage' = "SDLS"
          /\ UNCHANGED << farm, reassembly, ctx, taken, refused >>
       \/ /\ ~ctx.on \/ (f.kind # "short" /\ f.map = ClearMap /\ clearEnabled)
          /\ AfterSecurity(f, ctx, 0, check, accepts)
       \/ /\ ctx.on /\ f.kind # "short" /\ f.map # ClearMap
          /\ \E arsn \in 1..MaxArsn, authentic \in BOOLEAN :
               LET sec == ProcessSecurity(ctx, arsn, authentic)
               IN  \/ /\ ~sec.ok
                      /\ NoHandOver /\ stage' = "SDLS" /\ ctx' = sec.c /\ refused' = 0
                      /\ UNCHANGED << farm, reassembly, taken >>
                   \/ /\ sec.ok                       \* authenticated_rx_fn fails
                      /\ NoHandOver /\ stage' = "SDLS" /\ ctx' = sec.c /\ refused' = arsn
                      /\ UNCHANGED << farm, reassembly, taken >>
                   \/ /\ sec.ok
                      /\ AfterSecurity(f, sec.c, arsn, check, accepts)

SequencedFrame ==
    \E k \in 0..(Len(plan) - 1) :
      /\ taken - HalfWindow < k /\ k < taken + HalfWindow
      /\ LET check == SequenceCheck(CountFrame(farm), k % Modulus)
         IN  DataFrame(plan[k + 1], check, 1)

Maps == {f.map : f \in UNION { {p[i] : i \in DOMAIN p} : p \in Plans }} \cup {ClearMap}

\* A Type-B frame with an unsegmented packet that is not of the plan
BypassFrame ==
    \E map \in Maps :
      LET s == CountFrame(farm)
          check == [ret |-> BypassCheck(s), s |-> s]
          f == [map |-> map, kind |-> "unseg", packets |-> << Express >>, piece |-> 1,
                off |-> 0, len |-> 1, total |-> 1]
      IN  DataFrame(f, check, 0)

Next == RejectUnit \/ ControlFrame \/ SequencedFrame \/ BypassFrame \/ SetClearMap

Spec == Init /\ [][Next]_vars

-------------------------------------------------------------------------------
(* Properties *)

Packets == UNION { {plan[k].packets[i] : i \in DOMAIN plan[k].packets} : k \in DOMAIN plan }

FramesOf(p) == FramesIn(plan, p)

\* p as it was sent: all its pieces, in order
Whole(p) == [i \in 1..Cardinality(FramesOf(p)) |-> << p, i >>]

\* The variables have their types and the reassembly buffer is not overrun.
TypeOK ==
    /\ farm \in FarmState
    /\ reassembly.len <= reassembly.expected /\ reassembly.expected <= MaxPacketLen
    /\ ctx \in [on: BOOLEAN, rxArsn: 0..MaxArsn, initialized: BOOLEAN, valid: BOOLEAN,
               arsn: 0..MaxArsn]
    /\ clearEnabled \in BOOLEAN
    /\ stage \in {"NONE", "OVERSIZE", "CLTU", "TC_FRAME", "SDLS", "CONTROL", "PACKET",
                  "ROUTER", "DISPATCHED"}
    /\ taken \in 0..Len(plan) /\ failed \subseteq Packets

\* dispatch_tc_segment_part never hands over a packet put together from pieces
\* of different packets, or with a piece missing, repeated or out of order,
\* however the segments of different MAPs are interleaved.
DeliveredWhole == \A i \in DOMAIN delivered : \E p \in Packets : delivered[i] = Whole(p)

\* The reassembly buffer is not overrun, and what is handed over from it is whole.
DispatchInv == TypeOK /\ DeliveredWhole

\* Sequence-controlled packets are handed over in the order they were sent and
\* none twice, whatever is retransmitted.
DeliveredInOrder ==
    \A i, j \in DOMAIN delivered : i < j => delivered[i][1][1] < delivered[j][1][1]

\* The frames of no packet are mixed with those of another.
Sequential ==
    \A p, q \in Packets : p # q /\ Cardinality(FramesOf(p)) > 1 =>
       \A k \in FramesOf(q) :
          (\A j \in FramesOf(p) : k < j) \/ (\A j \in FramesOf(p) : j < k)

\* p fits the buffer, and its first segment holds its header.
Fits(p) == \A k \in FramesOf(p) : plan[k].kind \in Segments =>
              /\ plan[k].total <= MaxPacketLen
              /\ plan[k].kind = "first" => plan[k].len >= HdrLen

\* A frame that fails before p's turn in it
Preceded(p) ==
    \E k \in FramesOf(p) : \E i, j \in DOMAIN plan[k].packets :
       i < j /\ plan[k].packets[i] \in failed /\ plan[k].packets[j] = p

\* What the sequence check has acknowledged is not lost behind it: when the
\* last frame of a packet has been accepted, the packet has been handed over,
\* although V(R) advances before the segments are looked at; unless it exceeds
\* the buffer, its first segment ends within its header, or the handler of an
\* earlier packet in the same frame failed. Empty segments and malformed tails cost
\* no packet.
AcceptedIsDelivered ==
    Sequential => \A p \in Packets :
      (\A k \in FramesOf(p) : k <= taken) /\ Fits(p) /\ ~Preceded(p)
        => \E i \in DOMAIN delivered : delivered[i] = Whole(p)

\* A handler that asks who sent its packet is shown the ARSN of the frame that
\* carried it, or none if that frame was not authenticated.
ProvenanceIsOwn == \A h \in handed : h.shown = h.carrier

\* The only other ARSN it is ever shown is that of the frame authenticated_rx_fn has
\* just refused, whose exit leaves the context valid: by a frame on the clear MAP that
\* comes before any other frame has been through SDLS or the walk.
ProvenanceOwnOrRefused ==
    \A h \in handed : h.shown = h.carrier \/ (h.carrier = 0 /\ h.shown = h.refused)

===============================================================================

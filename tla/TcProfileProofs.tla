---------------------------- MODULE TcProfileProofs ----------------------------
(***************************************************************************)
(* Proofs, for every plan that is segmented as the protocol asks and for every  *)
(* window, buffer length and clear MAP, that the receive profile hands over     *)
(* what the sequence check accepted: whole packets, in order, none lost behind  *)
(* an acknowledgement, and with the provenance of the frame that carried them,  *)
(* or of the one authenticated_rx_fn has just refused.                         *)
(*                                                                         *)
(* FarmInv ties V(R) to the number of frames accepted, so that the frame that    *)
(* passes the check is the next of the plan.  ReassemblyInv says what the       *)
(* buffer holds in terms of the plan, OrderInv what has been handed over, and   *)
(* NoneLost, for a plan whose packets are not interleaved, that the buffer      *)
(* holds whatever it should.  ContextInv is the invariant of the SDLS context.  *)
(***************************************************************************)
EXTENDS TcProfile, FiniteSetTheorems, SequenceTheorems, TLAPS

-------------------------------------------------------------------------------
(* The inductive invariant *)

PlanInv == plan \in Plans

FarmInv == farm \in FarmState /\ taken \in Nat /\ farm.vr = taken % Modulus

TakenInv == taken <= Len(plan)

\* The segment of frame j has been accepted and the next of its packet has not.
Open(j) ==
    /\ j \in 1..taken /\ plan[j].kind \in {"first", "cont"}
    /\ \A i \in (j + 1)..taken : plan[i].kind \in Segments => plan[i].map # plan[j].map

\* The buffer holds the packet of frame j, up to and including that frame.
HoldsUpTo(r, j) ==
    /\ r.active = TRUE /\ r.map = plan[j].map
    /\ r.len = plan[j].off + plan[j].len /\ r.expected = plan[j].total
    /\ r.parts = [i \in 1..plan[j].piece |-> << plan[j].packets[1], i >>]

ReassemblyInv ==
    \/ reassembly = Idle
    \/ \E j \in 1..taken :
         Open(j) /\ HoldsUpTo(reassembly, j) /\ reassembly.expected <= MaxPacketLen

Completes(j) == plan[j].kind \in {"unseg", "last"}

\* d is a packet that a frame up to the k-th completed, whole.
HandedBy(d, k) ==
    \E j \in 1..k : /\ Completes(j)
                    /\ \E i \in DOMAIN plan[j].packets : d = Whole(plan[j].packets[i])

FailedInv == failed \subseteq Packets

OrderInv ==
    /\ delivered \in Seq(Seq(Nat \X Nat))
    /\ \A i \in DOMAIN delivered : HandedBy(delivered[i], taken)
    /\ \A i, j \in DOMAIN delivered : i < j => delivered[i][1][1] < delivered[j][1][1]

\* The buffer holds what has been accepted of a packet that fits.
BufferComplete ==
    \A j \in 1..taken : Open(j) /\ Fits(plan[j].packets[1]) => HoldsUpTo(reassembly, j)

NoneLost == Sequential => BufferComplete /\ AcceptedIsDelivered

\* Between dispatches the context is withdrawn, unless authenticated_rx_fn refused
\* the last frame that SDLS passed.
ContextInv ==
    /\ ctx \in [on: BOOLEAN, rxArsn: 0..MaxArsn, initialized: BOOLEAN, valid: BOOLEAN,
                arsn: 0..MaxArsn]
    /\ ctx.valid => ctx.arsn = refused

SettingsInv ==
    /\ clearEnabled \in BOOLEAN
    /\ stage \in {"NONE", "OVERSIZE", "CLTU", "TC_FRAME", "SDLS", "CONTROL", "PACKET",
                  "ROUTER", "DISPATCHED"}

DispatchInd ==
    /\ PlanInv /\ FarmInv /\ TakenInv /\ ReassemblyInv /\ FailedInv /\ OrderInv /\ NoneLost

-------------------------------------------------------------------------------
(* The SDLS context *)

\* Withdrawing the context keeps its type and leaves it invalid.
LEMMA WithdrawIs ==
    ASSUME NEW c \in [on: BOOLEAN, rxArsn: 0..MaxArsn, initialized: BOOLEAN, valid: BOOLEAN,
                      arsn: 0..MaxArsn]
    PROVE  /\ Withdraw(c) \in [on: BOOLEAN, rxArsn: 0..MaxArsn, initialized: BOOLEAN,
                               valid: BOOLEAN, arsn: 0..MaxArsn]
           /\ Withdraw(c).valid = FALSE
<1>1. 0 \in 0..MaxArsn
  BY ProfileAssumption
<1> QED
  BY <1>1 DEF Withdraw

\* A frame that SDLS passes leaves its own ARSN in the context, one that it
\* refuses nothing.
LEMMA ProcessSecurityIs ==
    ASSUME NEW c \in [on: BOOLEAN, rxArsn: 0..MaxArsn, initialized: BOOLEAN, valid: BOOLEAN,
                      arsn: 0..MaxArsn],
           NEW arsn \in 1..MaxArsn, NEW authentic \in BOOLEAN
    PROVE  LET sec == ProcessSecurity(c, arsn, authentic)
           IN  /\ sec.c \in [on: BOOLEAN, rxArsn: 0..MaxArsn, initialized: BOOLEAN,
                             valid: BOOLEAN, arsn: 0..MaxArsn]
               /\ sec.ok => sec.c.valid = TRUE /\ sec.c.arsn = arsn
               /\ ~sec.ok => sec.c.valid = FALSE
<1>1. arsn \in 0..MaxArsn
  BY ProfileAssumption
<1>2. CASE ArsnFresh(c, arsn) /\ authentic
  BY <1>1, <1>2 DEF ProcessSecurity
<1>3. CASE ~(ArsnFresh(c, arsn) /\ authentic)
  BY <1>3, WithdrawIs DEF ProcessSecurity
<1> QED
  BY <1>2, <1>3

\* What a hand-over shows the handlers is the context it finds.
LEMMA HandOverShows ==
    ASSUME NEW c, NEW carrier, NEW packets, NEW whole, HandOver(c, carrier, packets, whole)
    PROVE  /\ handed' \subseteq {[shown |-> IF c.valid THEN c.arsn ELSE 0,
                                  carrier |-> carrier, refused |-> refused]}
           /\ stage' \in {"DISPATCHED", "ROUTER"}
BY DEF HandOver

\* So does the walk of a frame.
LEMMA WalkShows ==
    ASSUME NEW f, NEW c, NEW carrier, WalkParts(f, c, carrier)
    PROVE  /\ handed' \subseteq {[shown |-> IF c.valid THEN c.arsn ELSE 0,
                                  carrier |-> carrier, refused |-> refused]}
           /\ stage' \in {"DISPATCHED", "ROUTER", "PACKET"}
BY HandOverShows DEF WalkParts, NoHandOver

\* A data frame that has been through SDLS, or need not be: its handlers are shown
\* the context c, which is withdrawn afterwards.
LEMMA AfterSecurityKeeps ==
    ASSUME NEW f, NEW c \in [on: BOOLEAN, rxArsn: 0..MaxArsn, initialized: BOOLEAN,
                             valid: BOOLEAN, arsn: 0..MaxArsn],
           NEW carrier, NEW check, NEW accepts,
           c.valid => c.arsn = carrier \/ (carrier = 0 /\ c.arsn = refused),
           ~c.valid => carrier = 0,
           UNCHANGED clearEnabled, SettingsInv,
           AfterSecurity(f, c, carrier, check, accepts)
    PROVE  ContextInv' /\ SettingsInv' /\ ProvenanceOwnOrRefused'
<1>1. ContextInv'
  BY WithdrawIs DEF AfterSecurity, ContextInv
<1>2. /\ handed' \subseteq {[shown |-> IF c.valid THEN c.arsn ELSE 0,
                             carrier |-> carrier, refused |-> refused]}
      /\ stage' \in {"DISPATCHED", "ROUTER", "PACKET", "TC_FRAME"}
  BY WalkShows DEF AfterSecurity, NoHandOver
<1>3. ProvenanceOwnOrRefused'
  BY <1>2 DEF ProvenanceOwnOrRefused
<1> QED
  BY <1>1, <1>2, <1>3 DEF SettingsInv

\* A data frame, whichever way it takes through SDLS.
LEMMA DataFrameKeepsContext ==
    ASSUME NEW f, NEW check, NEW accepts, ContextInv, SettingsInv,
           DataFrame(f, check, accepts)
    PROVE  ContextInv' /\ SettingsInv' /\ ProvenanceOwnOrRefused'
<1> DEFINE C == [on: BOOLEAN, rxArsn: 0..MaxArsn, initialized: BOOLEAN,
                 valid: BOOLEAN, arsn: 0..MaxArsn]
<1>1. UNCHANGED clearEnabled /\ ctx \in C
  BY DEF DataFrame, ContextInv
<1>2. CASE /\ NoHandOver /\ stage' \in {"PACKET", "SDLS"}
           /\ UNCHANGED << ctx, refused >>
  BY <1>1, <1>2 DEF NoHandOver, ContextInv, SettingsInv, ProvenanceOwnOrRefused
<1>3. CASE AfterSecurity(f, ctx, 0, check, accepts)
  <2>1. /\ ctx.valid => ctx.arsn = 0 \/ (0 = 0 /\ ctx.arsn = refused)
        /\ ~ctx.valid => 0 = 0
    BY DEF ContextInv
  <2> QED
    BY <1>1, <1>3, <2>1, AfterSecurityKeeps
<1>4. CASE \E arsn \in 1..MaxArsn, authentic \in BOOLEAN :
             LET sec == ProcessSecurity(ctx, arsn, authentic)
             IN  \/ /\ ~sec.ok
                    /\ NoHandOver /\ stage' = "SDLS" /\ ctx' = sec.c /\ refused' = 0
                 \/ /\ sec.ok
                    /\ NoHandOver /\ stage' = "SDLS" /\ ctx' = sec.c /\ refused' = arsn
                 \/ sec.ok /\ AfterSecurity(f, sec.c, arsn, check, accepts)
  <2>1. PICK arsn \in 1..MaxArsn, authentic \in BOOLEAN :
             LET sec == ProcessSecurity(ctx, arsn, authentic)
             IN  \/ /\ ~sec.ok
                    /\ NoHandOver /\ stage' = "SDLS" /\ ctx' = sec.c /\ refused' = 0
                 \/ /\ sec.ok
                    /\ NoHandOver /\ stage' = "SDLS" /\ ctx' = sec.c /\ refused' = arsn
                 \/ sec.ok /\ AfterSecurity(f, sec.c, arsn, check, accepts)
    BY <1>4
  <2> DEFINE sec == ProcessSecurity(ctx, arsn, authentic)
  <2>2. /\ sec.c \in C
        /\ sec.ok => sec.c.valid = TRUE /\ sec.c.arsn = arsn
        /\ ~sec.ok => sec.c.valid = FALSE
    BY <1>1, ProcessSecurityIs
  <2> HIDE DEF sec
  <2>3. CASE /\ NoHandOver /\ stage' = "SDLS" /\ ctx' = sec.c
             /\ sec.ok => refused' = arsn
    BY <1>1, <2>2, <2>3 DEF NoHandOver, ContextInv, SettingsInv, ProvenanceOwnOrRefused
  <2>4. CASE sec.ok /\ AfterSecurity(f, sec.c, arsn, check, accepts)
    BY <1>1, <2>2, <2>4, AfterSecurityKeeps
  <2> QED
    BY <2>1, <2>3, <2>4 DEF sec
<1> QED
  BY <1>2, <1>3, <1>4 DEF DataFrame

\* Every dispatch leaves the context withdrawn, or with the ARSN of the frame that
\* authenticated_rx_fn has just refused.
LEMMA ContextInvariant == Spec => [](ContextInv /\ SettingsInv /\ ProvenanceOwnOrRefused)
<1> DEFINE I == ContextInv /\ SettingsInv /\ ProvenanceOwnOrRefused
<1>1. Init => I
  <2> SUFFICES ASSUME Init PROVE I
    OBVIOUS
  <2>1. 0 \in 0..MaxArsn
    BY ProfileAssumption
  <2>2. ContextInv
    BY <2>1 DEF Init, ContextInv
  <2> QED
    BY <2>2 DEF Init, SettingsInv, ProvenanceOwnOrRefused
<1>2. I /\ [Next]_vars => I'
  <2> SUFFICES ASSUME I, [Next]_vars PROVE I'
    OBVIOUS
  <2>1. CASE RejectUnit
    BY <2>1 DEF RejectUnit, ContextInv, SettingsInv, ProvenanceOwnOrRefused
  <2>2. CASE ControlFrame
    BY <2>2 DEF ControlFrame, ContextInv, SettingsInv, ProvenanceOwnOrRefused
  <2>3. CASE SequencedFrame
    BY <2>3, DataFrameKeepsContext DEF SequencedFrame
  <2>4. CASE BypassFrame
    BY <2>4, DataFrameKeepsContext DEF BypassFrame
  <2>5. CASE SetClearMap
    BY <2>5 DEF SetClearMap, ContextInv, SettingsInv, ProvenanceOwnOrRefused
  <2>6. CASE UNCHANGED vars
    BY <2>6 DEF vars, ContextInv, SettingsInv, ProvenanceOwnOrRefused
  <2> QED
    BY <2>1, <2>2, <2>3, <2>4, <2>5, <2>6 DEF Next
<1> QED
  BY <1>1, <1>2, PTL DEF Spec

\* A handler is shown the ARSN of the frame that carried its packet, or none if
\* that frame was not authenticated; but after authenticated_rx_fn has refused a
\* frame, one on the clear MAP is walked with the context that frame left.
THEOREM ProfileProvenanceOwnOrRefused == Spec => []ProvenanceOwnOrRefused
BY ContextInvariant, PTL

-------------------------------------------------------------------------------
(* The frame the sequence check accepts *)

\* A multiple of Modulus that is less than Modulus away from another is the same.
LEMMA NearMultiples ==
    ASSUME NEW q1 \in Int, NEW q2 \in Int,
           Modulus * q1 - Modulus * q2 < Modulus, Modulus * q2 - Modulus * q1 < Modulus
    PROVE  q1 = q2
<1>1. Modulus \in Nat /\ Modulus > 0
  BY WindowAssumption
<1>2. ASSUME NEW a \in Int, NEW b \in Int, a > b
      PROVE  Modulus * a - Modulus * b >= Modulus
  <2> DEFINE d == a - b - 1
  <2>1. d \in Nat /\ a = b + 1 + d
    BY <1>2
  <2> HIDE DEF d
  <2>2. Modulus * a = Modulus * b + Modulus + Modulus * d
    BY <1>1, <2>1
  <2>3. Modulus * d >= 0
    BY <1>1, <2>1
  <2> QED
    BY <1>1, <2>2, <2>3, <2>1
<1> QED
  BY <1>1, <1>2

\* Numbers less than Modulus apart have the same remainder only if they are equal,
\* and FsnNext counts modulo Modulus.
LEMMA Remainders ==
    ASSUME NEW x \in Nat, NEW y \in Nat
    PROVE  /\ x % Modulus \in Fsns
           /\ x % Modulus = y % Modulus /\ x - y < Modulus /\ y - x < Modulus => x = y
           /\ FsnNext(x % Modulus) = (x + 1) % Modulus
<1>1. Modulus \in Nat /\ Modulus > 1
  BY WindowAssumption
<1>2. ASSUME NEW n \in Nat
      PROVE  /\ n % Modulus \in 0..(Modulus - 1) /\ n \div Modulus \in Int
             /\ n = Modulus * (n \div Modulus) + (n % Modulus)
  BY <1>1
<1>3. ASSUME x % Modulus = y % Modulus, x - y < Modulus, y - x < Modulus PROVE x = y
  <2> DEFINE q == x \div Modulus
             r == y \div Modulus
  <2>1. /\ q \in Int /\ r \in Int /\ Modulus * q \in Int /\ Modulus * r \in Int
        /\ x = Modulus * q + (x % Modulus) /\ y = Modulus * r + (x % Modulus)
        /\ x % Modulus \in Int
    BY <1>1, <1>2, <1>3
  <2> HIDE DEF q, r
  <2>2. Modulus * q - Modulus * r < Modulus /\ Modulus * r - Modulus * q < Modulus
    BY <1>1, <1>3, <2>1
  <2>3. q = r
    BY <2>1, <2>2, NearMultiples
  <2> QED
    BY <2>1, <2>3
<1>4. FsnNext(x % Modulus) = (x + 1) % Modulus
  <2> DEFINE q == x \div Modulus
             r == (x + 1) \div Modulus
             v == FsnNext(x % Modulus)
             w == (x + 1) % Modulus
  <2>1. /\ q \in Int /\ r \in Int /\ w \in 0..(Modulus - 1)
        /\ Modulus * q \in Int /\ Modulus * r \in Int
        /\ x = Modulus * q + (x % Modulus) /\ x + 1 = Modulus * r + w
        /\ x % Modulus \in 0..(Modulus - 1)
    BY <1>1, <1>2, x + 1 \in Nat
  <2>2. CASE (x % Modulus) + 1 = Modulus
    <3>1. v = 0 /\ Modulus * (q + 1) = Modulus * q + Modulus /\ q + 1 \in Int
      BY <1>1, <2>1, <2>2 DEF FsnNext
    <3> HIDE DEF q, r, v, w
    <3>2. Modulus * r + w = Modulus * (q + 1)
      BY <1>1, <2>1, <2>2, <3>1
    <3>3. /\ Modulus * (q + 1) - Modulus * r < Modulus
          /\ Modulus * r - Modulus * (q + 1) < Modulus
      BY <1>1, <2>1, <3>1, <3>2
    <3>4. q + 1 = r
      BY <2>1, <3>1, <3>3, NearMultiples
    <3>5. v = w
      BY <2>1, <3>1, <3>2, <3>4
    <3> QED
      BY <3>5 DEF v, w
  <2>3. CASE (x % Modulus) + 1 # Modulus
    <3>1. v = (x % Modulus) + 1 /\ v \in 0..(Modulus - 1)
      BY <1>1, <2>1, <2>3 DEF FsnNext
    <3> HIDE DEF q, r, v, w
    <3>2. Modulus * r + w = Modulus * q + v
      BY <1>1, <2>1, <3>1
    <3>3. /\ Modulus * q - Modulus * r < Modulus
          /\ Modulus * r - Modulus * q < Modulus
      BY <1>1, <2>1, <3>1, <3>2
    <3>4. q = r
      BY <2>1, <3>3, NearMultiples
    <3>5. v = w
      BY <2>1, <3>1, <3>2, <3>4
    <3> QED
      BY <3>5 DEF v, w
  <2> QED
    BY <2>2, <2>3
<1> QED
  BY <1>2, <1>3, <1>4 DEF Fsns

\* The assignments to the receive state keep its type, and V(R) but where they
\* set it.
LEMMA FarmEdits ==
    ASSUME NEW s \in FarmState
    PROVE  /\ CountFrame(s) \in FarmState /\ CountFrame(s).vr = s.vr
           /\ Unlock(s) \in FarmState /\ Unlock(s).vr = s.vr
           /\ SetVr(s, s.vr) \in FarmState /\ SetVr(s, s.vr).vr = s.vr
<1>1. (s.farmB + 1) % 4 \in 0..3
  BY DEF FarmState
<1> QED
  BY <1>1 DEF FarmState, CountFrame, Unlock, SetVr

\* update_tc_sequence_state accepts the frame it expects and no other.
LEMMA SequenceCheckIs ==
    ASSUME NEW s \in FarmState, NEW fsn \in Fsns
    PROVE  LET check == SequenceCheck(s, fsn)
           IN  /\ check.s \in FarmState
               /\ check.ret = "OK" => fsn = s.vr /\ check.s.vr = FsnNext(s.vr)
               /\ check.ret # "OK" => check.s.vr = s.vr
<1> DEFINE check == SequenceCheck(s, fsn)
<1>1. FsnNext(s.vr) \in Fsns
  BY WindowAssumption DEF FsnNext, Fsns, FarmState
<1>2. CASE check = [ret |-> "EACCES", s |-> s] \/ check = [ret |-> "EAGAIN", s |-> s]
  BY <1>2
<1>3. CASE /\ IsExpected(s, fsn)
           /\ check = [ret |-> "OK", s |-> [s EXCEPT !.vr = FsnNext(@), !.retransmit = FALSE]]
  <2>1. check.ret = "OK" /\ check.s = [s EXCEPT !.vr = FsnNext(@), !.retransmit = FALSE]
    BY <1>3
  <2> QED
    BY <1>1, <1>3, <2>1 DEF IsExpected, FarmState
<1>4. CASE check = [ret |-> "EAGAIN", s |-> [s EXCEPT !.retransmit = TRUE]]
  <2>1. check.ret = "EAGAIN" /\ check.s = [s EXCEPT !.retransmit = TRUE]
    BY <1>4
  <2> QED
    BY <2>1 DEF FarmState
<1>5. CASE check = [ret |-> "EAGAIN", s |-> [s EXCEPT !.lockout = TRUE]]
  <2>1. check.ret = "EAGAIN" /\ check.s = [s EXCEPT !.lockout = TRUE]
    BY <1>5
  <2> QED
    BY <2>1 DEF FarmState
<1> QED
  BY <1>2, <1>3, <1>4, <1>5 DEF SequenceCheck

-------------------------------------------------------------------------------
(* What a step does to the packets *)

\* Nothing.
Quiet == UNCHANGED << plan, taken, reassembly, delivered, failed >>

\* The next frame of the plan passes the sequence check and is walked.
Accepts ==
    /\ taken + 1 \in DOMAIN plan /\ taken' = taken + 1 /\ UNCHANGED plan
    /\ \E c, carrier : WalkParts(plan[taken + 1], c, carrier)

\* A data frame is walked if it passes the sequence check.
LEMMA DataFrameEffect ==
    ASSUME NEW f, NEW check, NEW accepts, DataFrame(f, check, accepts)
    PROVE  /\ UNCHANGED plan
           /\ \/ UNCHANGED << farm, taken, reassembly, delivered, failed >>
              \/ /\ farm' = check.s /\ check.ret # "OK"
                 /\ UNCHANGED << taken, reassembly, delivered, failed >>
              \/ /\ farm' = check.s /\ check.ret = "OK" /\ taken' = taken + accepts
                 /\ \E c, carrier : WalkParts(f, c, carrier)
<1>1. ASSUME NEW c, NEW carrier, AfterSecurity(f, c, carrier, check, accepts)
      PROVE  \/ /\ farm' = check.s /\ check.ret # "OK"
                /\ UNCHANGED << taken, reassembly, delivered, failed >>
             \/ /\ farm' = check.s /\ check.ret = "OK" /\ taken' = taken + accepts
                /\ \E cc, car : WalkParts(f, cc, car)
  BY <1>1 DEF AfterSecurity, NoHandOver
<1> QED
  BY <1>1 DEF DataFrame, NoHandOver

\* A bypass frame leaves the packets of the plan alone.
LEMMA ExpressIsQuiet ==
    ASSUME NEW f, f.kind = "unseg", f.packets = << Express >>, NEW c, NEW carrier,
           WalkParts(f, c, carrier), UNCHANGED << plan, taken >>
    PROVE  Quiet
<1> DEFINE packets == [i \in 1..Len(f.packets) |-> << << f.packets[i], 1 >> >>]
<1>1. CASE NoHandOver /\ UNCHANGED reassembly
  BY <1>1 DEF NoHandOver, Quiet
<1>2. CASE HandOver(c, carrier, packets, f.len = f.total) /\ UNCHANGED reassembly
  <2>1. packets = << << << Express, 1 >> >> >>
    OBVIOUS
  <2> HIDE DEF packets
  <2>2. PICK n \in 0..1 :
          LET called == SubSeq(packets, 1, IF n < 1 THEN n + 1 ELSE n)
              bad == {packets[i][1][1] : i \in {n + 1} \cap DOMAIN packets}
              express == \E i \in DOMAIN called : called[i][1][1] = Express
          IN  /\ delivered' = IF express THEN delivered ELSE delivered \o called
              /\ failed' = failed \cup (bad \ {Express})
    BY <1>2, <2>1 DEF HandOver
  <2>3. SubSeq(packets, 1, IF n < 1 THEN n + 1 ELSE n) = packets
    <3>1. (IF n < 1 THEN n + 1 ELSE n) = 1
      OBVIOUS
    <3>2. packets \in Seq({<< << Express, 1 >> >>}) /\ Len(packets) = 1
      BY <2>1
    <3>3. SubSeq(packets, 1, 1) = packets
      BY <3>2, SubSeqFull
    <3> QED
      BY <3>1, <3>3
  <2>4. \E i \in DOMAIN packets : packets[i][1][1] = Express
    BY <2>1
  <2>5. \A i \in DOMAIN packets : packets[i][1][1] = Express
    BY <2>1
  <2> QED
    BY <1>2, <2>2, <2>3, <2>4, <2>5 DEF Quiet
<1> QED
  BY <1>1, <1>2 DEF WalkParts, UnsegmentedReassembly, Segments

\* The frames that pass the check are those of the plan, one after the other.
LEMMA StepEffect ==
    ASSUME PlanInv, FarmInv, [Next]_vars
    PROVE  FarmInv' /\ (Quiet \/ Accepts)
<1>1. CASE RejectUnit
  BY <1>1 DEF RejectUnit, FarmInv, Quiet
<1>2. CASE ControlFrame
  <2>1. farm' \in FarmState /\ farm'.vr = farm.vr /\ taken' = taken
    BY <1>2, FarmEdits DEF ControlFrame, FarmInv
  <2>2. Quiet
    BY <1>2 DEF ControlFrame, Quiet
  <2> QED
    BY <2>1, <2>2 DEF FarmInv
<1>3. CASE SequencedFrame
  <2>1. PICK k \in 0..(Len(plan) - 1) :
           /\ taken - HalfWindow < k /\ k < taken + HalfWindow
           /\ LET check == SequenceCheck(CountFrame(farm), k % Modulus)
              IN  DataFrame(plan[k + 1], check, 1)
    BY <1>3 DEF SequencedFrame
  <2> DEFINE check == SequenceCheck(CountFrame(farm), k % Modulus)
  <2>2. plan \in Seq(Frames) /\ k \in Nat /\ k + 1 \in DOMAIN plan
    BY PlanAssumption DEF PlanInv
  <2>3. taken \in Nat /\ farm.vr = taken % Modulus /\ farm \in FarmState
    BY DEF FarmInv
  <2>4. /\ check.s \in FarmState
        /\ check.ret = "OK" => k % Modulus = farm.vr /\ check.s.vr = FsnNext(farm.vr)
        /\ check.ret # "OK" => check.s.vr = farm.vr
    <3>1. CountFrame(farm) \in FarmState /\ CountFrame(farm).vr = farm.vr
      BY <2>3, FarmEdits
    <3>2. k % Modulus \in Fsns
      BY <2>2, Remainders
    <3> QED
      BY <3>1, <3>2, SequenceCheckIs
  <2>5. DataFrame(plan[k + 1], check, 1)
    BY <2>1
  <2> HIDE DEF check
  <2>6. CASE UNCHANGED << plan, farm, taken, reassembly, delivered, failed >>
    BY <2>6 DEF FarmInv, Quiet
  <2>7. CASE /\ farm' = check.s /\ check.ret # "OK"
             /\ UNCHANGED << plan, taken, reassembly, delivered, failed >>
    BY <2>4, <2>7 DEF FarmInv, Quiet
  <2>8. CASE /\ farm' = check.s /\ check.ret = "OK" /\ taken' = taken + 1 /\ UNCHANGED plan
             /\ \E c, carrier : WalkParts(plan[k + 1], c, carrier)
    <3>1. k = taken
      <4>1. k - taken < Modulus /\ taken - k < Modulus
        BY <2>1, <2>2, <2>3, WindowAssumption
      <4> QED
        BY <2>2, <2>3, <2>4, <2>8, <4>1, Remainders
    <3>2. farm'.vr = taken' % Modulus /\ farm' \in FarmState /\ taken' \in Nat
      <4>1. FsnNext(taken % Modulus) = (taken + 1) % Modulus
        BY <2>3, Remainders
      <4> QED
        BY <2>3, <2>4, <2>8, <4>1
    <3> QED
      BY <2>2, <2>8, <3>1, <3>2 DEF FarmInv, Accepts
  <2> QED
    BY <2>5, <2>6, <2>7, <2>8, DataFrameEffect
<1>4. CASE BypassFrame
  <2>1. PICK map \in Maps :
          LET s == CountFrame(farm)
              check == [ret |-> BypassCheck(s), s |-> s]
              f == [map |-> map, kind |-> "unseg", packets |-> << Express >>, piece |-> 1,
                    off |-> 0, len |-> 1, total |-> 1]
          IN  DataFrame(f, check, 0)
    BY <1>4 DEF BypassFrame
  <2> DEFINE s == CountFrame(farm)
             check == [ret |-> BypassCheck(s), s |-> s]
             f == [map |-> map, kind |-> "unseg", packets |-> << Express >>, piece |-> 1,
                   off |-> 0, len |-> 1, total |-> 1]
  <2>2. check.s \in FarmState /\ check.s.vr = farm.vr
    BY FarmEdits DEF FarmInv
  <2>3. f.kind = "unseg" /\ f.packets = << Express >>
    OBVIOUS
  <2>4. DataFrame(f, check, 0)
    BY <2>1
  <2> HIDE DEF check, f
  <2>5. CASE UNCHANGED << plan, farm, taken, reassembly, delivered, failed >>
    BY <2>5 DEF FarmInv, Quiet
  <2>6. CASE /\ farm' = check.s /\ check.ret # "OK"
             /\ UNCHANGED << plan, taken, reassembly, delivered, failed >>
    BY <2>2, <2>6 DEF FarmInv, Quiet
  <2>7. CASE /\ farm' = check.s /\ taken' = taken + 0 /\ UNCHANGED plan
             /\ \E c, carrier : WalkParts(f, c, carrier)
    <3>1. taken' = taken
      BY <2>7 DEF FarmInv
    <3>2. Quiet
      BY <2>3, <2>7, <3>1, ExpressIsQuiet
    <3> QED
      BY <2>2, <2>7, <3>1, <3>2 DEF FarmInv
  <2> QED
    BY <2>4, <2>5, <2>6, <2>7, DataFrameEffect
<1>5. CASE SetClearMap
  BY <1>5 DEF SetClearMap, FarmInv, Quiet
<1>6. CASE UNCHANGED vars
  BY <1>6 DEF vars, FarmInv, Quiet
<1> QED
  BY <1>1, <1>2, <1>3, <1>4, <1>5, <1>6 DEF Next

-------------------------------------------------------------------------------
(* The reassembly buffer *)

\* The plan is what PlanAssumption says.
LEMMA PlanIs ==
    ASSUME PlanInv
    PROVE  plan \in Seq(Frames) /\ Segmented(plan) /\ Numbered(plan)
BY PlanAssumption DEF PlanInv

\* The pieces of a packet, one more at a time.
Pieces(p, n) == [i \in 1..n |-> << p, i >>]

\* What Append makes of them.
LEMMA PiecesGrow ==
    ASSUME NEW p \in Nat, NEW n \in Nat
    PROVE  /\ Pieces(p, n) \in Seq(Nat \X Nat) /\ Len(Pieces(p, n)) = n
           /\ Append(Pieces(p, n), << p, n + 1 >>) = Pieces(p, n + 1)
           /\ << << p, 1 >> >> = Pieces(p, 1)
<1>1. Pieces(p, n) \in Seq(Nat \X Nat) /\ Len(Pieces(p, n)) = n
  BY DEF Pieces
<1>2. /\ Pieces(p, n + 1) \in Seq(Nat \X Nat) /\ Len(Pieces(p, n + 1)) = n + 1
      /\ \A i \in 1..(n + 1) : Pieces(p, n + 1)[i] = << p, i >>
  BY DEF Pieces
<1>3. LET s == Append(Pieces(p, n), << p, n + 1 >>)
      IN  /\ s \in Seq(Nat \X Nat) /\ Len(s) = n + 1
          /\ \A i \in 1..(n + 1) : s[i] = << p, i >>
  BY <1>1 DEF Pieces
<1>4. Append(Pieces(p, n), << p, n + 1 >>) = Pieces(p, n + 1)
  <2> DEFINE s == Append(Pieces(p, n), << p, n + 1 >>)
             t == Pieces(p, n + 1)
  <2>1. /\ s \in Seq(Nat \X Nat) /\ t \in Seq(Nat \X Nat) /\ Len(s) = Len(t)
        /\ \A i \in 1..Len(s) : s[i] = t[i]
    BY <1>2, <1>3
  <2> HIDE DEF s, t
  <2>2. s = t
    BY <2>1, SeqEqual
  <2> QED
    BY <2>2 DEF s, t
<1>5. << << p, 1 >> >> = Pieces(p, 1)
  BY DEF Pieces
<1> QED
  BY <1>1, <1>4, <1>5

\* A frame of the plan that carries a segment, and the packet it is of.
LEMMA SegmentIs ==
    ASSUME PlanInv, NEW k \in DOMAIN plan, plan[k].kind \in Segments
    PROVE  /\ plan[k] \in Frames /\ Len(plan[k].packets) = 1
           /\ plan[k].packets[1] \in Nat \ {Express}
           /\ plan[k].piece \in Nat \ {0}
           /\ plan[k].off + plan[k].len <= plan[k].total
           /\ plan[k].kind = "first" => /\ plan[k].piece = 1 /\ plan[k].off = 0
                                        /\ plan[k].len < plan[k].total
<1>1. plan \in Seq(Frames) /\ Segmented(plan)
  BY PlanIs
<1>2. plan[k] \in Frames
  BY <1>1
<1>3. Len(plan[k].packets) = 1
  BY <1>1 DEF Segmented
<1>4. plan[k].packets \in Seq(Nat \ {Express})
  BY <1>2 DEF Frames
<1>5. plan[k].packets[1] \in Nat \ {Express}
  BY <1>3, <1>4
<1>6. CASE plan[k].kind = "first"
  <2>1. /\ plan[k].piece = 1 /\ plan[k].off = 0
        /\ plan[k].off + plan[k].len < plan[k].total
    BY <1>1, <1>6 DEF Segmented
  <2> QED
    BY <1>2, <1>3, <1>5, <2>1 DEF Frames
<1>7. CASE plan[k].kind \in {"cont", "last"}
  <2>1. PICK j \in 1..(k - 1) : SegmentAfter(plan, j, k)
    BY <1>1, <1>7 DEF Segmented
  <2>2. j \in DOMAIN plan /\ plan[j] \in Frames
    BY <1>1
  <2>3. plan[k].piece = plan[j].piece + 1
    BY <2>1 DEF SegmentAfter
  <2>4. plan[k].off \in Nat /\ plan[k].len \in Nat /\ plan[k].total \in Nat
    BY <1>2 DEF Frames
  <2>5. /\ plan[k].kind = "cont" => plan[k].off + plan[k].len < plan[k].total
        /\ plan[k].kind = "last" => plan[k].off + plan[k].len = plan[k].total
    BY <1>1 DEF Segmented
  <2>6. plan[k].off + plan[k].len <= plan[k].total
    BY <1>7, <2>4, <2>5
  <2> QED
    <3>1. plan[j].piece \in Nat /\ plan[k].piece \in Nat
      BY <1>2, <2>2 DEF Frames
    <3>2. plan[k].piece # 0
      BY <2>3, <3>1
    <3> QED
      BY <1>2, <1>3, <1>5, <1>7, <2>2, <2>3, <2>6, <3>1, <3>2
<1> QED
  BY <1>6, <1>7 DEF Segments

\* The segment that continues an open packet is the next of that packet.
LEMMA OpenIsBefore ==
    ASSUME PlanInv, taken \in Nat, taken + 1 \in DOMAIN plan,
           plan[taken + 1].kind \in {"cont", "last"},
           NEW j, Open(j), plan[j].map = plan[taken + 1].map
    PROVE  SegmentAfter(plan, j, taken + 1)
<1> DEFINE k == taken + 1
<1>1. PICK i \in 1..(k - 1) : SegmentAfter(plan, i, k)
  BY PlanIs DEF Segmented
<1>2. /\ j \in 1..taken /\ plan[j].kind \in Segments
      /\ \A h \in (j + 1)..taken : plan[h].kind \in Segments => plan[h].map # plan[j].map
  BY DEF Open, Segments
<1>3. /\ plan[i].map = plan[k].map /\ plan[i].kind \in Segments
      /\ \A h \in (i + 1)..(k - 1) : plan[h].kind \in Segments => plan[h].map # plan[i].map
  BY <1>1 DEF SegmentAfter, Segments
<1>4. ~(i < j)
  <2> SUFFICES ASSUME i < j PROVE FALSE
    OBVIOUS
  <2>1. j \in (i + 1)..(k - 1)
    BY <1>1, <1>2
  <2> QED
    BY <1>2, <1>3, <2>1
<1>5. ~(j < i)
  <2> SUFFICES ASSUME j < i PROVE FALSE
    OBVIOUS
  <2>1. i \in (j + 1)..taken
    BY <1>1, <1>2
  <2> QED
    BY <1>2, <1>3, <2>1
<1>6. i = j
  BY <1>1, <1>2, <1>4, <1>5
<1> QED
  BY <1>1, <1>6

\* The first segment of a packet is kept if it holds the header, the packet fits and
\* the buffer is not in use; without the header it is refused before the buffer is
\* looked at.
LEMMA FirstPart ==
    ASSUME PlanInv, NEW k \in DOMAIN plan, plan[k].kind = "first", NEW r
    PROVE  LET part == SegmentPart(r, plan[k])
           IN  /\ part.packet = << >>
               /\ plan[k].len < HdrLen => part.r = r
               /\ plan[k].len >= HdrLen =>
                     /\ r.active => part.r = Idle
                     /\ ~r.active /\ plan[k].total > MaxPacketLen => part.r = r
                     /\ ~r.active /\ plan[k].total <= MaxPacketLen =>
                           HoldsUpTo(part.r, k) /\ part.r.expected <= MaxPacketLen
<1> DEFINE f == plan[k]
           part == SegmentPart(r, f)
<1>1. /\ f \in Frames /\ f.piece = 1 /\ f.off = 0 /\ f.packets[1] \in Nat
      /\ f.len \in Nat /\ f.total \in Nat /\ f.len < f.total
  BY SegmentIs DEF Segments, Frames
<1>6. CASE f.len < HdrLen
  <2>1. part = [ret |-> "EINVAL", r |-> r, packet |-> << >>]
    BY <1>6 DEF SegmentPart
  <2>2. ~(f.len >= HdrLen)
    BY <1>1, <1>6, ProfileAssumption
  <2> QED
    BY <1>6, <2>1, <2>2
<1> SUFFICES ASSUME ~(f.len < HdrLen)
             PROVE  /\ part.packet = << >>
                    /\ r.active => part.r = Idle
                    /\ ~r.active /\ f.total > MaxPacketLen => part.r = r
                    /\ ~r.active /\ f.total <= MaxPacketLen =>
                          HoldsUpTo(part.r, k) /\ part.r.expected <= MaxPacketLen
  BY <1>6
<1>2. ~(f.len < HdrLen \/ f.total <= f.len)
  BY <1>1
<1>3. CASE r.active
  <2>1. part = [ret |-> "EBUSY", r |-> Idle, packet |-> << >>]
    BY <1>2, <1>3 DEF SegmentPart
  <2> QED
    BY <1>3, <2>1
<1>4. CASE ~r.active /\ f.total > MaxPacketLen
  <2>1. part = [ret |-> "EMSGSIZE", r |-> r, packet |-> << >>]
    BY <1>2, <1>4 DEF SegmentPart
  <2>2. ~(f.total <= MaxPacketLen)
    BY <1>1, <1>4, ProfileAssumption
  <2> QED
    BY <1>4, <2>1, <2>2
<1>5. CASE ~r.active /\ f.total <= MaxPacketLen
  <2> DEFINE new == [active |-> TRUE, map |-> f.map, len |-> 0, expected |-> f.total,
                     parts |-> << >>]
  <2>1. ~(f.total > MaxPacketLen)
    BY <1>1, <1>5, ProfileAssumption
  <2>2. part = AddPart(new, f)
    BY <1>2, <1>5, <2>1 DEF SegmentPart
  <2>3. /\ new.len + f.len = f.len /\ ~(f.len > MaxPacketLen) /\ ~(f.len > new.expected)
        /\ f.kind # "last"
    BY <1>1, <1>5, ProfileAssumption
  <2>4. part = [ret |-> "OK", packet |-> << >>,
                r |-> [new EXCEPT !.len = f.len,
                                  !.parts = Append(new.parts, << f.packets[1], f.piece >>)]]
    BY <2>2, <2>3 DEF AddPart
  <2>5. Append(new.parts, << f.packets[1], f.piece >>) = << << f.packets[1], 1 >> >>
    BY <1>1
  <2>6. << << f.packets[1], 1 >> >> = Pieces(f.packets[1], 1)
    BY <1>1, PiecesGrow, 1 \in Nat
  <2>7. /\ part.r.active = TRUE /\ part.r.map = f.map /\ part.r.len = f.len
        /\ part.r.expected = f.total /\ part.r.parts = Pieces(f.packets[1], 1)
        /\ part.packet = << >>
    <3> DEFINE parts == Append(new.parts, << f.packets[1], f.piece >>)
    <3>3. parts = Pieces(f.packets[1], 1)
      BY <2>5, <2>6
    <3>4. part = [ret |-> "OK", packet |-> << >>,
                  r |-> [new EXCEPT !.len = f.len, !.parts = parts]]
      BY <2>4
    <3> HIDE DEF part, parts
    <3>5. part.r = [new EXCEPT !.len = f.len, !.parts = parts] /\ part.packet = << >>
      BY <3>4
    <3>1. part.r = [active |-> TRUE, map |-> f.map, len |-> f.len, expected |-> f.total,
                    parts |-> Pieces(f.packets[1], 1)]
      BY <3>3, <3>5
    <3>2. part.packet = << >>
      BY <3>5
    <3> HIDE DEF part
    <3> QED
      BY <3>1, <3>2
  <2> HIDE DEF part
  <2>8. HoldsUpTo(part.r, k)
    BY <1>1, <2>7 DEF HoldsUpTo, Pieces
  <2> QED
    BY <1>5, <2>1, <2>7, <2>8 DEF part
<1> QED
  BY <1>1, <1>3, <1>4, <1>5, ProfileAssumption

\* A later segment that the buffer is not waiting for empties it.
LEMMA ForeignPartDrops ==
    ASSUME NEW f, f.kind \in {"cont", "last"}, NEW r, ~r.active \/ r.map # f.map
    PROVE  SegmentPart(r, f).r = Idle /\ SegmentPart(r, f).packet = << >>
BY DEF SegmentPart, ForeignPart

\* The segment that continues the packet in the buffer is added to it, and the last
\* one completes it.
LEMMA NextPart ==
    ASSUME PlanInv, taken \in Nat, taken + 1 \in DOMAIN plan,
           plan[taken + 1].kind \in {"cont", "last"},
           NEW r, NEW j, Open(j), HoldsUpTo(r, j), r.expected <= MaxPacketLen,
           plan[j].map = plan[taken + 1].map
    PROVE  LET part == SegmentPart(r, plan[taken + 1])
           IN  /\ plan[taken + 1].kind = "cont" =>
                     /\ HoldsUpTo(part.r, taken + 1) /\ part.r.expected <= MaxPacketLen
                     /\ part.packet = << >>
               /\ plan[taken + 1].kind = "last" =>
                     /\ part.r = Idle
                     /\ part.packet = Whole(plan[taken + 1].packets[1])
<1> DEFINE k == taken + 1
           f == plan[k]
           g == plan[j]
           part == SegmentPart(r, f)
           p == f.packets[1]
           len == r.len + f.len
           parts == Append(r.parts, << p, f.piece >>)
<1>1. j \in DOMAIN plan /\ k \in DOMAIN plan /\ j < k /\ g.kind \in Segments /\ f.kind \in Segments
  <2>1. plan \in Seq(Frames)
    BY PlanIs
  <2>2. j \in 1..taken /\ g.kind \in {"first", "cont"}
    BY DEF Open
  <2> QED
    BY <2>1, <2>2 DEF Segments
<1>2. /\ g \in Frames /\ f \in Frames /\ p \in Nat /\ f.piece \in Nat /\ g.piece \in Nat
      /\ f.off \in Nat /\ f.len \in Nat /\ f.total \in Nat /\ g.off \in Nat /\ g.len \in Nat
      /\ g.total \in Nat
  BY <1>1, SegmentIs DEF Frames
<1>3. /\ f.packets = g.packets /\ f.piece = g.piece + 1 /\ f.off = g.off + g.len
  BY OpenIsBefore DEF SegmentAfter
<1>4. f.total = g.total
  BY <1>1, <1>3, PlanIs DEF Segmented
<1>5. /\ r.active = TRUE /\ r.map = f.map /\ r.len = f.off /\ r.expected = f.total
      /\ r.parts = Pieces(p, g.piece)
  BY <1>3, <1>4 DEF HoldsUpTo, Pieces
<1>6. ~ForeignPart(r, f) /\ f.kind # "first"
  BY <1>5 DEF ForeignPart
<1>7. part = AddPart(r, f)
  BY <1>6 DEF SegmentPart
<1>8. parts = Pieces(p, f.piece)
  <2>1. Append(Pieces(p, g.piece), << p, g.piece + 1 >>) = Pieces(p, g.piece + 1)
    BY <1>2, PiecesGrow
  <2> QED
    BY <1>3, <1>5, <2>1
<1>9. /\ len = f.off + f.len /\ len <= f.total /\ f.total <= MaxPacketLen
      /\ f.kind = "last" => len = f.total
  <2>1. f.off + f.len <= f.total
    BY <1>1, SegmentIs
  <2>2. f.kind = "last" => f.off + f.len = f.total
    BY <1>1, PlanIs DEF Segmented
  <2> QED
    BY <1>2, <1>5, <2>1, <2>2
<1>10. ~(len > MaxPacketLen \/ len > r.expected \/ (f.kind = "last" /\ len # r.expected))
  BY <1>2, <1>5, <1>9, ProfileAssumption
<1>11. CASE f.kind = "cont"
  <2>1. part = [ret |-> "OK", r |-> [r EXCEPT !.len = len, !.parts = parts], packet |-> << >>]
    BY <1>7, <1>10, <1>11 DEF AddPart
  <2> HIDE DEF part, len, parts
  <2>2. part.r = [r EXCEPT !.len = len, !.parts = parts] /\ part.packet = << >>
    BY <2>1
  <2>3. /\ part.r.active = r.active /\ part.r.map = r.map /\ part.r.expected = r.expected
        /\ part.r.len = len /\ part.r.parts = parts
    BY <2>2
  <2>4. HoldsUpTo(part.r, k)
    BY <1>5, <1>8, <1>9, <2>3 DEF HoldsUpTo, Pieces
  <2> QED
    BY <1>11, <2>2, <2>3, <2>4 DEF part
<1>12. CASE f.kind = "last"
  <2>1. part = [ret |-> "OK", r |-> Idle, packet |-> parts]
    BY <1>7, <1>10, <1>12 DEF AddPart
  <2>2. f.piece = Cardinality(FramesIn(plan, p))
    BY <1>1, <1>12, PlanIs DEF Segmented
  <2>3. parts = Whole(p)
    BY <1>8, <2>2 DEF Whole, FramesOf, Pieces
  <2> HIDE DEF parts
  <2> QED
    BY <1>12, <2>1, <2>3
<1> QED
  BY <1>11, <1>12

-------------------------------------------------------------------------------
(* Handing over *)

\* The packets that a frame completes, whole.
LEMMA WholeIs ==
    ASSUME PlanInv, NEW k \in DOMAIN plan, Completes(k), NEW i \in DOMAIN plan[k].packets
    PROVE  LET p == plan[k].packets[i]
           IN  /\ p \in Nat \ {Express}
               /\ Whole(p) \in Seq(Nat \X Nat) /\ Whole(p)[1][1] = p /\ Whole(p) # << >>
               /\ plan[k].kind = "unseg" => Whole(p) = << << p, 1 >> >>
<1> DEFINE p == plan[k].packets[i]
           n == Cardinality(FramesIn(plan, p))
<1>1. plan \in Seq(Frames) /\ plan[k] \in Frames /\ Segmented(plan)
  BY PlanIs
<1>2. plan[k].packets \in Seq(Nat \ {Express})
  BY <1>1 DEF Frames
<1>3. p \in Nat \ {Express}
  BY <1>2
<1>4. n \in Nat \ {0}
  <2>1. CASE plan[k].kind = "unseg"
    <3>1. FramesIn(plan, p) = {k}
      BY <1>1, <2>1 DEF Segmented
    <3>2. Cardinality({k}) = 1
      BY FS_Singleton
    <3> QED
      BY <3>1, <3>2
  <2>2. CASE plan[k].kind = "last"
    <3>1. Len(plan[k].packets) = 1 /\ plan[k].piece \in Nat \ {0}
      BY <2>2, SegmentIs DEF Segments
    <3>2. i = 1
      BY <1>2, <3>1
    <3>3. plan[k].piece = Cardinality(FramesIn(plan, plan[k].packets[1]))
      BY <1>1, <2>2 DEF Segmented
    <3> QED
      BY <3>1, <3>2, <3>3
  <2> QED
    BY <2>1, <2>2 DEF Completes
<1>5. Whole(p) = Pieces(p, n)
  BY DEF Whole, Pieces, FramesOf
<1> HIDE DEF n
<1>6. Whole(p) \in Seq(Nat \X Nat) /\ Whole(p) # << >>
  <2>1. p \in Nat /\ n \in Nat
    BY <1>3, <1>4
  <2>2. Pieces(p, n) \in Seq(Nat \X Nat) /\ Len(Pieces(p, n)) = n
    BY <2>1, PiecesGrow
  <2> QED
    BY <1>4, <1>5, <2>2
<1>7. Whole(p)[1][1] = p
  BY <1>4, <1>5 DEF Pieces
<1>8. ASSUME plan[k].kind = "unseg" PROVE Whole(p) = << << p, 1 >> >>
  <2>1. FramesIn(plan, p) = {k}
    BY <1>1, <1>8 DEF Segmented
  <2>2. n = 1
    BY <2>1, FS_Singleton DEF n
  <2> QED
    BY <1>3, <1>5, <2>2, PiecesGrow, 1 \in Nat
<1> QED
  BY <1>3, <1>6, <1>7, <1>8

\* The packets that frame k completes have been handed over, up to the first that
\* failed.
GivenOver(k) ==
    \E m \in 0..Len(plan[k].packets) :
      /\ delivered' = delivered \o [i \in 1..m |-> Whole(plan[k].packets[i])]
      /\ failed \subseteq failed'
      /\ failed' \subseteq failed \cup {plan[k].packets[i] : i \in DOMAIN plan[k].packets}
      /\ \A i \in DOMAIN plan[k].packets :
           i > m => \E h \in DOMAIN plan[k].packets : h < i /\ plan[k].packets[h] \in failed'

\* Handing over the packets of frame k of the plan.
LEMMA HandOverIs ==
    ASSUME PlanInv, NEW k \in DOMAIN plan, Completes(k),
           NEW c, NEW carrier, NEW whole, NEW packets \in Seq(Seq(Nat \X Nat)),
           Len(packets) = Len(plan[k].packets),
           \A i \in 1..Len(packets) : packets[i] = Whole(plan[k].packets[i]),
           HandOver(c, carrier, packets, whole)
    PROVE  GivenOver(k)
<1> DEFINE ps == plan[k].packets
<1>1. ps \in Seq(Nat \ {Express}) /\ DOMAIN ps = 1..Len(packets) /\ Len(packets) \in Nat
  <2>1. plan[k] \in Frames
    BY PlanIs
  <2> QED
    BY <2>1 DEF Frames
<1>2. ASSUME NEW i \in 1..Len(packets)
      PROVE  ps[i] # Express /\ packets[i][1][1] = ps[i]
  <2>1. i \in DOMAIN plan[k].packets
    BY <1>1
  <2>2. ps[i] # Express /\ Whole(ps[i])[1][1] = ps[i]
    BY <2>1, WholeIs
  <2> QED
    BY <2>2
<1>3. PICK n \in 0..Len(packets) :
        LET called == SubSeq(packets, 1, IF n < Len(packets) THEN n + 1 ELSE n)
            bad == {packets[i][1][1] : i \in {n + 1} \cap DOMAIN packets}
            express == \E i \in DOMAIN called : called[i][1][1] = Express
        IN  /\ delivered' = IF express THEN delivered ELSE delivered \o called
            /\ failed' = failed \cup (bad \ {Express})
  BY DEF HandOver
<1> DEFINE m == IF n < Len(packets) THEN n + 1 ELSE n
           called == SubSeq(packets, 1, m)
           bad == {packets[i][1][1] : i \in {n + 1} \cap DOMAIN packets}
<1>4. m \in 0..Len(packets) /\ (m < Len(packets) => m = n + 1)
  BY <1>1
<1>5. called = [i \in 1..m |-> Whole(ps[i])]
  <2>1. called = [i \in 1..m |-> packets[i]]
    BY <1>4
  <2>2. \A i \in 1..m : packets[i] = Whole(ps[i])
    <3> SUFFICES ASSUME NEW i \in 1..m PROVE packets[i] = Whole(ps[i])
      OBVIOUS
    <3>1. i \in 1..Len(packets)
      BY <1>1, <1>4
    <3> HIDE DEF m
    <3> QED
      BY <3>1
  <2> HIDE DEF m
  <2> QED
    BY <2>1, <2>2
<1>6. ~ \E i \in DOMAIN called : called[i][1][1] = Express
  <2> SUFFICES ASSUME NEW i \in DOMAIN called PROVE called[i][1][1] # Express
    OBVIOUS
  <2>1. i \in 1..m /\ called[i] = Whole(ps[i])
    BY <1>5
  <2>2. i \in 1..Len(packets)
    BY <1>1, <1>4, <2>1
  <2> HIDE DEF called, m
  <2>3. packets[i] = Whole(ps[i])
    BY <2>2
  <2> QED
    BY <1>2, <2>1, <2>2, <2>3
<1>7. delivered' = delivered \o called /\ failed' = failed \cup (bad \ {Express})
  BY <1>3, <1>6
<1>8. bad = {ps[i] : i \in {n + 1} \cap DOMAIN ps}
  <2>1. DOMAIN packets = DOMAIN ps
    BY <1>1
  <2>2. \A i \in DOMAIN ps : packets[i][1][1] = ps[i]
    BY <1>1, <1>2
  <2> QED
    BY <2>1, <2>2
<1>9. ASSUME NEW i \in DOMAIN ps, i > m
      PROVE  \E h \in DOMAIN ps : h < i /\ ps[h] \in failed'
  <2>1. n + 1 \in DOMAIN ps /\ n + 1 < i
    BY <1>1, <1>4, <1>9
  <2>2. ps[n + 1] \in failed'
    BY <1>1, <1>2, <1>7, <1>8, <2>1
  <2> QED
    BY <2>1, <2>2
<1>10. failed \subseteq failed' /\ failed' \subseteq failed \cup {ps[i] : i \in DOMAIN ps}
  BY <1>7, <1>8
<1> HIDE DEF m, called
<1> QED
  BY <1>4, <1>5, <1>7, <1>9, <1>10 DEF GivenOver

\* Handing over nothing changes nothing.
LEMMA HandOverNothing ==
    ASSUME delivered \in Seq(Seq(Nat \X Nat)), NEW c, NEW carrier, NEW whole,
           HandOver(c, carrier, << >>, whole)
    PROVE  UNCHANGED << delivered, failed >>
<1>1. PICK n \in 0..0 :
        LET called == SubSeq(<< >>, 1, IF n < 0 THEN n + 1 ELSE n)
            bad == {<< >>[i][1][1] : i \in {n + 1} \cap DOMAIN << >>}
            express == \E i \in DOMAIN called : called[i][1][1] = Express
        IN  /\ delivered' = IF express THEN delivered ELSE delivered \o called
            /\ failed' = failed \cup (bad \ {Express})
  BY DEF HandOver
<1>2. (IF n < 0 THEN n + 1 ELSE n) = 0
  OBVIOUS
<1>3. SubSeq(<< >>, 1, 0) = << >> /\ delivered \o << >> = delivered
  OBVIOUS
<1>4. failed' = failed
  BY <1>1
<1>5. delivered' = delivered
  BY <1>1, <1>2, <1>3
<1> QED
  BY <1>4, <1>5

\* A function on 1..n is a sequence of length n.
LEMMA FunctionIsSeq ==
    ASSUME NEW S, NEW n \in Nat, NEW s \in [1..n -> S]
    PROVE  s \in Seq(S) /\ Len(s) = n
OBVIOUS

\* The walk of the next frame of the plan.
WalkEffect(k) ==
    LET part == SegmentPart(reassembly, plan[k])
    IN  \/ /\ \/ plan[k].kind \in {"short", "empty"}
              \/ plan[k].kind = "unseg" /\ reassembly.active
           /\ UNCHANGED << reassembly, delivered, failed >>
        \/ /\ plan[k].kind = "unseg" /\ ~reassembly.active
           /\ UNCHANGED reassembly /\ GivenOver(k)
        \/ /\ plan[k].kind \in Segments /\ reassembly' = part.r
           /\ part.packet = << >> /\ UNCHANGED << delivered, failed >>
        \/ /\ plan[k].kind = "last" /\ reassembly' = part.r
           /\ part.packet = Whole(plan[k].packets[1]) /\ GivenOver(k)

\* What the buffer makes of the next segment of the plan.
LEMMA SegmentOutcome ==
    ASSUME PlanInv, taken \in Nat, taken + 1 \in DOMAIN plan, ReassemblyInv,
           plan[taken + 1].kind \in Segments
    PROVE  LET part == SegmentPart(reassembly, plan[taken + 1])
           IN  /\ \/ part.packet = << >>
                  \/ /\ plan[taken + 1].kind = "last"
                     /\ part.packet = Whole(plan[taken + 1].packets[1])
               /\ \/ part.r = Idle
                  \/ plan[taken + 1].kind = "first" /\ part.r = reassembly
                  \/ /\ plan[taken + 1].kind \in {"first", "cont"}
                     /\ HoldsUpTo(part.r, taken + 1) /\ part.r.expected <= MaxPacketLen
<1> DEFINE k == taken + 1
           part == SegmentPart(reassembly, plan[k])
<1>1. CASE plan[k].kind = "first"
  <2>1. /\ part.packet = << >>
        /\ plan[k].len < HdrLen => part.r = reassembly
        /\ plan[k].len >= HdrLen =>
              /\ reassembly.active => part.r = Idle
              /\ ~reassembly.active /\ plan[k].total > MaxPacketLen => part.r = reassembly
              /\ ~reassembly.active /\ plan[k].total <= MaxPacketLen =>
                    HoldsUpTo(part.r, k) /\ part.r.expected <= MaxPacketLen
    BY <1>1, FirstPart
  <2>3. /\ plan[k].total > MaxPacketLen \/ plan[k].total <= MaxPacketLen
        /\ plan[k].len < HdrLen \/ plan[k].len >= HdrLen
    BY SegmentIs, ProfileAssumption DEF Frames
  <2> HIDE DEF part
  <2> QED
    BY <1>1, <2>1, <2>3 DEF part
<1>2. CASE plan[k].kind \in {"cont", "last"}
  <2>1. CASE ~reassembly.active \/ reassembly.map # plan[k].map
    BY <1>2, <2>1, ForeignPartDrops
  <2>2. CASE reassembly.active /\ reassembly.map = plan[k].map
    <3>1. reassembly # Idle
      BY <2>2 DEF Idle
    <3>2. PICK j \in 1..taken :
            Open(j) /\ HoldsUpTo(reassembly, j) /\ reassembly.expected <= MaxPacketLen
      BY <3>1 DEF ReassemblyInv
    <3>3. plan[j].map = plan[k].map
      BY <2>2, <3>2 DEF HoldsUpTo
    <3> QED
      BY <1>2, <3>2, <3>3, NextPart
  <2> QED
    BY <2>1, <2>2
<1> QED
  BY <1>1, <1>2 DEF Segments

\* WalkParts hands over what the next frame of the plan completes.
LEMMA WalkIs ==
    ASSUME PlanInv, taken \in Nat, ReassemblyInv, delivered \in Seq(Seq(Nat \X Nat)), Accepts
    PROVE  WalkEffect(taken + 1)
<1> DEFINE k == taken + 1
           f == plan[k]
<1>1. PICK c, carrier : WalkParts(f, c, carrier)
  BY DEF Accepts
<1>2. k \in DOMAIN plan
  BY DEF Accepts
<1>3. CASE f.kind \in {"short", "empty"} /\ NoHandOver /\ UNCHANGED reassembly
  BY <1>3 DEF NoHandOver, WalkEffect
<1>4. CASE /\ f.kind = "unseg" /\ reassembly.active /\ NoHandOver
           /\ reassembly' = UnsegmentedReassembly(reassembly)
  BY <1>4 DEF NoHandOver, UnsegmentedReassembly, WalkEffect
<1>5. CASE /\ f.kind = "unseg" /\ ~reassembly.active /\ UNCHANGED reassembly
           /\ HandOver(c, carrier, [i \in 1..Len(f.packets) |-> << << f.packets[i], 1 >> >>],
                       f.len = f.total)
  <2> DEFINE packets == [i \in 1..Len(f.packets) |-> << << f.packets[i], 1 >> >>]
  <2>1. f.packets \in Seq(Nat \ {Express}) /\ DOMAIN f.packets = 1..Len(f.packets)
    <3>1. f \in Frames
      BY <1>2, PlanIs
    <3> QED
      BY <3>1 DEF Frames
  <2>2. Completes(k)
    BY <1>5 DEF Completes
  <2>3. ASSUME NEW i \in 1..Len(f.packets)
        PROVE  /\ Whole(f.packets[i]) \in Seq(Nat \X Nat)
               /\ << << f.packets[i], 1 >> >> = Whole(f.packets[i])
    BY <1>2, <1>5, <2>1, <2>2, WholeIs
  <2>4. /\ packets \in Seq(Seq(Nat \X Nat)) /\ Len(packets) = Len(f.packets)
        /\ \A i \in 1..Len(packets) : packets[i] = Whole(f.packets[i])
    <3>1. \A i \in 1..Len(f.packets) : /\ packets[i] \in Seq(Nat \X Nat)
                                       /\ packets[i] = Whole(f.packets[i])
      BY <2>3
    <3>2. Len(f.packets) \in Nat
      BY <2>1
    <3>3. packets \in [1..Len(f.packets) -> Seq(Nat \X Nat)]
      BY <3>1
    <3> HIDE DEF packets
    <3>4. packets \in Seq(Seq(Nat \X Nat)) /\ Len(packets) = Len(f.packets)
      <4> DEFINE S == Seq(Nat \X Nat)
      <4> HIDE DEF S
      <4>1. packets \in [1..Len(f.packets) -> S]
        BY <3>3 DEF S
      <4>2. packets \in Seq(S) /\ Len(packets) = Len(f.packets)
        BY <3>2, <4>1, FunctionIsSeq, ZenonT(40)
      <4> QED
        BY <4>2 DEF S
    <3> QED
      BY <3>1, <3>4
  <2> HIDE DEF packets
  <2>5. HandOver(c, carrier, packets, f.len = f.total)
    BY <1>5 DEF packets
  <2>6. GivenOver(k)
    BY <1>2, <2>2, <2>4, <2>5, HandOverIs
  <2> QED
    BY <1>5, <2>6 DEF WalkEffect
<1>6. CASE /\ f.kind \in Segments
           /\ LET part == SegmentPart(reassembly, f)
              IN  /\ reassembly' = part.r
                  /\ HandOver(c, carrier, IF part.packet = << >> THEN << >> ELSE << part.packet >>,
                              part.ret = "OK")
  <2> DEFINE part == SegmentPart(reassembly, f)
             p == f.packets[1]
  <2>1. \/ part.packet = << >>
        \/ f.kind = "last" /\ part.packet = Whole(p)
    BY <1>2, <1>6, SegmentOutcome
  <2>2. CASE part.packet = << >>
    <3>1. HandOver(c, carrier, << >>, part.ret = "OK")
      BY <1>6, <2>2
    <3>2. UNCHANGED << delivered, failed >>
      BY <3>1, HandOverNothing
    <3> QED
      BY <1>6, <2>2, <3>2 DEF WalkEffect
  <2>3. CASE part.packet # << >> /\ f.kind = "last" /\ part.packet = Whole(p)
    <3>1. HandOver(c, carrier, << Whole(p) >>, part.ret = "OK")
      BY <1>6, <2>3
    <3>2. Completes(k) /\ Len(f.packets) = 1 /\ DOMAIN f.packets = 1..1
      <4>1. Len(f.packets) = 1 /\ f \in Frames
        BY <1>2, <1>6, SegmentIs
      <4> QED
        BY <2>3, <4>1 DEF Completes, Frames
    <3>3. Whole(p) \in Seq(Nat \X Nat)
      BY <1>2, <3>2, WholeIs
    <3>4. /\ << Whole(p) >> \in Seq(Seq(Nat \X Nat)) /\ Len(<< Whole(p) >>) = Len(f.packets)
          /\ \A i \in 1..Len(<< Whole(p) >>) : << Whole(p) >>[i] = Whole(f.packets[i])
      BY <3>2, <3>3
    <3>5. GivenOver(k)
      BY <1>2, <3>1, <3>2, <3>4, HandOverIs
    <3> QED
      BY <1>6, <2>3, <3>5 DEF WalkEffect
  <2> QED
    BY <2>1, <2>2, <2>3
<1> QED
  BY <1>1, <1>3, <1>4, <1>5, <1>6 DEF WalkParts

-------------------------------------------------------------------------------
(* The step that accepts a frame keeps the invariant *)

\* While a packet is open on a MAP, no other starts there.
LEMMA FirstElsewhere ==
    ASSUME PlanInv, taken \in Nat, NEW k \in DOMAIN plan, k = taken + 1,
           plan[k].kind = "first", NEW j, Open(j)
    PROVE  plan[k].map # plan[j].map
<1>1. plan \in Seq(Frames) /\ Len(plan) \in Nat /\ DOMAIN plan = 1..Len(plan)
  BY PlanIs
<1>2. /\ j \in DOMAIN plan /\ j \in 1..taken /\ plan[j].kind \in {"first", "cont"}
      /\ \A i \in (j + 1)..taken : plan[i].kind \in Segments => plan[i].map # plan[j].map
  BY <1>1 DEF Open
<1>3. PICK i \in (j + 1)..Len(plan) : SegmentAfter(plan, j, i)
  BY <1>2, PlanIs DEF Segmented
<1>4. /\ plan[i].kind \in {"cont", "last"} /\ plan[i].map = plan[j].map
      /\ \A h \in (j + 1)..(i - 1) : plan[h].kind \in Segments => plan[h].map # plan[j].map
  BY <1>3 DEF SegmentAfter
<1>5. i \notin (j + 1)..taken /\ i # k
  BY <1>2, <1>4 DEF Segments
<1>6. k \in (j + 1)..(i - 1)
  BY <1>1, <1>2, <1>3, <1>5
<1> QED
  BY <1>4, <1>6 DEF Segments

\* The buffer holds an open packet, or nothing.
LEMMA ReassemblyKept ==
    ASSUME PlanInv, taken \in Nat, ReassemblyInv, Accepts, WalkEffect(taken + 1)
    PROVE  ReassemblyInv'
<1>0. PICK k \in Nat : k = taken + 1
  OBVIOUS
<1> DEFINE part == SegmentPart(reassembly, plan[k])
<1>1. k \in DOMAIN plan /\ taken' = k /\ plan' = plan
  BY <1>0 DEF Accepts
<1>2. CASE /\ plan[k].kind \notin Segments \/ plan[k].kind = "first"
           /\ reassembly' = reassembly
  <2>1. CASE reassembly = Idle
    BY <1>2, <2>1 DEF ReassemblyInv
  <2>2. CASE reassembly # Idle
    <3>1. PICK j \in 1..taken :
            Open(j) /\ HoldsUpTo(reassembly, j) /\ reassembly.expected <= MaxPacketLen
      BY <2>2 DEF ReassemblyInv
    <3>2. /\ j \in 1..k /\ plan[j].kind \in {"first", "cont"}
          /\ \A i \in (j + 1)..k : plan[i].kind \in Segments => plan[i].map # plan[j].map
      <4>1. plan[k].kind \in Segments => plan[k].map # plan[j].map
        BY <1>0, <1>1, <1>2, <3>1, FirstElsewhere
      <4> QED
        BY <1>0, <3>1, <4>1 DEF Open
    <3>3. Open(j)'
      BY <1>1, <3>2 DEF Open
    <3>4. HoldsUpTo(reassembly, j)'
      BY <1>1, <1>2, <3>1 DEF HoldsUpTo
    <3> QED
      BY <1>1, <1>2, <3>1, <3>2, <3>3, <3>4 DEF ReassemblyInv
  <2> QED
    BY <2>1, <2>2
<1>3. CASE plan[k].kind \in Segments /\ reassembly' = part.r
  <2>1. \/ part.r = Idle
        \/ plan[k].kind = "first" /\ part.r = reassembly
        \/ /\ plan[k].kind \in {"first", "cont"}
           /\ HoldsUpTo(part.r, k) /\ part.r.expected <= MaxPacketLen
    BY <1>0, <1>1, <1>3, SegmentOutcome
  <2> HIDE DEF part
  <2>2. CASE part.r = Idle
    BY <1>3, <2>2 DEF ReassemblyInv
  <2>3. CASE /\ plan[k].kind \in {"first", "cont"}
             /\ HoldsUpTo(part.r, k) /\ part.r.expected <= MaxPacketLen
    <3>1. k \in 1..k /\ \A i \in (k + 1)..k : FALSE
      BY <1>0
    <3>2. Open(k)'
      BY <1>1, <2>3, <3>1 DEF Open
    <3>3. HoldsUpTo(reassembly, k)'
      BY <1>1, <1>3, <2>3 DEF HoldsUpTo
    <3> QED
      BY <1>1, <1>3, <2>3, <3>1, <3>2, <3>3 DEF ReassemblyInv
  <2> QED
    BY <1>2, <1>3, <2>1, <2>2, <2>3
<1> QED
  BY <1>0, <1>2, <1>3 DEF WalkEffect, Segments

\* Packets are handed over whole and in the order of their numbers.
LEMMA OrderKept ==
    ASSUME PlanInv, taken \in Nat, OrderInv, Accepts, WalkEffect(taken + 1)
    PROVE  OrderInv'
<1>0. PICK k \in Nat : k = taken + 1
  OBVIOUS
<1> DEFINE ps == plan[k].packets
           D == Seq(Nat \X Nat)
<1>1. k \in DOMAIN plan /\ taken' = k /\ plan' = plan
  BY <1>0 DEF Accepts
<1>2. ASSUME NEW d, NEW j \in 1..k, Completes(j), NEW i \in DOMAIN plan[j].packets,
             d = Whole(plan[j].packets[i])
      PROVE  HandedBy(d, k)'
  BY <1>1, <1>2 DEF HandedBy, Completes, Whole, FramesOf
<1>3. ASSUME NEW d, HandedBy(d, taken) PROVE HandedBy(d, k)'
  <2>1. PICK j \in 1..taken : /\ Completes(j)
                             /\ \E i \in DOMAIN plan[j].packets : d = Whole(plan[j].packets[i])
    BY <1>3 DEF HandedBy
  <2>2. j \in 1..k
    BY <1>0
  <2> QED
    BY <1>2, <2>1, <2>2
<1>4. CASE UNCHANGED delivered
  <2>1. ASSUME NEW i \in DOMAIN delivered' PROVE HandedBy(delivered[i], taken)'
    <3>1. PICK d : d = delivered[i]
      OBVIOUS
    <3>2. HandedBy(d, k)'
      BY <1>3, <1>4, <3>1 DEF OrderInv
    <3>3. d = delivered'[i] /\ k = taken'
      BY <1>1, <1>4, <3>1
    <3> QED
      BY <3>2, <3>3
  <2>2. (\A i \in DOMAIN delivered : HandedBy(delivered[i], taken))'
    BY <2>1
  <2> QED
    BY <1>4, <2>2 DEF OrderInv
<1>5. CASE Completes(k) /\ GivenOver(k)
  <2>1. PICK m \in 0..Len(ps) :
          delivered' = delivered \o [i \in 1..m |-> Whole(ps[i])]
    BY <1>5 DEF GivenOver
  <2> DEFINE new == [i \in 1..m |-> Whole(ps[i])]
             n == Len(delivered)
  <2>2. ps \in Seq(Nat \ {Express}) /\ Len(ps) \in Nat /\ DOMAIN ps = 1..Len(ps)
    <3>1. plan[k] \in Frames
      BY <1>1, PlanIs
    <3> QED
      BY <3>1 DEF Frames
  <2>3. ASSUME NEW i \in 1..m
        PROVE  /\ i \in DOMAIN ps /\ Whole(ps[i]) \in D /\ Whole(ps[i])[1][1] = ps[i]
               /\ ps[i] \in Nat
    <3>1. i \in DOMAIN ps
      BY <2>2
    <3> QED
      BY <1>1, <1>5, <3>1, WholeIs
  <2>4. new \in Seq(D) /\ Len(new) = m /\ m \in Nat
    <3>1. new \in [1..m -> D]
      BY <2>3
    <3>2. m \in Nat
      BY <2>2
    <3> HIDE DEF new, D
    <3> QED
      BY <3>1, <3>2, FunctionIsSeq
  <2>5. \A i \in 1..m : new[i] = Whole(ps[i])
    OBVIOUS
  <2>6. delivered \in Seq(D) /\ n \in Nat /\ DOMAIN delivered = 1..n
    BY DEF OrderInv
  <2> HIDE DEF new, D
  <2>7. /\ delivered' \in Seq(D) /\ DOMAIN delivered' = 1..(n + m)
        /\ \A i \in 1..n : delivered'[i] = delivered[i]
        /\ \A i \in (n + 1)..(n + m) : delivered'[i] = new[i - n]
    BY <2>1, <2>4, <2>6 DEF new
  <2>8. ASSUME NEW i \in (n + 1)..(n + m)
        PROVE  /\ i - n \in 1..m /\ i - n \in DOMAIN ps
               /\ delivered'[i] = Whole(ps[i - n]) /\ delivered'[i][1][1] = ps[i - n]
    <3>1. i - n \in 1..m
      BY <2>4, <2>6
    <3> QED
      BY <2>3, <2>5, <2>7, <3>1
  <2>9. ASSUME NEW i \in DOMAIN delivered' PROVE HandedBy(delivered[i], taken)'
    <3>0. PICK d : d = delivered'[i]
      OBVIOUS
    <3>4. HandedBy(d, k)' => HandedBy(delivered[i], taken)'
      BY <1>1, <3>0
    <3>1. CASE i \in 1..n
      BY <1>3, <2>6, <2>7, <3>0, <3>1, <3>4 DEF OrderInv
    <3>2. CASE i \in (n + 1)..(n + m)
      <4>1. k \in 1..k
        BY <1>0
      <4> QED
        BY <1>2, <1>5, <2>8, <3>0, <3>2, <3>4, <4>1
    <3> QED
      BY <2>4, <2>6, <2>7, <3>1, <3>2
  <2>10. ASSUME NEW i \in DOMAIN delivered', NEW j \in DOMAIN delivered', i < j
         PROVE  delivered'[i][1][1] < delivered'[j][1][1]
    <3>1. CASE j \in 1..n
      <4>1. i \in 1..n
        BY <2>4, <2>6, <2>7, <2>10, <3>1
      <4> QED
        BY <2>6, <2>7, <2>10, <3>1, <4>1 DEF OrderInv
    <3>2. CASE i \in 1..n /\ j \in (n + 1)..(n + m)
      <4>1. PICK h \in 1..taken :
               /\ Completes(h)
               /\ \E a \in DOMAIN plan[h].packets : delivered[i] = Whole(plan[h].packets[a])
        BY <2>6, <3>2 DEF OrderInv, HandedBy
      <4>2. PICK a \in DOMAIN plan[h].packets : delivered[i] = Whole(plan[h].packets[a])
        BY <4>1
      <4>3. h \in DOMAIN plan /\ h < k
        BY <1>0, <1>1, PlanIs
      <4>4. delivered'[i][1][1] = plan[h].packets[a]
        <5>1. Whole(plan[h].packets[a])[1][1] = plan[h].packets[a]
          BY <4>1, <4>2, <4>3, WholeIs
        <5> QED
          BY <2>7, <3>2, <4>2, <5>1
      <4>5. plan[h].packets[a] < ps[j - n]
        BY <1>1, <1>5, <2>8, <3>2, <4>1, <4>3, PlanIs DEF Numbered, Completes
      <4> QED
        BY <2>8, <3>2, <4>4, <4>5
    <3>3. CASE i \in (n + 1)..(n + m) /\ j \in (n + 1)..(n + m)
      <4>1. /\ i - n \in DOMAIN ps /\ j - n \in DOMAIN ps /\ i - n < j - n
            /\ delivered'[i][1][1] = ps[i - n] /\ delivered'[j][1][1] = ps[j - n]
        BY <2>6, <2>8, <2>10, <3>3
      <4>2. ps[i - n] < ps[j - n]
        BY <1>1, <1>5, <4>1, PlanIs DEF Numbered, Completes
      <4> QED
        BY <4>1, <4>2
    <3> QED
      BY <2>4, <2>6, <2>7, <2>10, <3>1, <3>2, <3>3
  <2> QED
    BY <2>7, <2>9, <2>10 DEF OrderInv, D
<1> QED
  BY <1>0, <1>4, <1>5 DEF WalkEffect, Completes

\* Only the handlers of packets of the plan are noted as failed.
LEMMA FailedKept ==
    ASSUME taken \in Nat, FailedInv, Accepts, WalkEffect(taken + 1)
    PROVE  FailedInv'
<1>0. PICK k \in Nat : k = taken + 1
  OBVIOUS
<1>1. k \in DOMAIN plan /\ plan' = plan
  BY <1>0 DEF Accepts
<1>2. failed' \subseteq failed \cup {plan[k].packets[i] : i \in DOMAIN plan[k].packets}
  BY <1>0 DEF WalkEffect, GivenOver
<1>3. {plan[k].packets[i] : i \in DOMAIN plan[k].packets} \subseteq Packets
  BY <1>1 DEF Packets
<1>4. Packets' = Packets
  BY <1>1 DEF Packets
<1> QED
  BY <1>2, <1>3, <1>4 DEF FailedInv

-------------------------------------------------------------------------------
(* Nothing that was acknowledged is lost *)

\* In a plan that does not interleave packets no frame of another packet comes
\* between the segments of an open one.
LEMMA NotInterrupted ==
    ASSUME PlanInv, Sequential, taken \in Nat, NEW k \in DOMAIN plan, k = taken + 1,
           NEW j, Open(j), plan[k].kind \notin {"cont", "last"} \/ plan[k].map # plan[j].map,
           NEW p, k \in FramesOf(p), p # plan[j].packets[1]
    PROVE  FALSE
<1> DEFINE q == plan[j].packets[1]
<1>1. plan \in Seq(Frames) /\ Len(plan) \in Nat /\ DOMAIN plan = 1..Len(plan)
  BY PlanIs
<1>2. /\ j \in DOMAIN plan /\ j < k /\ plan[j].kind \in {"first", "cont"}
      /\ \A i \in (j + 1)..taken : plan[i].kind \in Segments => plan[i].map # plan[j].map
  BY <1>1 DEF Open
<1>3. PICK i \in (j + 1)..Len(plan) : SegmentAfter(plan, j, i)
  BY <1>2, PlanIs DEF Segmented
<1>4. /\ plan[i].kind \in {"cont", "last"} /\ plan[i].map = plan[j].map
      /\ plan[i].packets = plan[j].packets
  BY <1>3 DEF SegmentAfter
<1>5. i \in DOMAIN plan /\ i > k
  <2>1. i \notin (j + 1)..taken
    BY <1>2, <1>4 DEF Segments
  <2>2. i # k
    BY <1>4
  <2> QED
    BY <1>1, <1>2, <1>3, <2>1, <2>2
<1>6. j \in FramesOf(q) /\ i \in FramesOf(q)
  <2>1. 1 \in DOMAIN plan[j].packets
    BY <1>2, SegmentIs DEF Segments, Frames
  <2> QED
    BY <1>2, <1>4, <1>5, <2>1 DEF FramesOf, FramesIn
<1>7. Cardinality(FramesOf(q)) > 1
  <2>1. FramesOf(q) \subseteq 1..Len(plan)
    BY <1>1 DEF FramesOf, FramesIn
  <2>2. IsFiniteSet(1..Len(plan))
    <3>1. 1 \in Int /\ Len(plan) \in Int
      BY <1>1
    <3> QED
      BY <3>1, FS_Interval, Zenon
  <2>3. IsFiniteSet(FramesOf(q))
    BY <2>1, <2>2, FS_Subset
  <2>4. Cardinality(FramesOf(q)) \in Nat
    BY <2>3, FS_CardinalityType
  <2>5. Cardinality(FramesOf(q)) # 0
    BY <1>6, <2>3, FS_EmptySet
  <2>6. Cardinality(FramesOf(q)) # 1
    <3> SUFFICES ASSUME Cardinality(FramesOf(q)) = 1 PROVE FALSE
      OBVIOUS
    <3>1. PICK x : FramesOf(q) = {x}
      BY <2>3, FS_Singleton
    <3> QED
      BY <1>2, <1>5, <1>6, <3>1
  <2> QED
    BY <2>4, <2>5, <2>6
<1>8. p \in Packets /\ q \in Packets
  BY <1>6 DEF Packets, FramesOf, FramesIn
<1>9. (\A h \in FramesOf(q) : k < h) \/ (\A h \in FramesOf(q) : h < k)
  BY <1>7, <1>8 DEF Sequential
<1> QED
  BY <1>1, <1>2, <1>5, <1>6, <1>9

\* Then the first frame of a packet finds the buffer free.
LEMMA FreeForNext ==
    ASSUME PlanInv, Sequential, taken \in Nat, ReassemblyInv,
           NEW k \in DOMAIN plan, k = taken + 1,
           plan[k].kind \in {"first", "unseg"}, plan[k].packets # << >>
    PROVE  ~reassembly.active
<1> SUFFICES ASSUME reassembly.active PROVE FALSE
  OBVIOUS
<1> DEFINE p == plan[k].packets[1]
<1>1. PICK j \in 1..taken : Open(j)
  BY DEF ReassemblyInv, Idle
<1>2. j \in DOMAIN plan /\ j < k /\ plan[j].kind \in {"first", "cont"}
  BY <1>1, PlanIs DEF Open
<1>3. plan[k].packets \in Seq(Nat \ {Express}) /\ 1 \in DOMAIN plan[k].packets
  <2>1. plan[k] \in Frames
    BY PlanIs
  <2> QED
    BY <2>1 DEF Frames
<1>4. k \in FramesOf(p)
  BY <1>3 DEF FramesOf, FramesIn
<1>5. p # plan[j].packets[1]
  <2> SUFFICES ASSUME p = plan[j].packets[1] PROVE FALSE
    OBVIOUS
  <2>1. /\ Len(plan[j].packets) = 1 /\ plan[j].packets \in Seq(Nat \ {Express})
        /\ plan[j].piece \in Nat \ {0}
    BY <1>2, SegmentIs DEF Segments, Frames
  <2>2. CASE plan[k].kind = "unseg"
    <3>1. FramesIn(plan, p) = {k}
      <4>1. \A i \in DOMAIN plan[k].packets : FramesIn(plan, plan[k].packets[i]) = {k}
        BY <2>2, PlanIs DEF Segmented
      <4> QED
        BY <1>3, <4>1
    <3>2. j \in FramesIn(plan, p)
      BY <1>2, <2>1 DEF FramesIn
    <3> QED
      BY <1>2, <3>1, <3>2
  <2>3. CASE plan[k].kind = "first"
    <3>1. plan[k].piece = 1 /\ Len(plan[k].packets) = 1
      BY <2>3, SegmentIs DEF Segments
    <3>2. plan[j].packets = plan[k].packets
      BY <1>3, <2>1, <3>1, SeqEqual
    <3>3. plan[j].piece < plan[k].piece
      BY <1>2, <2>3, <3>2, PlanIs DEF Segmented, Segments
    <3> QED
      BY <2>1, <3>1, <3>3
  <2> QED
    BY <2>2, <2>3
<1>6. plan[k].kind \notin {"cont", "last"}
  OBVIOUS
<1> QED
  BY <1>1, <1>4, <1>5, <1>6, NotInterrupted

\* A later segment finds the packet it continues in the buffer, if that fits.
LEMMA FoundByNext ==
    ASSUME PlanInv, BufferComplete, taken \in Nat, NEW k \in DOMAIN plan, k = taken + 1,
           plan[k].kind \in {"cont", "last"}, Fits(plan[k].packets[1])
    PROVE  \E j \in 1..taken : /\ Open(j) /\ HoldsUpTo(reassembly, j)
                               /\ reassembly.expected <= MaxPacketLen
                               /\ plan[j].map = plan[k].map
<1>1. PICK j \in 1..(k - 1) : SegmentAfter(plan, j, k)
  BY PlanIs DEF Segmented
<1>2. j \in 1..taken /\ j \in DOMAIN plan /\ j < k
  BY PlanIs
<1>3. /\ Open(j) /\ plan[j].map = plan[k].map /\ plan[j].packets = plan[k].packets
      /\ plan[j].kind \in {"first", "cont"}
  BY <1>1, <1>2 DEF SegmentAfter, Open
<1>4. plan[j].total = plan[k].total /\ plan[k].total <= MaxPacketLen
  <2>1. 1 \in DOMAIN plan[k].packets
    BY SegmentIs DEF Segments, Frames
  <2>2. plan[k].total <= MaxPacketLen
    BY <2>1 DEF Fits, FramesOf, FramesIn, Segments
  <2> QED
    BY <1>2, <1>3, <2>2, PlanIs DEF Segmented, Segments
<1>5. HoldsUpTo(reassembly, j)
  BY <1>2, <1>3, <1>4 DEF BufferComplete
<1>6. reassembly.expected <= MaxPacketLen
  BY <1>4, <1>5 DEF HoldsUpTo
<1> QED
  BY <1>2, <1>3, <1>5, <1>6

\* The step that accepts a frame of such a plan leaves in the buffer what belongs there.
LEMMA BufferKept ==
    ASSUME PlanInv, Sequential, taken \in Nat, ReassemblyInv, BufferComplete, Accepts,
           WalkEffect(taken + 1)
    PROVE  BufferComplete'
<1>0. PICK k \in Nat : k = taken + 1
  OBVIOUS
<1> DEFINE part == SegmentPart(reassembly, plan[k])
<1>1. k \in DOMAIN plan /\ taken' = k /\ plan' = plan
  BY <1>0 DEF Accepts
<1>2. /\ plan[k].kind \notin Segments => reassembly' = reassembly
      /\ plan[k].kind \in Segments => reassembly' = part.r
  BY <1>0 DEF WalkEffect, Segments
<1> SUFFICES ASSUME NEW j \in 1..k, Open(j)', Fits(plan[j].packets[1])
             PROVE  HoldsUpTo(reassembly, j)'
  BY <1>1 DEF BufferComplete, Fits, FramesOf
<1>3. /\ plan[j].kind \in {"first", "cont"}
      /\ \A i \in (j + 1)..k : plan[i].kind \in Segments => plan[i].map # plan[j].map
  BY <1>1 DEF Open
<1>4. SUFFICES HoldsUpTo(reassembly', j)
  BY <1>1 DEF HoldsUpTo
<1>5. CASE j = k
  <2>1. plan[k].kind \in Segments /\ reassembly' = part.r
    BY <1>2, <1>3, <1>5 DEF Segments
  <2>2. CASE plan[k].kind = "first"
    <3>1. plan[k].packets # << >>
      BY <1>1, <2>1, SegmentIs
    <3>2. ~reassembly.active
      BY <1>0, <1>1, <2>2, <3>1, FreeForNext
    <3>4. plan[k].total <= MaxPacketLen /\ plan[k].len >= HdrLen
      <4>1. 1 \in DOMAIN plan[k].packets
        BY <1>1, <2>1, SegmentIs DEF Frames
      <4> QED
        BY <1>1, <1>5, <2>1, <2>2, <4>1 DEF Fits, FramesOf, FramesIn
    <3>3. HoldsUpTo(part.r, k)
      BY <1>1, <2>2, <3>2, <3>4, FirstPart
    <3> QED
      BY <1>5, <2>1, <3>3
  <2>3. CASE plan[k].kind = "cont"
    <3>1. PICK i \in 1..taken : /\ Open(i) /\ HoldsUpTo(reassembly, i)
                               /\ reassembly.expected <= MaxPacketLen
                               /\ plan[i].map = plan[k].map
      BY <1>0, <1>1, <1>5, <2>3, FoundByNext
    <3>2. HoldsUpTo(part.r, k)
      BY <1>0, <1>1, <2>3, <3>1, NextPart
    <3> QED
      BY <1>5, <2>1, <3>2
  <2> QED
    BY <1>3, <1>5, <2>2, <2>3
<1>6. CASE j # k
  <2>1. j \in 1..taken /\ Open(j) /\ k \in (j + 1)..k
    BY <1>0, <1>3, <1>6 DEF Open
  <2>2. HoldsUpTo(reassembly, j)
    BY <2>1 DEF BufferComplete
  <2>3. plan[k].kind \notin Segments
    <3> SUFFICES ASSUME plan[k].kind \in Segments PROVE FALSE
      OBVIOUS
    <3>1. plan[k].map # plan[j].map
      BY <1>3, <2>1
    <3>2. j \in DOMAIN plan /\ j < k /\ plan[j].kind \in Segments
      BY <1>0, <1>1, <1>3, <2>1, PlanIs DEF Segments
    <3>3. /\ Len(plan[j].packets) = 1 /\ plan[j].packets \in Seq(Nat \ {Express})
          /\ Len(plan[k].packets) = 1 /\ plan[k].packets \in Seq(Nat \ {Express})
      BY <1>1, <3>2, SegmentIs DEF Frames
    <3>4. plan[j].packets # plan[k].packets
      BY <1>1, <3>1, <3>2, PlanIs DEF Segmented
    <3>5. plan[k].packets[1] # plan[j].packets[1]
      BY <3>3, <3>4, SeqEqual
    <3>6. k \in FramesOf(plan[k].packets[1])
      BY <1>1, <3>3 DEF FramesOf, FramesIn
    <3> QED
      BY <1>0, <1>1, <2>1, <3>1, <3>5, <3>6, NotInterrupted
  <2> QED
    BY <1>2, <2>2, <2>3
<1> QED
  BY <1>5, <1>6

\* It hands over what it completes, unless a handler that comes first fails.
LEMMA AcceptedKept ==
    ASSUME PlanInv, Sequential, taken \in Nat, ReassemblyInv, BufferComplete,
           delivered \in Seq(Seq(Nat \X Nat)), AcceptedIsDelivered, Accepts,
           WalkEffect(taken + 1)
    PROVE  AcceptedIsDelivered'
<1>0. PICK k \in Nat : k = taken + 1
  OBVIOUS
<1> DEFINE part == SegmentPart(reassembly, plan[k])
           ps == plan[k].packets
<1>1. k \in DOMAIN plan /\ taken' = k /\ plan' = plan
  BY <1>0 DEF Accepts
<1>2. ps \in Seq(Nat \ {Express}) /\ DOMAIN ps = 1..Len(ps) /\ Len(ps) \in Nat
  <2>1. plan[k] \in Frames
    BY <1>1, PlanIs
  <2> QED
    BY <2>1 DEF Frames
<1>3. failed \subseteq failed'
  BY <1>0 DEF WalkEffect, GivenOver
<1> SUFFICES ASSUME NEW p \in Packets, \A i \in FramesOf(p) : i <= k, Fits(p), ~Preceded(p)'
             PROVE  \E i \in DOMAIN delivered' : delivered'[i] = Whole(p)
  <2>1. Packets' = Packets
    BY <1>1 DEF Packets
  <2>2. ASSUME NEW p
        PROVE  /\ FramesOf(p)' = FramesOf(p) /\ Whole(p)' = Whole(p) /\ Fits(p)' = Fits(p)
    BY <1>1 DEF FramesOf, Whole, Fits
  <2> QED
    BY <1>1, <2>1, <2>2 DEF AcceptedIsDelivered
<1>4. ~Preceded(p)
  BY <1>1, <1>3 DEF Preceded, FramesOf
<1>5. ASSUME NEW m \in 0..Len(ps), delivered' = delivered \o [i \in 1..m |-> Whole(ps[i])]
      PROVE  /\ \A i \in DOMAIN delivered : i \in DOMAIN delivered' /\ delivered'[i] = delivered[i]
             /\ \A i \in 1..m : \E h \in DOMAIN delivered' : delivered'[h] = Whole(ps[i])
  <2> DEFINE new == [i \in 1..m |-> Whole(ps[i])]
             n == Len(delivered)
             D == {delivered[i] : i \in 1..n} \cup {Whole(ps[i]) : i \in 1..m}
  <2>1. new \in Seq(D) /\ Len(new) = m /\ m \in Nat
    <3>1. new \in [1..m -> D] /\ m \in Nat
      BY <1>2
    <3> HIDE DEF new, D
    <3> QED
      BY <3>1, FunctionIsSeq
  <2>7. delivered \in Seq(D)
    <3>1. n \in Nat /\ delivered \in [1..n -> D]
      OBVIOUS
    <3> HIDE DEF D
    <3> QED
      BY <3>1, FunctionIsSeq
  <2>2. \A i \in 1..m : new[i] = Whole(ps[i])
    OBVIOUS
  <2>3. delivered' = delivered \o new
    BY <1>5
  <2> HIDE DEF new, D
  <2>4. /\ n \in Nat /\ DOMAIN delivered = 1..n /\ DOMAIN delivered' = 1..(n + m)
        /\ \A i \in 1..n : delivered'[i] = delivered[i]
        /\ \A i \in 1..m : delivered'[n + i] = new[i]
    <3>1. n \in Nat /\ Len(delivered) = n /\ DOMAIN delivered = 1..n
      OBVIOUS
    <3>2. /\ delivered \o new \in Seq(D) /\ Len(delivered \o new) = n + m
          /\ \A i \in 1..(n + m) : (delivered \o new)[i] =
               IF i <= n THEN delivered[i] ELSE new[i - n]
      BY <2>1, <2>7, <3>1, ConcatProperties
    <3>3. DOMAIN delivered' = 1..(n + m)
      BY <2>3, <3>2
    <3>4. \A i \in 1..n : i \in 1..(n + m) /\ i <= n
      BY <2>1, <3>1
    <3>5. \A i \in 1..m : n + i \in 1..(n + m) /\ ~(n + i <= n) /\ (n + i) - n = i
      BY <2>1, <3>1
    <3> HIDE DEF n
    <3> QED
      BY <2>3, <3>1, <3>2, <3>3, <3>4, <3>5
  <2>5. ASSUME NEW i \in 1..m PROVE n + i \in DOMAIN delivered'
    BY <2>1, <2>4
  <2>6. ASSUME NEW i \in 1..n PROVE i \in DOMAIN delivered'
    BY <2>1, <2>4
  <2> QED
    BY <2>2, <2>4, <2>5, <2>6
<1>6. CASE \A i \in FramesOf(p) : i <= taken
  <2>1. PICK i \in DOMAIN delivered : delivered[i] = Whole(p)
    BY <1>4, <1>6 DEF AcceptedIsDelivered
  <2>2. i \in DOMAIN delivered' /\ delivered'[i] = delivered[i]
    <3>1. CASE GivenOver(k)
      BY <1>5, <3>1 DEF GivenOver
    <3>2. CASE UNCHANGED delivered
      BY <3>2
    <3> QED
      BY <1>0, <3>1, <3>2 DEF WalkEffect
  <2> QED
    BY <2>1, <2>2
<1>7. CASE ~ \A i \in FramesOf(p) : i <= taken
  <2>1. k \in FramesOf(p)
    <3>1. PICK i \in FramesOf(p) : ~(i <= taken)
      BY <1>7
    <3>2. i \in DOMAIN plan /\ DOMAIN plan = 1..Len(plan)
      BY PlanIs DEF FramesOf, FramesIn
    <3> QED
      BY <1>0, <3>1, <3>2
  <2>2. PICK a \in DOMAIN ps : ps[a] = p
    BY <2>1 DEF FramesOf, FramesIn
  <2>3. SUFFICES ASSUME GivenOver(k)
                 PROVE  \E i \in DOMAIN delivered' : delivered'[i] = Whole(p)
    <3>1. CASE plan[k].kind \in {"short", "empty"}
      BY <1>1, <2>2, <3>1, PlanIs DEF Segmented
    <3>2. CASE plan[k].kind = "unseg"
      <4>1. ~reassembly.active
        BY <1>0, <1>1, <1>2, <2>2, <3>2, FreeForNext
      <4> QED
        BY <1>0, <3>2, <4>1, <2>3 DEF WalkEffect, Segments
    <3>3. CASE plan[k].kind \in {"first", "cont"}
      <4>1. PICK i \in (k + 1)..Len(plan) : SegmentAfter(plan, k, i)
        BY <1>1, <3>3, PlanIs DEF Segmented
      <4>2. i \in DOMAIN plan /\ i > k /\ plan[i].packets = ps
        BY <1>1, <4>1, PlanIs DEF SegmentAfter
      <4>3. i \in FramesOf(p)
        BY <2>2, <4>2 DEF FramesOf, FramesIn
      <4> QED
        BY <4>2, <4>3
    <3>4. CASE plan[k].kind = "last"
      <4>1. Len(ps) = 1 /\ Completes(k) /\ Fits(ps[1])
        BY <1>1, <1>2, <2>2, <3>4, SegmentIs DEF Segments, Completes
      <4>2. PICK i \in 1..taken : /\ Open(i) /\ HoldsUpTo(reassembly, i)
                                 /\ reassembly.expected <= MaxPacketLen
                                 /\ plan[i].map = plan[k].map
        BY <1>0, <1>1, <3>4, <4>1, FoundByNext
      <4>3. part.packet = Whole(ps[1])
        BY <1>0, <1>1, <3>4, <4>2, NextPart
      <4>4. Whole(ps[1]) # << >>
        BY <1>1, <1>2, <4>1, WholeIs
      <4> HIDE DEF part
      <4>5. GivenOver(k)
        BY <1>0, <3>4, <4>3, <4>4 DEF WalkEffect, part
      <4> QED
        BY <2>3, <4>5
    <3> QED
      BY <1>0, <3>1, <3>2, <3>3, <3>4 DEF WalkEffect, Segments
  <2>4. PICK m \in 0..Len(ps) :
          /\ delivered' = delivered \o [i \in 1..m |-> Whole(ps[i])]
          /\ \A i \in DOMAIN ps : i > m => \E h \in DOMAIN ps : h < i /\ ps[h] \in failed'
    BY <2>3 DEF GivenOver
  <2>5. a \in 1..m
    <3> SUFFICES ASSUME ~(a <= m) PROVE FALSE
      BY <1>2
    <3>3. a > m
      BY <1>2
    <3>1. PICK h \in DOMAIN ps : h < a /\ ps[h] \in failed'
      BY <2>4, <3>3
    <3>2. Preceded(p)'
      <4>1. \E i, j \in DOMAIN plan[k].packets :
               i < j /\ plan[k].packets[i] \in failed' /\ plan[k].packets[j] = p
        BY <2>2, <3>1
      <4>2. k \in FramesOf(p)'
        BY <1>1, <2>1 DEF FramesOf
      <4> QED
        BY <1>1, <4>1, <4>2 DEF Preceded
    <3> QED
      BY <3>2
  <2>6. \E h \in DOMAIN delivered' : delivered'[h] = Whole(ps[a])
    BY <1>5, <2>4, <2>5
  <2> QED
    BY <2>2, <2>6
<1> QED
  BY <1>6, <1>7

-------------------------------------------------------------------------------
(* The theorems *)

\* DispatchInd is inductive.
LEMMA DispatchInvariant == Spec => []DispatchInd
<1>1. Init => DispatchInd
  <2> SUFFICES ASSUME Init PROVE DispatchInd
    OBVIOUS
  <2>1. PlanInv /\ plan \in Seq(Frames)
    BY PlanAssumption DEF Init, PlanInv
  <2>2. FarmInv
    <3>1. Modulus \in Nat /\ Modulus > 0 /\ 0 % Modulus = 0 /\ 0 \in Fsns
      BY WindowAssumption DEF Fsns
    <3> QED
      BY <3>1 DEF Init, FarmInv, FarmInit, FarmState
  <2>3. TakenInv
    BY <2>1 DEF Init, TakenInv
  <2>4. ReassemblyInv /\ FailedInv
    BY DEF Init, ReassemblyInv, FailedInv
  <2>5. OrderInv
    BY DEF Init, OrderInv
  <2>6. BufferComplete
    BY DEF Init, BufferComplete
  <2>7. AcceptedIsDelivered
    <3> SUFFICES ASSUME NEW p \in Packets, \A k \in FramesOf(p) : k <= taken PROVE FALSE
      BY DEF AcceptedIsDelivered
    <3>1. PICK k \in DOMAIN plan : \E i \in DOMAIN plan[k].packets : p = plan[k].packets[i]
      BY DEF Packets
    <3>2. k \in FramesOf(p)
      BY <3>1 DEF FramesOf, FramesIn
    <3> QED
      BY <2>1, <3>2 DEF Init
  <2> QED
    BY <2>1, <2>2, <2>3, <2>4, <2>5, <2>6, <2>7 DEF DispatchInd, NoneLost
<1>2. DispatchInd /\ [Next]_vars => DispatchInd'
  <2> SUFFICES ASSUME DispatchInd, [Next]_vars PROVE DispatchInd'
    OBVIOUS
  <2>1. PlanInv /\ FarmInv /\ TakenInv /\ ReassemblyInv /\ FailedInv /\ OrderInv /\ NoneLost
    BY DEF DispatchInd
  <2>2. FarmInv' /\ (Quiet \/ Accepts)
    BY <2>1, StepEffect
  <2>3. CASE Quiet
    <3>1. PlanInv' /\ TakenInv'
      BY <2>1, <2>3 DEF Quiet, PlanInv, TakenInv
    <3>2. ReassemblyInv'
      BY <2>1, <2>3 DEF Quiet, ReassemblyInv, Open, HoldsUpTo
    <3>3. FailedInv'
      BY <2>1, <2>3 DEF Quiet, FailedInv, Packets
    <3>4. OrderInv'
      <4>1. plan' = plan /\ taken' = taken /\ delivered' = delivered
        BY <2>3 DEF Quiet
      <4>2. \A i \in DOMAIN delivered : HandedBy(delivered[i], taken)' <=> HandedBy(delivered[i], taken)
        BY <4>1 DEF HandedBy, Completes, Whole, FramesOf
      <4> QED
        BY <2>1, <4>1, <4>2 DEF OrderInv
    <3>5. NoneLost'
      <4>1. Sequential' = Sequential
        BY <2>3 DEF Quiet, Sequential, Packets, FramesOf
      <4>2. BufferComplete' = BufferComplete
        <5>1. plan' = plan /\ taken' = taken /\ reassembly' = reassembly
          BY <2>3 DEF Quiet
        <5>2. \A p : Fits(p)' = Fits(p)
          BY <5>1 DEF Fits, FramesOf
        <5> QED
          BY <5>1, <5>2 DEF BufferComplete, Open, HoldsUpTo
      <4>3. AcceptedIsDelivered' = AcceptedIsDelivered
        BY <2>3, <4>1 DEF Quiet, AcceptedIsDelivered, Packets, FramesOf, Fits, Preceded, Whole
      <4> QED
        BY <2>1, <4>1, <4>2, <4>3 DEF NoneLost
    <3> QED
      BY <2>2, <3>1, <3>2, <3>3, <3>4, <3>5 DEF DispatchInd
  <2>4. CASE Accepts
    <3>1. taken \in Nat /\ delivered \in Seq(Seq(Nat \X Nat))
      BY <2>1 DEF FarmInv, OrderInv
    <3>2. WalkEffect(taken + 1)
      BY <2>1, <2>4, <3>1, WalkIs
    <3>3. PlanInv' /\ TakenInv'
      BY <2>1, <2>4, <3>1, PlanIs DEF Accepts, PlanInv, TakenInv
    <3>4. ReassemblyInv' /\ FailedInv' /\ OrderInv'
      BY <2>1, <2>4, <3>1, <3>2, ReassemblyKept, FailedKept, OrderKept
    <3>5. NoneLost'
      <4>1. Sequential' = Sequential
        BY <2>4 DEF Accepts, Sequential, Packets, FramesOf
      <4>2. ASSUME Sequential PROVE BufferComplete' /\ AcceptedIsDelivered'
        BY <2>1, <2>4, <3>1, <3>2, <4>2, BufferKept, AcceptedKept DEF NoneLost
      <4> QED
        BY <4>1, <4>2 DEF NoneLost
    <3> QED
      BY <2>2, <3>3, <3>4, <3>5 DEF DispatchInd
  <2> QED
    BY <2>2, <2>3, <2>4
<1> QED
  BY <1>1, <1>2, PTL DEF Spec

\* The reassembly buffer is not overrun, and however the segments of different MAPs
\* are interleaved, dispatch_tc_segment_part hands over whole packets only.
THEOREM ProfileDispatchInv == Spec => []DispatchInv
<1>1. DispatchInd /\ ContextInv /\ SettingsInv => DispatchInv
  <2> SUFFICES ASSUME DispatchInd, ContextInv, SettingsInv PROVE DispatchInv
    OBVIOUS
  <2>1. PlanInv /\ FarmInv /\ TakenInv /\ ReassemblyInv /\ FailedInv /\ OrderInv
    BY DEF DispatchInd
  <2>2. reassembly.len <= reassembly.expected /\ reassembly.expected <= MaxPacketLen
    <3>1. CASE reassembly = Idle
      BY <3>1, ProfileAssumption DEF Idle
    <3>2. CASE reassembly # Idle
      <4>1. PICK j \in 1..taken :
              Open(j) /\ HoldsUpTo(reassembly, j) /\ reassembly.expected <= MaxPacketLen
        BY <2>1, <3>2 DEF ReassemblyInv
      <4>2. j \in DOMAIN plan /\ plan[j].kind \in Segments
        BY <2>1, <4>1, PlanIs DEF TakenInv, FarmInv, Open, Segments
      <4>3. plan[j].off + plan[j].len <= plan[j].total
        BY <2>1, <4>2, SegmentIs
      <4> QED
        BY <4>1, <4>3 DEF HoldsUpTo
    <3> QED
      BY <3>1, <3>2
  <2>3. taken \in 0..Len(plan) /\ failed \subseteq Packets /\ farm \in FarmState
    BY <2>1, PlanIs DEF FarmInv, TakenInv, FailedInv
  <2>4. TypeOK
    BY <2>2, <2>3 DEF TypeOK, ContextInv, SettingsInv
  <2>5. DeliveredWhole
    <3> SUFFICES ASSUME NEW i \in DOMAIN delivered
                 PROVE  \E p \in Packets : delivered[i] = Whole(p)
      BY DEF DeliveredWhole
    <3>1. PICK j \in 1..taken : \E a \in DOMAIN plan[j].packets :
                                  delivered[i] = Whole(plan[j].packets[a])
      BY <2>1 DEF OrderInv, HandedBy
    <3>2. j \in DOMAIN plan
      BY <2>1, <2>3, PlanIs
    <3> QED
      BY <3>1, <3>2 DEF Packets
  <2> QED
    BY <2>4, <2>5 DEF DispatchInv
<1> QED
  BY <1>1, DispatchInvariant, ContextInvariant, PTL

\* Sequence-controlled packets are handed over in the order they were sent and none
\* twice, whatever the ground retransmits within the window.
THEOREM ProfileDeliveredInOrder == Spec => []DeliveredInOrder
<1>1. DispatchInd => DeliveredInOrder
  BY DEF DispatchInd, OrderInv, DeliveredInOrder
<1> QED
  BY <1>1, DispatchInvariant, PTL

\* What the sequence check has acknowledged, the segment walk hands over: V(R)
\* advances first, but no packet is lost behind it that fits the buffer, holds its
\* header in its first segment and follows no failing handler in its frame.
THEOREM ProfileAcceptedIsDelivered == Spec => []AcceptedIsDelivered
<1>1. DispatchInd => AcceptedIsDelivered
  BY DEF DispatchInd, NoneLost, AcceptedIsDelivered
<1> QED
  BY <1>1, DispatchInvariant, PTL

===============================================================================

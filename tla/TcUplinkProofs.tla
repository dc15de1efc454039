----------------------------- MODULE TcUplinkProofs -----------------------------
(***************************************************************************)
(* Proofs, for every Modulus, HalfWindow and ground window that satisfy the    *)
(* assumptions of TcFarm and TcUplink and for every bound, that sequence-      *)
(* controlled commanding over the uplink is safe.  UplinkInv is inductive;     *)
(* the properties are its conjuncts.  The arithmetic of frame sequence        *)
(* numbers modulo Modulus is confined to the first four lemmas.               *)
(***************************************************************************)
EXTENDS TcUplink, TLAPS

Frames == [type: {"AD", "UNLOCK"}, fsn: Fsns, n: Nat, b: Nat]

-------------------------------------------------------------------------------
(* Frame sequence numbers *)

\* The ground's window is one that the assumptions allow.
WindowFact == window \in Nat /\ window > 0 /\ window <= Modulus - HalfWindow

LEMMA WindowFacts == UplinkInv => WindowFact
BY WindowAssumption, UplinkAssumption DEF UplinkInv, TypeOK, WindowFact

\* Adding a distance below Modulus to a frame sequence number gives one.
LEMMA FsnAddType ==
    ASSUME NEW x \in Fsns, NEW d \in Int, -Modulus < d, d < Modulus
    PROVE  FsnAdd(x, d) \in Fsns
BY WindowAssumption DEF Fsns, FsnAdd

\* Two steps around the sequence numbers are one, if no part of the way is a
\* whole turn.
LEMMA FsnAddAdd ==
    ASSUME NEW x \in Fsns, NEW d \in Int, NEW e \in Int,
           -Modulus < d, d < Modulus, -Modulus < e, e < Modulus,
           -Modulus < d + e, d + e < Modulus
    PROVE  FsnAdd(FsnAdd(x, d), e) = FsnAdd(x, d + e)
BY WindowAssumption DEF Fsns, FsnAdd

\* V(R) advances by one and every distance from it shrinks by one.
LEMMA FsnNextAdd ==
    ASSUME NEW x \in Fsns, NEW d \in Int, -Modulus < d, d < Modulus, -Modulus < d - 1
    PROVE  /\ FsnNext(x) \in Fsns
           /\ FsnAdd(FsnNext(x), d - 1) = FsnAdd(x, d)
BY WindowAssumption DEF Fsns, FsnAdd, FsnNext

\* The distances the receiver computes in eight bits are the true ones.
LEMMA FsnDistance ==
    ASSUME NEW x \in Fsns, NEW d \in Int, -Modulus < d, d < Modulus
    PROVE  /\ FsnAdd(x, d) = x <=> d = 0
           /\ d > 0 => /\ FsnSub(FsnAdd(x, d), x) = d
                       /\ FsnSub(x, FsnAdd(x, d)) = Modulus - d
           /\ d < 0 => /\ FsnSub(FsnAdd(x, d), x) = Modulus + d
                       /\ FsnSub(x, FsnAdd(x, d)) = -d
BY WindowAssumption DEF Fsns, FsnAdd, FsnSub

-------------------------------------------------------------------------------
(* The sequence check *)

\* The assignments to the receive state keep its type and touch nothing else.
LEMMA FarmEdits ==
    ASSUME NEW s \in FarmState, NEW v \in Fsns
    PROVE  /\ LET t == [s EXCEPT !.vr = v, !.retransmit = FALSE]
              IN  /\ t \in FarmState /\ t.vr = v
                  /\ t.lockout = s.lockout /\ t.retransmit = FALSE
           /\ LET t == [s EXCEPT !.retransmit = TRUE]
              IN  t \in FarmState /\ t.vr = s.vr /\ t.lockout = s.lockout
           /\ LET t == [s EXCEPT !.lockout = TRUE]
              IN  t \in FarmState /\ t.vr = s.vr /\ t.retransmit = s.retransmit
           /\ LET t == [s EXCEPT !.lockout = FALSE, !.retransmit = FALSE]
              IN  /\ t \in FarmState /\ t.vr = s.vr
                  /\ t.lockout = FALSE /\ t.retransmit = FALSE
BY DEF FarmState

\* Counting a frame changes nothing but the FARM-B counter.
LEMMA CountFrameEdits ==
    ASSUME NEW s \in FarmState
    PROVE  /\ CountFrame(s) \in FarmState /\ CountFrame(s).vr = s.vr
           /\ CountFrame(s).lockout = s.lockout
           /\ CountFrame(s).retransmit = s.retransmit
<1>1. (s.farmB + 1) % 4 \in 0..3
  BY DEF FarmState
<1> QED
  BY <1>1 DEF FarmState, CountFrame

\* The outcome of the sequence check, for a frame d commands away from the one
\* expected.
CheckOutcome(s, d, c) ==
    /\ c.s \in FarmState
    /\ c.ret = "OK" => /\ d = 0 /\ c.s.vr = FsnNext(s.vr)
                       /\ c.s.lockout = s.lockout /\ c.s.retransmit = FALSE
    /\ c.ret # "OK" => /\ c.s.vr = s.vr
                       /\ c.s.retransmit = s.retransmit \/ d > 0
                       /\ c.s.lockout = s.lockout \/ HalfWindow <= window

\* What update_tc_sequence_state does with a frame within the distances that
\* UplinkInv allows.
LEMMA SequenceCheckAt ==
    ASSUME NEW s \in FarmState, NEW d \in Int, WindowFact,
           -window <= d, d < window,
           NEW fsn, fsn = FsnAdd(s.vr, d)
    PROVE  CheckOutcome(s, d, SequenceCheck(s, fsn))
<1> DEFINE c == SequenceCheck(s, fsn)
<1>1. /\ s.vr \in Fsns /\ -Modulus < d /\ d < Modulus
  BY WindowAssumption DEF WindowFact, FarmState
<1>2. /\ fsn = s.vr <=> d = 0
      /\ d > 0 => /\ FsnSub(fsn, s.vr) = d
                  /\ FsnSub(s.vr, fsn) = Modulus - d
      /\ d < 0 => /\ FsnSub(fsn, s.vr) = Modulus + d
                  /\ FsnSub(s.vr, fsn) = -d
  BY <1>1, FsnDistance
<1>3. FsnNext(s.vr) \in Fsns
  BY <1>1, WindowAssumption DEF FsnNext, Fsns
<1>4. CASE c = [ret |-> "EACCES", s |-> s] \/ c = [ret |-> "EAGAIN", s |-> s]
  BY <1>4 DEF CheckOutcome
<1>5. CASE d = 0 /\ c = [ret |-> "OK", s |-> [s EXCEPT !.vr = FsnNext(s.vr), !.retransmit = FALSE]]
  <2>1. c.ret = "OK" /\ c.s = [s EXCEPT !.vr = FsnNext(s.vr), !.retransmit = FALSE]
    BY <1>5
  <2>2. /\ c.s \in FarmState /\ c.s.vr = FsnNext(s.vr)
        /\ c.s.lockout = s.lockout /\ c.s.retransmit = FALSE
    <3> DEFINE t == [s EXCEPT !.vr = FsnNext(s.vr), !.retransmit = FALSE]
    <3>1. /\ t \in FarmState /\ t.vr = FsnNext(s.vr)
          /\ t.lockout = s.lockout /\ t.retransmit = FALSE
      BY <1>3, FarmEdits
    <3> QED
      BY <3>1, <2>1
  <2> QED
    BY <2>1, <2>2, <1>5 DEF CheckOutcome
<1>6. CASE d > 0 /\ c = [ret |-> "EAGAIN", s |-> [s EXCEPT !.retransmit = TRUE]]
  <2>1. c.ret = "EAGAIN" /\ c.s = [s EXCEPT !.retransmit = TRUE]
    BY <1>6
  <2> QED
    BY <2>1, <1>6, <1>3, FarmEdits DEF CheckOutcome
<1>7. CASE /\ HalfWindow <= window
           /\ c = [ret |-> "EAGAIN", s |-> [s EXCEPT !.lockout = TRUE]]
  <2>1. c.ret = "EAGAIN" /\ c.s = [s EXCEPT !.lockout = TRUE]
    BY <1>7
  <2> QED
    BY <2>1, <1>7, <1>3, FarmEdits DEF CheckOutcome
<1>8. CASE ~s.lockout /\ d = 0
  BY <1>8, <1>2, <1>5 DEF SequenceCheck, IsExpected
<1>9. CASE ~s.lockout /\ d > 0
  <2>1. ~IsExpected(s, fsn) /\ (HalfWindow <= window \/ IsJump(s, fsn))
    BY <1>9, <1>1, <1>2, WindowAssumption DEF WindowFact, IsExpected, IsJump
  <2> QED
    BY <2>1, <1>9, <1>4, <1>6, <1>7 DEF SequenceCheck
<1>10. CASE ~s.lockout /\ d < 0
  <2>1. ~IsExpected(s, fsn) /\ ~IsJump(s, fsn)
        /\ (HalfWindow <= window \/ IsDuplicate(s, fsn))
    BY <1>10, <1>1, <1>2, WindowAssumption
       DEF WindowFact, IsExpected, IsJump, IsDuplicate
  <2> QED
    BY <2>1, <1>10, <1>4, <1>7 DEF SequenceCheck
<1>11. CASE s.lockout
  BY <1>11, <1>4 DEF SequenceCheck
<1> QED
  BY <1>8, <1>9, <1>10, <1>11

-------------------------------------------------------------------------------
(* The invariant *)

\* The first frame on the way is one, and the rest are those after it.
LEMMA HeadAndTail ==
    ASSUME uplink \in Seq(Frames), uplink # << >>
    PROVE  /\ Len(uplink) \in Nat /\ 1 \in 1..Len(uplink)
           /\ Head(uplink) = uplink[1] /\ Head(uplink) \in Frames
           /\ Tail(uplink) \in Seq(Frames) /\ Len(Tail(uplink)) = Len(uplink) - 1
           /\ \A i \in 1..Len(Tail(uplink)) :
                 i + 1 \in 1..Len(uplink) /\ Tail(uplink)[i] = uplink[i + 1]
OBVIOUS

\* A frame joins the others at the end.
LEMMA AppendedFrame ==
    ASSUME uplink \in Seq(Frames), NEW f \in Frames
    PROVE  /\ Append(uplink, f) \in Seq(Frames)
           /\ Len(Append(uplink, f)) = Len(uplink) + 1
           /\ \A i \in 1..Len(uplink) + 1 :
                 Append(uplink, f)[i] = IF i = Len(uplink) + 1 THEN f ELSE uplink[i]
OBVIOUS

\* FrameInWindow of a frame f, with what it says of the two ends made explicit
InWindow(f, ba, hi, na, vr) ==
    /\ f.b <= ba /\ na <= f.b + window
    /\ f.type = "AD" => /\ f.b <= f.n /\ f.n < f.b + window /\ f.n < hi
                        /\ f.fsn = FsnAdd(vr, f.n - na)

\* FramesInWindow in those terms
LEMMA FramesInWindowAlt ==
    FramesInWindow <=>
      /\ \A i \in 1..Len(uplink) :
           InWindow(uplink[i], base, high, Len(accepted), farm.vr)
      /\ \A i, j \in 1..Len(uplink) : i < j => uplink[i].b <= uplink[j].b
BY DEF FramesInWindow, FrameInWindow, InWindow

\* Dropping the first frame leaves the others in their windows.
LEMMA TailInWindow ==
    ASSUME uplink \in Seq(Frames), uplink # << >>, uplink' = Tail(uplink), window' = window,
           \A i, j \in 1..Len(uplink) : i < j => uplink[i].b <= uplink[j].b,
           \A i \in 1..Len(uplink) : i > 1 =>
              InWindow(uplink[i], base', high', Len(accepted'), farm'.vr)
    PROVE  FramesInWindow'
<1>1. /\ Len(uplink) \in Nat /\ Len(uplink') = Len(uplink) - 1
      /\ \A i \in 1..Len(uplink') :
            i + 1 \in 1..Len(uplink) /\ uplink'[i] = uplink[i + 1]
  BY HeadAndTail
<1>2. ASSUME NEW i \in 1..Len(uplink')
      PROVE  InWindow(uplink'[i], base', high', Len(accepted'), farm'.vr)
  BY <1>1
<1>3. ASSUME NEW i \in 1..Len(uplink'), NEW k \in 1..Len(uplink'), i < k
      PROVE  uplink'[i].b <= uplink'[k].b
  BY <1>1, <1>3
<1> QED
  BY <1>2, <1>3 DEF FramesInWindow, FrameInWindow, InWindow

\* Adding a frame at the end, sent with the ground's present window.
LEMMA AppendInWindow ==
    ASSUME uplink \in Seq(Frames), FramesInWindow, NEW f \in Frames,
           uplink' = Append(uplink, f), window' = window, base' = base, high' \in Nat, high \in Nat,
           high <= high', accepted' = accepted, farm' = farm,
           f.b = base, InWindow(f, base, high', Len(accepted), farm.vr)
    PROVE  FramesInWindow'
<1>1. /\ Len(uplink) \in Nat /\ Len(uplink') = Len(uplink) + 1
      /\ \A i \in 1..Len(uplink) + 1 :
            uplink'[i] = IF i = Len(uplink) + 1 THEN f ELSE uplink[i]
      /\ \A i \in 1..Len(uplink) : uplink[i] \in Frames
  BY AppendedFrame
<1>2. ASSUME NEW i \in 1..Len(uplink)
      PROVE  /\ InWindow(uplink[i], base, high', Len(accepted), farm.vr)
             /\ uplink[i].b <= base
  <2>1. /\ InWindow(uplink[i], base, high, Len(accepted), farm.vr)
        /\ uplink[i].n \in Nat
    BY <1>1, FramesInWindowAlt DEF Frames
  <2> QED
    BY <2>1 DEF InWindow
<1>3. ASSUME NEW i \in 1..Len(uplink')
      PROVE  InWindow(uplink'[i], base', high', Len(accepted'), farm'.vr)
  BY <1>1, <1>2
<1>4. ASSUME NEW i \in 1..Len(uplink'), NEW k \in 1..Len(uplink'), i < k
      PROVE  uplink'[i].b <= uplink'[k].b
  <2>1. i \in 1..Len(uplink) /\ uplink'[i] = uplink[i] /\ uplink[i].b <= base
    BY <1>1, <1>2, <1>4
  <2>2. CASE k = Len(uplink) + 1
    BY <1>1, <2>1, <2>2
  <2>3. CASE k # Len(uplink) + 1
    <3>1. k \in 1..Len(uplink) /\ uplink'[k] = uplink[k]
      BY <1>1, <2>3
    <3> QED
      BY <2>1, <3>1, <1>4 DEF FramesInWindow
  <2> QED
    BY <2>2, <2>3
<1> QED
  BY <1>3, <1>4 DEF FramesInWindow, FrameInWindow, InWindow

\* Initially both ends agree and nothing is on the way.
LEMMA InitInv == Init => UplinkInv
<1> SUFFICES ASSUME Init PROVE UplinkInv
  OBVIOUS
<1>1. PICK v \in Fsns : farm = SetVr(FarmInit, v) /\ baseFsn = v
  BY UplinkAssumption DEF Init
<1>2. FarmInit \in FarmState /\ FarmInit.lockout = FALSE
  BY WindowAssumption DEF FarmInit, FarmState, Fsns
<1>3. farm \in FarmState /\ farm.vr = v /\ farm.lockout = FALSE /\ farm.retransmit = FALSE
  <2>1. farm = [FarmInit EXCEPT !.vr = v, !.retransmit = FALSE]
    BY <1>1, <1>2 DEF SetVr
  <2> QED
    BY <2>1, <1>2, FarmEdits
<1>4. FsnAdd(v, 0) = v
  BY WindowAssumption DEF FsnAdd, Fsns
<1>5. TypeOK
  BY <1>1, <1>3, UplinkAssumption DEF Init, TypeOK, Clcw, FarmState
<1>6. Window
  BY UplinkAssumption DEF Init, Window
<1>7. Reports
  BY <1>1, <1>3, <1>4 DEF Init, Reports, Clcw
<1>8. FramesInWindow /\ AcceptedInOrder
  BY DEF Init, FramesInWindow, AcceptedInOrder
<1>9. NoLockout /\ RetransmitIsTrue
  BY <1>3 DEF NoLockout, RetransmitIsTrue
<1> QED
  BY <1>5, <1>6, <1>7, <1>8, <1>9 DEF UplinkInv

\* The ground's steps.
LEMMA SendCommandInv == UplinkInv /\ SendCommand => UplinkInv'
<1> SUFFICES ASSUME UplinkInv, SendCommand PROVE UplinkInv'
  OBVIOUS
<1> USE DEF UplinkInv
<1>0. WindowFact /\ window' = window
  BY WindowFacts DEF SendCommand
<1> DEFINE f == [type |-> "AD", fsn |-> FsnAdd(baseFsn, next - base), n |-> next, b |-> base]
<1>1. /\ farm.vr \in Fsns /\ baseFsn \in Fsns /\ Len(accepted) \in Nat
      /\ base \in Nat /\ next \in Nat /\ reported \in Nat
      /\ high \in Nat /\ high' \in Nat /\ high <= high'
  BY DEF TypeOK, FarmState, SendCommand
<1>2. f.fsn \in Fsns /\ f.fsn = FsnAdd(farm.vr, next - Len(accepted))
  <2> DEFINE d == base - Len(accepted)
             e == next - base
  <2>1. /\ d \in Int /\ e \in Int
        /\ -Modulus < d /\ d < Modulus /\ -Modulus < e /\ e < Modulus
        /\ -Modulus < d + e /\ d + e < Modulus /\ d + e = next - Len(accepted)
    BY <1>0, <1>1, WindowAssumption DEF WindowFact, Window, SendCommand
  <2>2. baseFsn = FsnAdd(farm.vr, d)
    BY DEF Reports
  <2> HIDE DEF d, e
  <2>3. FsnAdd(baseFsn, e) = FsnAdd(farm.vr, d + e) /\ FsnAdd(baseFsn, e) \in Fsns
    BY <1>1, <2>1, <2>2, FsnAddAdd, FsnAddType
  <2> QED
    BY <2>3, <2>1 DEF e
<1>3. f \in Frames
  BY <1>1, <1>2 DEF Frames
<1>4. InWindow(f, base, high', Len(accepted), farm.vr)
  BY <1>0, <1>1, <1>2 DEF WindowFact, InWindow, Window, SendCommand
<1>5. uplink \in Seq(Frames) /\ uplink' = Append(uplink, f)
  BY DEF TypeOK, Frames, SendCommand
<1>6. FramesInWindow'
  BY <1>1, <1>3, <1>4, <1>5, <1>0, AppendInWindow DEF SendCommand
<1>7. uplink' \in Seq(Frames)
  BY <1>3, <1>5
<1>8. TypeOK'
  BY <1>1, <1>7 DEF TypeOK, SendCommand, Frames
<1>9. Window'
  BY <1>0, <1>1 DEF WindowFact, Window, TypeOK, SendCommand
<1>10. Reports' /\ AcceptedInOrder' /\ NoLockout' /\ RetransmitIsTrue'
  BY <1>1 DEF Reports, AcceptedInOrder, NoLockout, RetransmitIsTrue, SendCommand
<1> QED
  BY <1>6, <1>8, <1>9, <1>10

\* Going back changes nothing but what the ground sends next.
LEMMA GoBackInv == UplinkInv /\ GoBack => UplinkInv'
<1> SUFFICES ASSUME UplinkInv, GoBack PROVE UplinkInv'
  OBVIOUS
<1> USE DEF UplinkInv
<1>0. WindowFact /\ window' = window
  BY WindowFacts DEF GoBack
<1>1. TypeOK'
  BY DEF TypeOK, GoBack
<1>2. Window'
  BY DEF TypeOK, Window, GoBack
<1>3. FramesInWindow'
  BY FramesInWindowAlt DEF FramesInWindow, FrameInWindow, InWindow, GoBack
<1>4. Reports' /\ AcceptedInOrder' /\ NoLockout' /\ RetransmitIsTrue'
  BY DEF Reports, AcceptedInOrder, NoLockout, RetransmitIsTrue, GoBack
<1> QED
  BY <1>1, <1>2, <1>3, <1>4

\* A CLCW acknowledges exactly the commands accepted when it was built.
LEMMA ReadClcwInv == UplinkInv /\ ReadClcw => UplinkInv'
<1> SUFFICES ASSUME UplinkInv, ReadClcw PROVE UplinkInv'
  OBVIOUS
<1> USE DEF UplinkInv
<1>0. WindowFact /\ window' = window
  BY WindowFacts DEF ReadClcw
<1>1. /\ farm.vr \in Fsns /\ baseFsn \in Fsns /\ Len(accepted) \in Nat /\ reported \in Nat
      /\ base \in Nat /\ next \in Nat /\ high \in Nat /\ clcw.report \in Fsns
  BY DEF TypeOK, FarmState
<1>2. FsnSub(clcw.report, baseFsn) = reported - base
  <2> DEFINE d == base - Len(accepted)
             e == reported - base
  <2>1. /\ d \in Int /\ e \in Int
        /\ -Modulus < d /\ d < Modulus /\ 0 <= e /\ e < Modulus
        /\ -Modulus < d + e /\ d + e < Modulus /\ d + e = reported - Len(accepted)
    <3>1. /\ base <= reported /\ reported <= Len(accepted) /\ Len(accepted) <= high
          /\ high <= base + window
      BY DEF Window
    <3>2. window \in Nat /\ window < Modulus /\ Modulus \in Nat
      BY <1>0, WindowAssumption DEF WindowFact
    <3> QED
      BY <1>1, <3>1, <3>2
  <2>2. baseFsn = FsnAdd(farm.vr, d) /\ clcw.report = FsnAdd(farm.vr, d + e)
    BY <2>1 DEF Reports
  <2> HIDE DEF d, e
  <2>3. clcw.report = FsnAdd(baseFsn, e)
    BY <1>1, <2>1, <2>2, FsnAddAdd, WindowAssumption
  <2>4. FsnSub(clcw.report, baseFsn) = e
    BY <1>1, <2>1, <2>3, WindowAssumption DEF FsnSub, FsnAdd, Fsns
  <2> QED
    BY <2>4 DEF e
<1>3. base' = reported /\ next' = IF next < reported THEN reported ELSE next
  BY <1>1, <1>2 DEF ReadClcw
<1>4. TypeOK'
  BY <1>1, <1>3 DEF TypeOK, ReadClcw
<1>5. Window'
  BY <1>0, <1>1, <1>3 DEF WindowFact, Window, ReadClcw
<1>6. Reports'
  BY <1>3 DEF Reports, ReadClcw
<1>7. FramesInWindow'
  <2>1. base <= base' /\ base' \in Nat
    BY <1>1, <1>3 DEF Window
  <2>2. ASSUME NEW i \in 1..Len(uplink)
        PROVE  InWindow(uplink[i], base', high, Len(accepted), farm.vr)
    <3>1. InWindow(uplink[i], base, high, Len(accepted), farm.vr)
      BY FramesInWindowAlt
    <3>2. uplink \in Seq(Frames)
      BY DEF TypeOK, Frames
    <3>3. uplink[i] \in Frames
      BY <3>2
    <3> QED
      BY <3>1, <3>3, <2>1, <1>1 DEF InWindow, Frames
  <2> QED
    BY <2>2 DEF FramesInWindow, FrameInWindow, InWindow, ReadClcw
<1>8. AcceptedInOrder' /\ NoLockout' /\ RetransmitIsTrue'
  BY DEF AcceptedInOrder, NoLockout, RetransmitIsTrue, ReadClcw
<1> QED
  BY <1>4, <1>5, <1>6, <1>7, <1>8

\* UNLOCK is a frame like any other to the invariant.
LEMMA SendUnlockInv == UplinkInv /\ SendUnlock => UplinkInv'
<1> SUFFICES ASSUME UplinkInv, SendUnlock PROVE UplinkInv'
  OBVIOUS
<1> USE DEF UplinkInv
<1>0. WindowFact /\ window' = window
  BY WindowFacts DEF SendUnlock
<1> DEFINE f == [type |-> "UNLOCK", fsn |-> 0, n |-> 0, b |-> base]
<1>1. /\ Len(accepted) \in Nat /\ base \in Nat /\ next \in Nat /\ high \in Nat
      /\ reported \in Nat /\ high' = high
  BY DEF TypeOK, SendUnlock
<1>2. f \in Frames
  BY <1>1, WindowAssumption DEF Frames, Fsns
<1>3. InWindow(f, base, high', Len(accepted), farm.vr)
  BY <1>0, <1>1 DEF WindowFact, InWindow, Window
<1>4. uplink \in Seq(Frames) /\ uplink' = Append(uplink, f)
  BY DEF TypeOK, Frames, SendUnlock
<1>5. FramesInWindow'
  BY <1>1, <1>2, <1>3, <1>4, <1>0, AppendInWindow DEF SendUnlock
<1>6. uplink' \in Seq(Frames)
  BY <1>2, <1>4
<1>7. TypeOK'
  BY <1>6 DEF TypeOK, SendUnlock, Frames
<1>8. Window'
  BY <1>1 DEF Window, SendUnlock
<1>9. Reports' /\ AcceptedInOrder' /\ NoLockout' /\ RetransmitIsTrue'
  BY DEF Reports, AcceptedInOrder, NoLockout, RetransmitIsTrue, SendUnlock
<1> QED
  BY <1>5, <1>7, <1>8, <1>9

\* Losing a frame.
LEMMA LoseFrameInv == UplinkInv /\ LoseFrame => UplinkInv'
<1> SUFFICES ASSUME UplinkInv, LoseFrame PROVE UplinkInv'
  OBVIOUS
<1> USE DEF UplinkInv
<1>0. WindowFact /\ window' = window
  BY WindowFacts DEF LoseFrame
<1>1. uplink \in Seq(Frames) /\ uplink # << >> /\ uplink' = Tail(uplink)
  BY DEF TypeOK, Frames, LoseFrame
<1>2. FramesInWindow'
  BY <1>1, <1>0, TailInWindow, FramesInWindowAlt DEF LoseFrame
<1>3. uplink' \in Seq(Frames)
  BY <1>1, HeadAndTail
<1>4. TypeOK'
  BY <1>0, <1>3, UplinkAssumption DEF WindowFact, TypeOK, LoseFrame, Frames
<1>5. Window' /\ Reports' /\ AcceptedInOrder' /\ NoLockout' /\ RetransmitIsTrue'
  BY DEF Window, Reports, AcceptedInOrder, NoLockout, RetransmitIsTrue, LoseFrame
<1> QED
  BY <1>2, <1>4, <1>5

\* The sequence check accepts the next command or none.
LEMMA ReceiveDataInv == UplinkInv /\ ReceiveData => UplinkInv'
<1> SUFFICES ASSUME UplinkInv, ReceiveData PROVE UplinkInv'
  OBVIOUS
<1> USE DEF UplinkInv
<1>0. WindowFact /\ window' = window
  BY WindowFacts DEF ReceiveData
<1> DEFINE h == Head(uplink)
           s == CountFrame(farm)
           d == h.n - Len(accepted)
           c == SequenceCheck(s, h.fsn)
<1>1. /\ uplink \in Seq(Frames) /\ uplink # << >> /\ uplink' = Tail(uplink)
      /\ h.type = "AD" /\ farm' = c.s
      /\ accepted' = IF c.ret = "OK" THEN Append(accepted, h.n) ELSE accepted
      /\ UNCHANGED << clcw, reported, base, baseFsn, window, next, high, losses >>
  BY DEF TypeOK, Frames, ReceiveData
<1>2. /\ farm \in FarmState /\ accepted \in Seq(Nat) /\ Len(accepted) \in Nat
      /\ base \in Nat /\ next \in Nat /\ high \in Nat /\ reported \in Nat
  BY DEF TypeOK
<1>3. /\ s \in FarmState /\ s.vr = farm.vr /\ s.lockout = farm.lockout
      /\ s.retransmit = farm.retransmit
  BY <1>2, CountFrameEdits
<1>4. h \in Frames /\ h = uplink[1] /\ 1 \in 1..Len(uplink) /\ h.n \in Nat /\ h.b \in Nat
  BY <1>1, HeadAndTail DEF Frames
<1>5. InWindow(h, base, high, Len(accepted), farm.vr)
  BY <1>4, FramesInWindowAlt
<1>6. /\ d \in Int /\ -window <= d /\ d < window
      /\ h.fsn = FsnAdd(s.vr, d) /\ h.n < high /\ h.n < h.b + window /\ h.b <= base
  <2>1. /\ h.b <= base /\ Len(accepted) <= h.b + window
        /\ h.b <= h.n /\ h.n < h.b + window /\ h.n < high
        /\ h.fsn = FsnAdd(farm.vr, h.n - Len(accepted))
    BY <1>1, <1>5 DEF InWindow
  <2>2. base <= Len(accepted)
    BY <1>2 DEF Window
  <2> HIDE DEF h, s
  <2> QED
    BY <1>0, <1>2, <1>3, <1>4, <2>1, <2>2 DEF WindowFact
<1>7. CheckOutcome(s, d, c)
  <2> HIDE DEF d, s
  <2> QED
    BY <1>3, <1>6, <1>0, SequenceCheckAt
<1>8. farm' \in FarmState
  BY <1>1, <1>7 DEF CheckOutcome
<1>9. uplink' \in Seq(Frames)
  BY <1>1, HeadAndTail
<1>10. CASE c.ret = "OK"
  <2>1. /\ d = 0 /\ farm'.vr = FsnNext(farm.vr) /\ farm'.lockout = farm.lockout
        /\ farm'.retransmit = FALSE
    BY <1>1, <1>3, <1>7, <1>10 DEF CheckOutcome
  <2>2. /\ accepted' = Append(accepted, h.n) /\ h.n = Len(accepted)
        /\ Len(accepted') = Len(accepted) + 1 /\ accepted' \in Seq(Nat)
    BY <1>1, <1>2, <1>4, <1>10, <2>1
  <2>3. TypeOK'
    BY <1>1, <1>8, <1>9, <2>2 DEF TypeOK, Frames
  <2>4. Window'
    BY <1>0, <1>1, <1>2, <1>4, <1>6, <2>2 DEF WindowFact, Window
  <2>5. ASSUME NEW e \in Int, -window <= e - 1, e <= window
        PROVE  FsnAdd(farm'.vr, e - 1) = FsnAdd(farm.vr, e)
    BY <1>0, <2>1, <2>5, <1>2, FsnNextAdd, WindowAssumption DEF WindowFact, FarmState
  <2>6. Reports'
    <3>1. FsnAdd(farm'.vr, base - Len(accepted) - 1) = FsnAdd(farm.vr, base - Len(accepted))
      BY <1>0, <2>4, <2>2, <2>5, <1>1, <1>2 DEF WindowFact, Window
    <3>2. FsnAdd(farm'.vr, reported - Len(accepted) - 1) = FsnAdd(farm.vr, reported - Len(accepted))
      BY <1>0, <2>4, <2>2, <2>5, <1>1, <1>2 DEF WindowFact, Window
    <3>3. /\ base - Len(accepted') = base - Len(accepted) - 1
          /\ reported - Len(accepted') = reported - Len(accepted) - 1
      BY <2>2, <1>2
    <3> QED
      BY <3>1, <3>2, <3>3, <1>1 DEF Reports
  <2>7. ASSUME NEW i \in 1..Len(uplink), i > 1
        PROVE  InWindow(uplink[i], base', high', Len(accepted'), farm'.vr)
    <3> DEFINE f == uplink[i]
               e == f.n - Len(accepted)
    <3>1. f \in Frames /\ h.b <= f.b /\ InWindow(f, base, high, Len(accepted), farm.vr)
      <4>1. uplink[i] \in Frames
        BY <1>1
      <4>2. uplink[1].b <= uplink[i].b
        BY <1>4, <2>7 DEF FramesInWindow
      <4>3. InWindow(uplink[i], base, high, Len(accepted), farm.vr)
        BY FramesInWindowAlt
      <4> QED
        BY <4>1, <4>2, <4>3, <1>4
    <3>2. f.b \in Nat /\ f.n \in Nat /\ Len(accepted') <= f.b + window
      BY <1>0, <3>1, <2>2, <1>2, <1>4, <1>6 DEF WindowFact, Frames
    <3>3. CASE f.type = "AD"
      <4>1. /\ e \in Int /\ -window <= e - 1 /\ e <= window
            /\ f.n - Len(accepted') = e - 1
        <5>1. f.b <= base /\ f.b <= f.n /\ f.n < f.b + window
          BY <3>1, <3>3 DEF InWindow
        <5>2. base <= Len(accepted)
          BY <1>2 DEF Window
        <5>3. /\ Len(accepted') = Len(accepted) + 1 /\ Len(accepted) \in Nat
              /\ base \in Nat /\ window \in Nat
          BY <1>0, <2>2, <1>2 DEF WindowFact
        <5>4. PICK fn \in Nat, fb \in Nat : fn = f.n /\ fb = f.b
          BY <3>2
        <5>5. PICK na \in Nat : na = Len(accepted) /\ na + 1 = Len(accepted')
          BY <5>3
        <5>6. /\ fb <= fn /\ fn < fb + window /\ fb <= base /\ base <= na
              /\ na + 1 <= fb + window
          BY <5>1, <5>2, <5>4, <5>5, <3>2
        <5>7. fn - na <= window /\ -window <= fn - na - 1
          BY <5>6, <5>3
        <5>8. fn - na \in Int /\ fn - (na + 1) = fn - na - 1
          OBVIOUS
        <5> QED
          BY <5>4, <5>5, <5>7, <5>8
      <4> HIDE DEF e
      <4>2. FsnAdd(farm'.vr, e - 1) = FsnAdd(farm.vr, e)
        BY <4>1, <2>5
      <4> QED
        BY <4>1, <4>2, <3>1, <3>2, <3>3, <1>1 DEF InWindow, e
    <3> QED
      BY <3>1, <3>2, <3>3, <1>1 DEF InWindow
  <2>8. FramesInWindow'
    BY <2>7, <1>1, <1>0, TailInWindow DEF FramesInWindow
  <2>9. AcceptedInOrder'
    BY <2>2, <1>2 DEF AcceptedInOrder
  <2>10. NoLockout' /\ RetransmitIsTrue'
    BY <1>0, <2>1 DEF NoLockout, RetransmitIsTrue
  <2> QED
    BY <2>3, <2>4, <2>6, <2>8, <2>9, <2>10
<1>11. CASE c.ret # "OK"
  <2>1. /\ farm'.vr = farm.vr /\ accepted' = accepted
        /\ farm'.retransmit = farm.retransmit \/ d > 0
        /\ farm'.lockout = farm.lockout \/ HalfWindow <= window
    BY <1>1, <1>3, <1>7, <1>11 DEF CheckOutcome
  <2>2. TypeOK'
    BY <1>1, <1>2, <1>8, <1>9, <2>1 DEF TypeOK, Frames
  <2>3. Window' /\ Reports' /\ AcceptedInOrder'
    BY <1>1, <2>1 DEF Window, Reports, AcceptedInOrder
  <2>4. FramesInWindow'
    BY <1>1, <2>1, <1>0, TailInWindow, FramesInWindowAlt
  <2>5. NoLockout'
    BY <1>0, <2>1, WindowAssumption DEF WindowFact, NoLockout
  <2>6. RetransmitIsTrue'
    BY <1>1, <1>2, <1>4, <1>6, <2>1 DEF RetransmitIsTrue
  <2> QED
    BY <2>2, <2>3, <2>4, <2>5, <2>6
<1> QED
  BY <1>10, <1>11

\* UNLOCK clears the two flags and moves nothing.
LEMMA ReceiveUnlockInv == UplinkInv /\ ReceiveUnlock => UplinkInv'
<1> SUFFICES ASSUME UplinkInv, ReceiveUnlock PROVE UplinkInv'
  OBVIOUS
<1> USE DEF UplinkInv
<1>0. WindowFact /\ window' = window
  BY WindowFacts DEF ReceiveUnlock
<1>1. /\ uplink \in Seq(Frames) /\ uplink # << >> /\ uplink' = Tail(uplink)
      /\ farm' = Unlock(CountFrame(farm)) /\ farm \in FarmState
      /\ UNCHANGED << accepted, clcw, reported, base, baseFsn, window, next, high, losses >>
  BY DEF TypeOK, Frames, ReceiveUnlock
<1>2. /\ farm' \in FarmState /\ farm'.vr = farm.vr
      /\ farm'.lockout = FALSE /\ farm'.retransmit = FALSE
  <2> DEFINE s == CountFrame(farm)
  <2>1. s \in FarmState /\ s.vr = farm.vr /\ s.vr \in Fsns
    BY <1>1, CountFrameEdits DEF FarmState
  <2> HIDE DEF s
  <2> QED
    BY <2>1, <1>1, FarmEdits DEF Unlock, s
<1>3. FramesInWindow'
  BY <1>1, <1>2, <1>0, TailInWindow, FramesInWindowAlt
<1>4. uplink' \in Seq(Frames)
  BY <1>1, HeadAndTail
<1>5. TypeOK'
  BY <1>1, <1>2, <1>4 DEF TypeOK, Frames
<1>6. Window' /\ Reports' /\ AcceptedInOrder'
  BY <1>1, <1>2 DEF Window, Reports, AcceptedInOrder
<1>7. NoLockout' /\ RetransmitIsTrue'
  BY <1>2 DEF NoLockout, RetransmitIsTrue
<1> QED
  BY <1>3, <1>5, <1>6, <1>7

\* A new report value is the present V(R).
LEMMA SendReportInv == UplinkInv /\ SendReport => UplinkInv'
<1> SUFFICES ASSUME UplinkInv, SendReport PROVE UplinkInv'
  OBVIOUS
<1> USE DEF UplinkInv
<1>0. WindowFact /\ window' = window
  BY WindowFacts DEF SendReport
<1>1. /\ Len(accepted) \in Nat /\ base \in Nat /\ reported \in Nat /\ high \in Nat
      /\ farm \in FarmState /\ farm.vr \in Fsns
      /\ clcw' = [clcw EXCEPT !.report = farm.vr] /\ reported' = Len(accepted)
      /\ UNCHANGED << farm, accepted, uplink, base, baseFsn, window, next, high, losses >>
  BY DEF TypeOK, FarmState, SendReport, Clcw
<1>2. TypeOK' /\ clcw'.report = farm.vr
  <2>1. clcw \in [report: Fsns, lockout: BOOLEAN, retransmit: BOOLEAN, farmB: 0..3]
    BY DEF TypeOK
  <2>2. /\ clcw' \in [report: Fsns, lockout: BOOLEAN, retransmit: BOOLEAN, farmB: 0..3]
        /\ clcw'.report = farm.vr
    BY <1>1, <2>1
  <2> QED
    BY <1>1, <2>2 DEF TypeOK
<1>3. Window'
  BY <1>1 DEF Window
<1>4. Reports'
  <2>1. FsnAdd(farm.vr, 0) = farm.vr
    BY <1>1, WindowAssumption DEF FsnAdd, Fsns
  <2>2. reported' - Len(accepted)' = 0
    BY <1>1
  <2> QED
    BY <1>1, <1>2, <2>1, <2>2 DEF Reports
<1>5. FramesInWindow' /\ AcceptedInOrder' /\ NoLockout' /\ RetransmitIsTrue'
  BY <1>1 DEF FramesInWindow, FrameInWindow, AcceptedInOrder, NoLockout, RetransmitIsTrue
<1> QED
  BY <1>2, <1>3, <1>4, <1>5

\* New flags leave the report value alone.
LEMMA SendFlagsInv == UplinkInv /\ SendFlags => UplinkInv'
<1> SUFFICES ASSUME UplinkInv, SendFlags PROVE UplinkInv'
  OBVIOUS
<1> USE DEF UplinkInv
<1>0. WindowFact /\ window' = window
  BY WindowFacts DEF SendFlags
<1>1. /\ farm \in FarmState /\ clcw' = [Clcw(farm) EXCEPT !.report = clcw.report]
      /\ UNCHANGED << farm, accepted, uplink, reported, base, baseFsn, window, next, high, losses >>
  BY DEF TypeOK, SendFlags
<1>2. TypeOK' /\ clcw'.report = clcw.report
  BY <1>1 DEF TypeOK, Clcw, FarmState
<1>3. Window' /\ Reports'
  BY <1>1, <1>2 DEF Window, Reports
<1>4. FramesInWindow' /\ AcceptedInOrder' /\ NoLockout' /\ RetransmitIsTrue'
  BY <1>1 DEF FramesInWindow, FrameInWindow, AcceptedInOrder, NoLockout, RetransmitIsTrue
<1> QED
  BY <1>2, <1>3, <1>4

\* Stuttering changes nothing.
LEMMA StutterInv == UplinkInv /\ UNCHANGED vars => UplinkInv'
BY DEF UplinkInv, vars, TypeOK, Window, Reports, FramesInWindow, FrameInWindow,
       AcceptedInOrder, NoLockout, RetransmitIsTrue

-------------------------------------------------------------------------------
(* Theorems *)

\* UplinkInv is an invariant: every eight-bit number in a frame, in the CLCW, at
\* the ground and in V(R) stands for the one command number it was made from.
THEOREM UplinkInvariant == Spec => []UplinkInv
<1>1. UplinkInv /\ [Next]_vars => UplinkInv'
  BY SendCommandInv, GoBackInv, ReadClcwInv, SendUnlockInv, LoseFrameInv,
     ReceiveDataInv, ReceiveUnlockInv, SendReportInv, SendFlagsInv, StutterInv DEF Next
<1> QED
  BY InitInv, <1>1, PTL DEF Spec

\* The variables keep their types.
THEOREM UplinkTypeOK == Spec => []TypeOK
<1>1. UplinkInv => TypeOK
  BY DEF UplinkInv
<1> QED
  BY <1>1, UplinkInvariant, PTL

\* update_tc_sequence_state accepts the commands 0, 1, 2, ... in that order,
\* whatever is lost or sent again, for every window up to Modulus - HalfWindow.
THEOREM UplinkAcceptsInOrder == Spec => []AcceptedInOrder
<1>1. UplinkInv => AcceptedInOrder
  BY DEF UplinkInv
<1> QED
  BY <1>1, UplinkInvariant, PTL

\* A ground window below half the receiver's window never leads to lockout.
THEOREM UplinkNeverLocksOut == Spec => []NoLockout
<1>1. UplinkInv => NoLockout
  BY DEF UplinkInv
<1> QED
  BY <1>1, UplinkInvariant, PTL

\* The retransmit flag is set only while a command sent is not yet accepted.
THEOREM UplinkRetransmitIsTrue == Spec => []RetransmitIsTrue
<1>1. UplinkInv => RetransmitIsTrue
  BY DEF UplinkInv
<1> QED
  BY <1>1, UplinkInvariant, PTL

\* The CLCW never acknowledges a command that was not accepted.
THEOREM UplinkAcknowledgesAccepted == Spec => []AcknowledgedIsAccepted
<1>1. UplinkInv => AcknowledgedIsAccepted
  BY DEF UplinkInv, TypeOK, Window, AcknowledgedIsAccepted
<1> QED
  BY <1>1, UplinkInvariant, PTL

===============================================================================

------------------------------- MODULE TcUplink -------------------------------
(***************************************************************************)
(* Sequence-controlled telecommanding over the TC uplink: the spacecraft's    *)
(* COP-1 receiver (module TcFarm) with the ground side that its CLCW drives.  *)
(* The ground is external to this repository; it is modelled by what the CLCW *)
(* is for: it keeps up to `window' commands beyond the acknowledged ones      *)
(* on the way and goes back to the oldest of them at will; while the CLCW     *)
(* reports lockout it sends UNLOCK, and starts again from the oldest after.   *)
(* The uplink keeps the order of the frames and loses some; a CLCW is lost    *)
(* when the next overwrites it.                                               *)
(*                                                                         *)
(* Commands are numbered 0, 1, 2, ... without bound; a frame carries only the *)
(* number modulo Modulus, as `fsn'.  `n' (the number) and `b' (the number of  *)
(* the oldest unacknowledged command when it was sent) are ghosts: they ride  *)
(* along for the properties and no action of the spacecraft looks at them.   *)
(***************************************************************************)
EXTENDS TcFarm, Sequences

CONSTANTS GroundWindows,       \* windows the ground may have been configured with
          FirstFsns,           \* values of V(R) both ends may start from
          MaxFrames, MaxInFlight, MaxLosses     \* bounds of the model

ASSUME UplinkAssumption ==
    /\ GroundWindows \subseteq 1..(Modulus - HalfWindow) /\ FirstFsns \subseteq Fsns
    /\ MaxFrames \in Nat /\ MaxInFlight \in Nat /\ MaxLosses \in Nat

VARIABLES farm,                \* profile->vc_state
          accepted,            \* history: numbers of the frames accepted, in order
          uplink,              \* frames on the way up, oldest first
          clcw,                \* last CLCW sent down
          reported,            \* ghost: Len(accepted) when its report value was read
          base, baseFsn,       \* ground: oldest unacknowledged command, and its FSN
          window,              \* ground: commands it sends beyond those acknowledged
          next,                \* ground: next command to send
          high,                \* ghost: commands sent at least once
          losses               \* frames lost so far

vars == << farm, accepted, uplink, clcw, reported, base, baseFsn, window, next,
           high, losses >>

\* x + d modulo Modulus, for -Modulus < d < Modulus
FsnAdd(x, d) == IF x + d >= Modulus THEN x + d - Modulus
                ELSE IF x + d < 0 THEN x + d + Modulus ELSE x + d

\* Both ends agree on some V(R), by initialisation or by SET V(R).
Init ==
    /\ \E v \in FirstFsns : farm = SetVr(FarmInit, v) /\ baseFsn = v
    /\ accepted = << >> /\ uplink = << >>
    /\ clcw = Clcw(farm) /\ reported = 0
    /\ window \in GroundWindows /\ base = 0 /\ next = 0 /\ high = 0 /\ losses = 0

-------------------------------------------------------------------------------
(* Ground *)

SendCommand ==
    /\ ~clcw.lockout
    /\ next < base + window /\ next < MaxFrames /\ Len(uplink) < MaxInFlight
    /\ uplink' = Append(uplink, [type |-> "AD", fsn |-> FsnAdd(baseFsn, next - base),
                                 n |-> next, b |-> base])
    /\ next' = next + 1
    /\ high' = IF next + 1 > high THEN next + 1 ELSE high
    /\ UNCHANGED << farm, accepted, clcw, reported, base, baseFsn, window, losses >>

GoBack ==
    /\ next > base /\ next' = base
    /\ UNCHANGED << farm, accepted, uplink, clcw, reported, base, baseFsn, window, high, losses >>

ReadClcw ==
    /\ LET acked == FsnSub(clcw.report, baseFsn)
       IN  /\ acked <= high - base /\ acked > 0
           /\ base' = base + acked
           /\ next' = IF next < base + acked THEN base + acked ELSE next
    /\ baseFsn' = clcw.report
    /\ UNCHANGED << farm, accepted, uplink, clcw, reported, window, high, losses >>

SendUnlock ==
    /\ clcw.lockout /\ Len(uplink) < MaxInFlight
    /\ uplink' = Append(uplink, [type |-> "UNLOCK", fsn |-> 0, n |-> 0, b |-> base])
    /\ next' = base
    /\ UNCHANGED << farm, accepted, clcw, reported, base, baseFsn, window, high, losses >>

-------------------------------------------------------------------------------
(* Link and spacecraft *)

LoseFrame ==
    /\ uplink # << >> /\ losses < MaxLosses
    /\ uplink' = Tail(uplink) /\ losses' = losses + 1
    /\ UNCHANGED << farm, accepted, clcw, reported, base, baseFsn, window, next, high >>

\* ccsds_profile_tc_cltu_dispatch of a Type-A data frame
ReceiveData ==
    /\ uplink # << >> /\ Head(uplink).type = "AD"
    /\ LET check == SequenceCheck(CountFrame(farm), Head(uplink).fsn)
       IN  /\ farm' = check.s
           /\ accepted' = IF check.ret = "OK" THEN Append(accepted, Head(uplink).n)
                          ELSE accepted
    /\ uplink' = Tail(uplink)
    /\ UNCHANGED << clcw, reported, base, baseFsn, window, next, high, losses >>

\* ccsds_profile_tc_cltu_dispatch of an UNLOCK control frame
ReceiveUnlock ==
    /\ uplink # << >> /\ Head(uplink).type = "UNLOCK"
    /\ farm' = Unlock(CountFrame(farm))
    /\ uplink' = Tail(uplink)
    /\ UNCHANGED << accepted, clcw, reported, base, baseFsn, window, next, high, losses >>

\* ccsds_profile_tc_clcw_provider, called for the operational control field of a TM
\* frame.  The CLCW is built on the system work queue without a lock, while the
\* receive thread goes on: its report value and its flags may be of different
\* moments.  Each of them is replaced in the last CLCW by itself, so the ground
\* sees every mixture of values that are not older than those it has seen.
SendReport ==
    /\ clcw' = [clcw EXCEPT !.report = Clcw(farm).report] /\ reported' = Len(accepted)
    /\ UNCHANGED << farm, accepted, uplink, base, baseFsn, window, next, high, losses >>

SendFlags ==
    /\ clcw' = [Clcw(farm) EXCEPT !.report = clcw.report]
    /\ UNCHANGED << farm, accepted, uplink, reported, base, baseFsn, window, next, high, losses >>

Next == \/ SendCommand \/ GoBack \/ ReadClcw \/ SendUnlock
        \/ LoseFrame \/ ReceiveData \/ ReceiveUnlock
        \/ SendReport \/ SendFlags

Spec == Init /\ [][Next]_vars

\* The spacecraft processes every frame that arrives and sends CLCWs for ever;
\* the ground reads them, and keeps sending, going back and unlocking as long
\* as it has reason to.
FairSpec == /\ Spec
            /\ WF_vars(ReceiveData \/ ReceiveUnlock)
            /\ WF_vars(SendReport) /\ WF_vars(SendFlags) /\ WF_vars(ReadClcw)
            /\ SF_vars(SendCommand) /\ SF_vars(GoBack) /\ SF_vars(SendUnlock)

-------------------------------------------------------------------------------
(* Properties *)

\* Every variable stays within its type.
TypeOK ==
    /\ farm \in FarmState
    /\ accepted \in Seq(Nat)
    /\ uplink \in Seq([type: {"AD", "UNLOCK"}, fsn: Fsns, n: Nat, b: Nat])
    /\ clcw \in [report: Fsns, lockout: BOOLEAN, retransmit: BOOLEAN, farmB: 0..3]
    /\ reported \in Nat /\ base \in Nat /\ baseFsn \in Fsns /\ window \in GroundWindows
    /\ next \in Nat /\ high \in Nat /\ losses \in 0..MaxLosses

\* Although update_tc_sequence_state sees a command's number only modulo
\* Modulus, and frames are lost and sent again while it wraps, the commands
\* accepted are 0, 1, 2, ...: none is skipped, repeated or taken for another.
AcceptedInOrder == \A i \in 1..Len(accepted) : accepted[i] = i - 1

\* A ground that keeps fewer than HalfWindow commands unacknowledged never
\* drives update_tc_sequence_state into lockout, whatever is lost or resent.
NoLockout == window < HalfWindow => ~farm.lockout

\* The retransmit flag is never stale: while it is set, some command that was
\* sent has not been accepted.
RetransmitIsTrue == farm.retransmit => Len(accepted) < high

\* What the ground believes acknowledged has been accepted: the modular
\* report value of the CLCW, however old, never acknowledges too much.
AcknowledgedIsAccepted == base <= Len(accepted)

\* Every command is accepted in the end, through loss, lockout and unlock.
AllAccepted == <>(Len(accepted) = MaxFrames)

-------------------------------------------------------------------------------
(* The inductive invariant: how far the two ends can be apart, and that each  *)
(* 8-bit number in the system stands for the command number beside it.        *)

\* Both ends' counters.  No two are more than window apart.
Window ==
    /\ base <= reported /\ reported <= Len(accepted)
    /\ Len(accepted) <= high /\ base <= next /\ next <= high
    /\ high <= base + window

\* What the CLCW and the ground call V(R) is V(R) as it was.
Reports ==
    /\ baseFsn = FsnAdd(farm.vr, base - Len(accepted))
    /\ clcw.report = FsnAdd(farm.vr, reported - Len(accepted))

\* A frame on the way was sent within the window that was open then, and the
\* spacecraft is not past the end of that window.
FrameInWindow(f) ==
    /\ f.b <= base /\ Len(accepted) <= f.b + window
    /\ f.type = "AD" =>
         /\ f.b <= f.n /\ f.n < f.b + window /\ f.n < high
         /\ f.fsn = FsnAdd(farm.vr, f.n - Len(accepted))

\* The uplink keeps the order, so the windows of the frames only move up.
FramesInWindow ==
    /\ \A i \in 1..Len(uplink) : FrameInWindow(uplink[i])
    /\ \A i, j \in 1..Len(uplink) : i < j => uplink[i].b <= uplink[j].b

\* The invariant that TcUplinkProofs shows to be inductive: the counters, the
\* reports and the frames of update_tc_sequence_state and its ground agree.
UplinkInv == /\ TypeOK /\ Window /\ Reports /\ FramesInWindow
             /\ AcceptedInOrder /\ NoLockout /\ RetransmitIsTrue

===============================================================================

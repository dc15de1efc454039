-------------------------------- MODULE TcFarm --------------------------------
(***************************************************************************)
(* The COP-1 receive state of one TC virtual channel (struct                 *)
(* ccsds_profile_tc_vc_state) and the functions of src/ccsds_profile.c that   *)
(* advance it: the sequence check of Type-A frames, the two control commands, *)
(* the FARM-B counter and the CLCW.  The state is a record                   *)
(*   vr          report_value: the next frame sequence number expected, V(R)  *)
(*   lockout, retransmit                                                     *)
(*   farmB       farm_b_counter                                              *)
(***************************************************************************)
EXTENDS Integers

CONSTANTS Modulus,             \* CCSDS_TC_FSN_MODULO (256 in the code)
          HalfWindow           \* CCSDS_TC_COP1_HALF_WINDOW

\* The two BUILD_ASSERTs on CONFIG_CCSDS_COP1_WINDOW_SIZE.
ASSUME WindowAssumption ==
    /\ Modulus \in Nat /\ HalfWindow \in Nat
    /\ 4 <= 2 * HalfWindow /\ 4 * HalfWindow <= Modulus

Fsns == 0..(Modulus - 1)

FarmState == [vr: Fsns, lockout: BOOLEAN, retransmit: BOOLEAN, farmB: 0..3]

\* ccsds_profile_tc_rx_init: memset to zero.
FarmInit == [vr |-> 0, lockout |-> FALSE, retransmit |-> FALSE, farmB |-> 0]

\* uint8_t arithmetic on frame sequence numbers
FsnNext(x) == IF x + 1 = Modulus THEN 0 ELSE x + 1
FsnSub(x, y) == IF x >= y THEN x - y ELSE x - y + Modulus

\* The FARM-B counter advances for every frame that passes the frame checks
\* and, if enabled, SDLS; Type-A frames included.
CountFrame(s) == [s EXCEPT !.farmB = (@ + 1) % 4]

IsExpected(s, fsn) == fsn = s.vr

\* Mutant: the negative window is one frame short.
IsDuplicateShort(s, fsn) == fsn # s.vr /\ FsnSub(s.vr, fsn) < HalfWindow - 1

IsDuplicate(s, fsn) == fsn # s.vr /\ FsnSub(s.vr, fsn) < HalfWindow

IsJump(s, fsn) == fsn # s.vr /\ FsnSub(fsn, s.vr) < HalfWindow

\* Mutant: a frame ahead of V(R) is accepted and V(R) follows it.
SequenceCheckFollows(s, fsn) ==
    IF s.lockout THEN [ret |-> "EACCES", s |-> s]
    ELSE IF IsDuplicate(s, fsn) THEN [ret |-> "EAGAIN", s |-> s]
    ELSE IF IsExpected(s, fsn) \/ IsJump(s, fsn)
      THEN [ret |-> "OK", s |-> [s EXCEPT !.vr = FsnNext(fsn), !.retransmit = FALSE]]
    ELSE [ret |-> "EAGAIN", s |-> [s EXCEPT !.lockout = TRUE]]

\* Mutant: a frame that was accepted before is accepted again.
SequenceCheckRepeats(s, fsn) ==
    IF s.lockout THEN [ret |-> "EACCES", s |-> s]
    ELSE IF IsExpected(s, fsn)
      THEN [ret |-> "OK", s |-> [s EXCEPT !.vr = FsnNext(@), !.retransmit = FALSE]]
    ELSE IF IsDuplicate(s, fsn) THEN [ret |-> "OK", s |-> s]
    ELSE IF IsJump(s, fsn)
      THEN [ret |-> "EAGAIN", s |-> [s EXCEPT !.retransmit = TRUE]]
    ELSE [ret |-> "EAGAIN", s |-> [s EXCEPT !.lockout = TRUE]]

\* Mutant: the retransmit flag survives the acceptance of the missing frame.
SequenceCheckSticky(s, fsn) ==
    IF s.lockout THEN [ret |-> "EACCES", s |-> s]
    ELSE IF IsExpected(s, fsn)
      THEN [ret |-> "OK", s |-> [s EXCEPT !.vr = FsnNext(@)]]
    ELSE IF IsDuplicate(s, fsn) THEN [ret |-> "EAGAIN", s |-> s]
    ELSE IF IsJump(s, fsn)
      THEN [ret |-> "EAGAIN", s |-> [s EXCEPT !.retransmit = TRUE]]
    ELSE [ret |-> "EAGAIN", s |-> [s EXCEPT !.lockout = TRUE]]

\* update_tc_sequence_state for a Type-A data frame
SequenceCheck(s, fsn) ==
    IF s.lockout THEN [ret |-> "EACCES", s |-> s]
    ELSE IF IsExpected(s, fsn)
      THEN [ret |-> "OK", s |-> [s EXCEPT !.vr = FsnNext(@), !.retransmit = FALSE]]
    ELSE IF IsDuplicate(s, fsn) THEN [ret |-> "EAGAIN", s |-> s]
    ELSE IF IsJump(s, fsn)
      THEN [ret |-> "EAGAIN", s |-> [s EXCEPT !.retransmit = TRUE]]
    ELSE [ret |-> "EAGAIN", s |-> [s EXCEPT !.lockout = TRUE]]

\* update_tc_sequence_state for a Type-B data frame (bypass flag set)
BypassCheck(s) == IF s.lockout THEN "EACCES" ELSE "OK"

\* Mutant: UNLOCK is refused during lockout, like any other command.
UnlockRefused(s) == s

\* handle_tc_control_frame: UNLOCK
Unlock(s) == [s EXCEPT !.lockout = FALSE, !.retransmit = FALSE]

\* handle_tc_control_frame: SET V(R), refused during lockout
SetVr(s, v) == IF s.lockout THEN s ELSE [s EXCEPT !.vr = v, !.retransmit = FALSE]

\* Mutant: the CLCW acknowledges the frame that is still expected.
ClcwAhead(s) == [report |-> FsnNext(s.vr), lockout |-> s.lockout,
                 retransmit |-> s.retransmit, farmB |-> s.farmB]

\* The fields of ccsds_profile_tc_build_clcw that follow the receive state
Clcw(s) == [report |-> s.vr, lockout |-> s.lockout, retransmit |-> s.retransmit,
            farmB |-> s.farmB]

===============================================================================

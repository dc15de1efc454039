------------------------------- MODULE UdpInput --------------------------------
(***************************************************************************)
(* The packet-only input of src/ccsds_profile.c: the receive callback of the    *)
(* UDP adapter hands each datagram to ccsds_profile_input_dispatch_unit, which  *)
(* decodes it as a Space Packet and dispatches it through the router.           *)
(* The application registers and removes APIDs while packets arrive.            *)
(***************************************************************************)
EXTENDS Udp, Router

CONSTANT Scenarios             \* bounds of the model: one is chosen at the start

ASSUME InputAssumption ==
    \A s \in Scenarios : s \in [starts: 0 .. MaxStarts, units: 0 .. MaxUnits,
                                 apids: SUBSET Apids]

VARIABLE limit                 \* the scenario

inputVars == << udpVars, vars, limit >>

InputInit == UdpInit /\ Init /\ limit \in Scenarios

\* ccsds_profile_packet_dispatch: a datagram that is no packet is not dispatched.
DispatchUnit(t) ==
    /\ CallbackReturns(t)
    /\ Dispatch(threads[t].unit) \/ UNCHANGED vars
    /\ UNCHANGED limit

UdpStep ==
    /\ \/ starts < limit.starts /\ StartCheck
       \/ Stop \/ CallRuns \/ Send
       \/ \E t \in ThreadIds :
             \/ ThreadRuns(t) \/ RecvFails(t)
             \/ /\ units < limit.units
                /\ \/ \E unit \in limit.apids : RecvUnit(t, "fits", unit)
                   \/ RecvUnit(t, "refused", 0)
    /\ UNCHANGED << vars, limit >>

Registration ==
    /\ \E a \in limit.apids : UnregisterApid(a) \/ \E h \in Handlers : RegisterApid(a, h)
    /\ UNCHANGED << udpVars, limit >>

InputNext == UdpStep \/ Registration \/ \E t \in ThreadIds : DispatchUnit(t)

InputSpec == InputInit /\ [][InputNext]_inputVars

\* The scheduler runs every thread that can run, and callbacks return.
InputFairSpec ==
    /\ InputSpec
    /\ WF_inputVars(CallRuns /\ UNCHANGED << vars, limit >>)
    /\ \A t \in ThreadIds : /\ WF_inputVars(ThreadRuns(t) /\ UNCHANGED << vars, limit >>)
                            /\ WF_inputVars(DispatchUnit(t))

===============================================================================

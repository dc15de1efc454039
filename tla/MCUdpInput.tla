------------------------------ MODULE MCUdpInput -------------------------------
(***************************************************************************)
(* The scenarios in which TLC explores UdpInput.                             *)
(***************************************************************************)
EXTENDS UdpInput

\* The adapter is stopped, started again and stopped while two datagrams arrive.
Restarts == [starts |-> 2, units |-> 2, apids |-> {0}]

\* The router fills and empties in every order, with a packet at any time.
Routing == [starts |-> 1, units |-> 1, apids |-> Apids]

InputScenarios == {Restarts, Routing}

===============================================================================

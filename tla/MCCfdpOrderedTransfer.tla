------------------------- MODULE MCCfdpOrderedTransfer -------------------------
(***************************************************************************)
(* The scenarios in which TLC explores CfdpOrderedTransfer.                  *)
(***************************************************************************)
EXTENDS CfdpOrderedTransfer

\* An acknowledged transfer that loses three PDUs, in any order.
Lossy == [modes |-> {"ack"}, closures |-> {FALSE}, sizes |-> {1}, puts |-> 1, losses |-> 3,
          dups |-> 0, damages |-> 0, faults |-> 0, timely |-> FALSE, ordered |-> FALSE, rounds |-> 1]

\* Acknowledged transfers of up to four segments that lose PDUs and keep the order.
Recovery == [Lossy EXCEPT !.sizes = 1..4, !.losses = 4, !.timely = TRUE, !.ordered = TRUE,
                           !.rounds = 4]

LiveScenarios == {Lossy, Recovery}

================================================================================

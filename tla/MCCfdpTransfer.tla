---------------------------- MODULE MCCfdpTransfer ----------------------------
(***************************************************************************)
(* The scenarios in which TLC explores CfdpTransfer: what is put, and what   *)
(* the link and the callbacks may do to it.                                  *)
(***************************************************************************)
EXTENDS CfdpTransfer

Calm == [modes |-> {"ack"}, closures |-> {FALSE}, sizes |-> {2}, puts |-> 1,
         losses |-> 0, dups |-> 0, damages |-> 0, faults |-> 0, timely |-> FALSE,
         ordered |-> FALSE, rounds |-> 1]

\* A transfer with a PDU damaged, a callback failing, or both. (A PDU may be
\* delivered after everything is over, which is as good as lost.)
Damaged == [Calm EXCEPT !.modes = {"unack"}, !.damages = 1]
Faulty  == [Calm EXCEPT !.faults = 1]
Both    == [Calm EXCEPT !.modes = {"ack", "unack"}, !.sizes = {1}, !.damages = 1,
                        !.faults = 1]

\* Two unacknowledged transfers that compete for the receiver slot.
Two == [Calm EXCEPT !.modes = {"unack"}, !.closures = BOOLEAN, !.sizes = {1, 2},
                    !.puts = 2, !.faults = 1]

\* PDUs delivered twice, in both modes, empty files included.
Twice == [Calm EXCEPT !.modes = {"ack", "unack"}, !.closures = {TRUE}, !.sizes = {0, 1},
                      !.dups = 2]

\* A transfer of the first sort over a link that only reorders.
Reordered == [Calm EXCEPT !.closures = {TRUE}]

SafetyScenarios    == {Damaged, Faulty, Both, Two, Twice}
LateDataScenarios  == {Reordered}

===============================================================================

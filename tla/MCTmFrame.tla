------------------------------- MODULE MCTmFrame -------------------------------
(***************************************************************************)
(* The scenarios in which TLC explores TmFrame.                              *)
(***************************************************************************)
EXTENDS TmFrame

\* Two threads add packets, one of which fills the queue, and give up after a time.
Crowded == [writers |-> {"w1", "w2"}, lens |-> {3, 7}, timeouts |-> {"finite"},
            mayFail |-> FALSE, packets |-> 3, toggles |-> 1]

\* Frame security fails at times, and additions wait for ever.
Secured == [Crowded EXCEPT !.writers = {"w1"}, !.timeouts = {"forever"}, !.mayFail = TRUE,
                           !.packets = 2]

\* The generator is stopped and started again; the queue never fills.
Restarted == [Crowded EXCEPT !.lens = {3}, !.timeouts = {"forever"}, !.packets = 2,
                             !.toggles = 5]

\* The smallest scenarios in which the generator is cut off.
Blocked == [Secured EXCEPT !.mayFail = FALSE]
Toggled == [Restarted EXCEPT !.packets = 0, !.toggles = 3]

GeneratorScenarios == {Crowded, Secured, Restarted}
BlockedScenarios   == {Blocked}
RestartScenarios   == {Toggled}

===============================================================================

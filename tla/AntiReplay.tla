------------------------------ MODULE AntiReplay ------------------------------
(***************************************************************************)
(* What the anti-replay check of SDLS promises: between two renewals of a       *)
(* security association, the sequence numbers it accepts grow, so none is       *)
(* accepted twice.                                                           *)
(***************************************************************************)
EXTENDS Naturals, Sequences

CONSTANTS Sas, Numbers
VARIABLE accepted              \* the numbers accepted since the last renewal

Init == accepted = [s \in Sas |-> << >>]

Newer(seq, n) == seq = << >> \/ seq[Len(seq)] < n

Accept(s, n) ==
    /\ Newer(accepted[s], n)
    /\ accepted' = [accepted EXCEPT ![s] = Append(@, n)]

Renew(s) == accepted' = [accepted EXCEPT ![s] = << >>]

Next == \E s \in Sas : Renew(s) \/ \E n \in Numbers : Accept(s, n)

Spec == Init /\ [][Next]_accepted

===============================================================================

----------------------------- MODULE FileDelivery -----------------------------
(***************************************************************************)
(* What the CFDP entity promises the user of ccsds_cfdp_entity_send_file     *)
(* about acknowledged transfers, with no PDU, slot, range or retry in sight:  *)
(* every put request is answered by one event, COMPLETE only if the file is   *)
(* in the destination filestore by then, and nothing is stored that was not  *)
(* put.  A FAILED transfer promises nothing about the destination.            *)
(***************************************************************************)
CONSTANT Ids                   \* transaction sequence numbers

VARIABLES verdict,             \* what the user knows of each transaction
          stored               \* transactions whose file has been committed

vars == << verdict, stored >>

Init == verdict = [id \in Ids |-> "none"] /\ stored = {}

\* A put request: accepted, or over at once (a callback failed, or the transfer
\* is unacknowledged and all that can be reported is that it was sent).
Put(id, v) ==
    /\ verdict[id] # "pending" /\ v \in {"pending", "failed", "sent"}
    /\ verdict' = [verdict EXCEPT ![id] = v] /\ UNCHANGED stored

Store(id) ==
    /\ verdict[id] # "none"
    /\ stored' = stored \cup {id} /\ UNCHANGED verdict

Complete(id) ==
    /\ verdict[id] = "pending" /\ id \in stored
    /\ verdict' = [verdict EXCEPT ![id] = "complete"] /\ UNCHANGED stored

Fail(id) ==
    /\ verdict[id] = "pending"
    /\ verdict' = [verdict EXCEPT ![id] = "failed"] /\ UNCHANGED stored

Next == \E id \in Ids : \/ \E v \in {"pending", "failed", "sent"} : Put(id, v)
                        \/ Store(id) \/ Complete(id) \/ Fail(id)

Safety == Init /\ [][Next]_vars

\* The user is not left waiting.
Spec == /\ Safety
        /\ \A id \in Ids : WF_vars(Complete(id) \/ Fail(id))

===============================================================================

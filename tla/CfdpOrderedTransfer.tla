-------------------------- MODULE CfdpOrderedTransfer --------------------------
(***************************************************************************)
(* The same two entities with a second kind of link beside the first: in an   *)
(* ordered scenario it keeps the order of the PDUs, as a space link does, and *)
(* only loses some. `queue' then lists the PDUs of `net' in the order they    *)
(* were sent.                                                               *)
(***************************************************************************)
EXTENDS CfdpTransfer

VARIABLE queue

orderedVars == << vars, queue >>

\* The order in which one call of an entity sends its PDUs.
SendRank(p) ==
    CASE p.type = "METADATA" -> 0
      [] p.type = "FILEDATA" -> 1 + p.off
      [] p.type = "EOF"      -> 1 + p.size
      [] p.type = "ACK"      -> 0
      [] OTHER               -> 1

\* The PDUs a step sent, in order, when it consumed those of `in'.
SentBy(in) ==
    LET left == net (-) SetToBag(in)
    IN  SetToSortSeq({p \in BagToSet(net') : CopiesIn(p, net') > CopiesIn(p, left)},
                     LAMBDA p, q : SendRank(p) < SendRank(q))

\* A step that leaves the PDUs of q in flight and consumes those of `in'.
Enqueue(q, in) == queue' = IF limit.ordered THEN q \o SentBy(in) ELSE << >>

\* Position i holds the oldest PDU in flight of its direction.
IsOldest(i) == \A j \in 1..(i - 1) : queue[j].to # queue[i].to

OrderedDeliver(i) == /\ IsOldest(i) /\ Deliver(queue[i])
                     /\ Enqueue(RemoveAt(queue, i), {queue[i]})

OrderedLose(i) == /\ Lose(queue[i]) /\ UNCHANGED << rxVars, txVars, limit >>
                  /\ queue' = RemoveAt(queue, i)

UnorderedLink(p) == ~limit.ordered /\ (Deliver(p) \/ Misbehave(p)) /\ UNCHANGED queue

OrderedInit == Init /\ queue = << >>

OrderedNext == \/ Put /\ Enqueue(queue, {})
               \/ \E p \in InFlight : UnorderedLink(p)
               \/ \E i \in 1..Len(queue) : OrderedDeliver(i) \/ OrderedLose(i)
               \/ Poll /\ Enqueue(queue, {})

OrderedSpec == OrderedInit /\ [][OrderedNext]_orderedVars /\ Fairness

-------------------------------------------------------------------------------
(* Properties *)

\* The receiver has taken the Metadata of the transfer, and nothing else yet.
MetadataTakenFirst ==
    /\ tx.active /\ rx.active /\ rx.id = tx.id /\ rx.ranges = << >> /\ ~rx.eof
    /\ InFlight = {FileDataPdu(tx.id, u, tx.id) : u \in 0..(tx.size - 1)}
                  \cup {EofPdu(tx.id, tx.size, SourceFile(tx.id, tx.size))}

\* From there on, as many lost PDUs as there are rounds cost an acknowledged transfer
\* nothing: it ends COMPLETE (and is then committed, CompleteIsCommitted) within
\* the configured rounds, provided the link keeps the order and deadlines are
\* longer than the round trip.
LossesRecovered ==
    (/\ limit.ordered /\ limit.timely /\ MetadataTakenFirst
     /\ limit.losses - spent.losses <= MaxNakRounds)
        ~> \E i \in 1..Len(txEvents) : txEvents[i].status = "OK"

===============================================================================

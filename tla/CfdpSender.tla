------------------------------ MODULE CfdpSender ------------------------------
(***************************************************************************)
(* The sending side of a CFDP entity (src/ccsds_cfdp_entity.c): the sender   *)
(* slot, ccsds_cfdp_entity_send_file, and the handlers of the PDUs sent      *)
(* toward the sender.  Over a transport that only queues, send_file returns  *)
(* before any answer arrives: the slot outlives it in acknowledged mode only. *)
(***************************************************************************)
EXTENDS CfdpLink

CONSTANT HasClock              \* ut.now_ms is supplied

ASSUME SenderAssumption == HasClock \in BOOLEAN

VARIABLES tx,                  \* entity->sender
          nextSeq,             \* entity->next_transaction_sequence_number
          txEvents             \* COMPLETE/FAILED events emitted, in order

txVars == << tx, nextSeq, txEvents >>

\* A released slot: memset(&entity->sender, 0, ...).
NoTxSlot == [active |-> FALSE, id |-> 0, size |-> 0, nakRetry |-> 0, retry |-> 0]

TxInit == tx = NoTxSlot /\ nextSeq = 0 /\ txEvents = << >>

\* release_sender_terminal, and sender_fail (both close the source handle)
TxRelease(id, mode, st) ==
    /\ txEvents' = Append(txEvents, [id |-> id, mode |-> mode, status |-> st])
    /\ tx' = NoTxSlot

\* The PDUs of a transfer, in the order send_file sends them.
TransferPdus(id, mode, closure, size) ==
    << MetadataPdu(id, mode, closure, size) >>
    \o [u \in 1..size |-> FileDataPdu(id, u - 1, id)]
    \o << EofPdu(id, size, SourceFile(id, size)) >>

\* What a failing callback makes of a transfer: send_pdu, then open_read or
\* read, then a read of an impossible length.
CallbackErrors == {"INVALID", "FILESTORE", "SIZE"}

FirstPdus(pdus, k) == {pdus[i] : i \in 1..k}

\* ccsds_cfdp_entity_create_sender_transaction: the next sequence number.
AdvanceSeq == nextSeq' = (nextSeq + 1) % SeqModulus

\* ccsds_cfdp_entity_send_file, all callbacks succeeding. In acknowledged mode
\* the slot stays active; otherwise a requested closure has not come by then,
\* which is reported as inactivity when there is a clock.
SendFile(mode, closure, size) ==
    /\ ~tx.active /\ Len(txEvents) < limit.puts
    /\ AdvanceSeq
    /\ LET pdus == TransferPdus(nextSeq, mode, closure, size)
       IN  Exchange({}, FirstPdus(pdus, Len(pdus)))
    /\ IF mode = "ack"
         THEN /\ tx' = [NoTxSlot EXCEPT !.active = TRUE, !.id = nextSeq, !.size = size]
              /\ UNCHANGED txEvents
         ELSE TxRelease(nextSeq, mode, IF closure /\ HasClock THEN "INACTIVITY" ELSE "OK")
    /\ UNCHANGED spent

\* ccsds_cfdp_entity_send_file when open_read, a read or send_pdu fails after k
\* PDUs went out.
SendFileFails(mode, closure, size) ==
    /\ ~tx.active /\ Len(txEvents) < limit.puts
    /\ AdvanceSeq
    /\ LET pdus == TransferPdus(nextSeq, mode, closure, size)
       IN  \E k \in 0..(Len(pdus) - 1) : Exchange({}, FirstPdus(pdus, k))
    /\ \E st \in CallbackErrors : TxRelease(nextSeq, mode, st)
    /\ SpendFault({"callback"})

\* The PDU is not of the active transaction: an error, and nothing changes.
TxIgnores(p) == ~tx.active \/ tx.id # p.id

\* Mutant: a condition code that is not recognised counts as success.
HandleFinishedTrusting(p) ==
    LET st == IF p.cond \in {"CHECKSUM", "SIZE", "FILESTORE"} THEN p.cond ELSE "OK"
    IN  \/ /\ Exchange({p}, {AckFinishedPdu(p.id)})
           /\ TxRelease(tx.id, "ack", st) /\ UNCHANGED spent
        \/ /\ Exchange({p}, {}) /\ TxRelease(tx.id, "ack", "INVALID")
           /\ SpendFault({"send"})

\* sender_handle_finished: acknowledge, then end with the receiver's verdict.
HandleFinished(p) ==
    LET st == IF p.cond \in {"OK", "CHECKSUM", "SIZE", "FILESTORE"} THEN p.cond ELSE "CANCEL"
    IN  \/ /\ Exchange({p}, {AckFinishedPdu(p.id)})
           /\ TxRelease(tx.id, "ack", st) /\ UNCHANGED spent
        \/ /\ Exchange({p}, {}) /\ TxRelease(tx.id, "ack", "INVALID")
           /\ SpendFault({"send"})

\* The File Data PDUs and the EOF that answer a NAK, in ascending order.
RetransmitPdus(p) ==
    LET units == {u \in 0..(tx.size - 1) :
                    \E i \in 1..Len(p.ranges) :
                        p.ranges[i].start <= u /\ u < p.ranges[i].end}
    IN  {FileDataPdu(tx.id, u, tx.id) : u \in units}
        \cup {EofPdu(tx.id, tx.size, SourceFile(tx.id, tx.size))}

\* sender_handle_nak: one more round of retransmission, or the end.
HandleNak(p) ==
    \/ /\ tx.nakRetry + 1 > MaxNakRounds \/ p.size # tx.size
       /\ Exchange({p}, {})
       /\ TxRelease(tx.id, "ack", IF tx.nakRetry + 1 > MaxNakRounds THEN "NAK_LIMIT" ELSE "SIZE")
       /\ UNCHANGED spent
    \/ /\ tx.nakRetry + 1 <= MaxNakRounds
       /\ p.size = tx.size
       /\ Exchange({p}, RetransmitPdus(p))
       /\ tx' = [tx EXCEPT !.nakRetry = @ + 1]
       /\ UNCHANGED << txEvents, spent >>
    \/ /\ tx.nakRetry + 1 <= MaxNakRounds
       /\ p.size = tx.size
       /\ \E cut \in 0..tx.size :
            Exchange({p}, {q \in RetransmitPdus(p) : q.type = "FILEDATA" /\ q.off < cut})
       /\ \E st \in CallbackErrors : TxRelease(tx.id, "ack", st)
       /\ SpendFault({"callback"})

\* ccsds_cfdp_entity_receive_pdu, direction toward the sender
SenderReceive(p) ==
    /\ p.to = "sender"
    /\ UNCHANGED nextSeq
    /\ \/ TxIgnores(p) /\ Exchange({p}, {}) /\ UNCHANGED << tx, txEvents, spent >>
       \/ ~TxIgnores(p) /\ p.type = "FINISHED" /\ HandleFinished(p)
       \/ ~TxIgnores(p) /\ p.type = "NAK" /\ HandleNak(p)
       \/ /\ ~TxIgnores(p) /\ p.type = "ACK"                   \* sender_handle_ack
          /\ Exchange({p}, {}) /\ UNCHANGED << tx, txEvents, spent >>
       \/ /\ ~TxIgnores(p) /\ p.type = "GARBLED"
          /\ Exchange({p}, {}) /\ TxRelease(tx.id, "ack", "MALFORMED") /\ UNCHANGED spent

\* Mutant: the sender stops at the limit instead of beyond it.
PollSenderEarly ==
    /\ tx.active
    /\ DeadlinesPass
    /\ UNCHANGED nextSeq
    /\ \/ /\ tx.retry + 1 >= MaxNakRounds
          /\ Exchange({}, {}) /\ TxRelease(tx.id, "ack", "INACTIVITY") /\ UNCHANGED spent
       \/ /\ tx.retry + 1 < MaxNakRounds
          /\ Exchange({}, {EofPdu(tx.id, tx.size, SourceFile(tx.id, tx.size))})
          /\ tx' = [tx EXCEPT !.retry = @ + 1]
          /\ UNCHANGED << txEvents, spent >>

\* Mutant: running out of retries counts as success.
PollSenderOptimist ==
    /\ tx.active
    /\ DeadlinesPass
    /\ UNCHANGED << nextSeq, spent >>
    /\ \/ /\ tx.retry >= MaxNakRounds
          /\ Exchange({}, {}) /\ TxRelease(tx.id, "ack", "OK")
       \/ /\ tx.retry < MaxNakRounds
          /\ Exchange({}, {EofPdu(tx.id, tx.size, SourceFile(tx.id, tx.size))})
          /\ tx' = [tx EXCEPT !.retry = @ + 1] /\ UNCHANGED txEvents

\* ccsds_cfdp_entity_poll, sender part, when the retry deadline has passed
PollSender ==
    /\ tx.active
    /\ DeadlinesPass
    /\ UNCHANGED nextSeq
    /\ \/ /\ tx.retry >= MaxNakRounds
          /\ Exchange({}, {}) /\ TxRelease(tx.id, "ack", "INACTIVITY") /\ UNCHANGED spent
       \/ /\ tx.retry < MaxNakRounds
          /\ Exchange({}, {EofPdu(tx.id, tx.size, SourceFile(tx.id, tx.size))})
          /\ tx' = [tx EXCEPT !.retry = @ + 1]
          /\ UNCHANGED << txEvents, spent >>
       \/ /\ tx.retry < MaxNakRounds
          /\ Exchange({}, {}) /\ TxRelease(tx.id, "ack", "INVALID") /\ SpendFault({"send"})

===============================================================================

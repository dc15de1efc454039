----------------------------- MODULE CfdpTransfer -----------------------------
(***************************************************************************)
(* File transfer between two CFDP entities: the sender slot of one, the      *)
(* receiver slot of the other, and the link between them.  The slots of an    *)
(* entity share no state, so one of each is enough for the two directions.    *)
(***************************************************************************)
EXTENDS CfdpSender, CfdpReceiver

vars == << linkVars, rx, fs, rxEvents, commits, tx, nextSeq, txEvents >>

Init == LinkInit /\ TxInit /\ RxInit

Put == /\ \E mode \in limit.modes, closure \in limit.closures, size \in limit.sizes :
             SendFile(mode, closure, size) \/ SendFileFails(mode, closure, size)
       /\ UNCHANGED << rxVars, limit >>

Deliver(p) == \/ ReceiverReceive(p) /\ UNCHANGED << txVars, limit >>
              \/ SenderReceive(p) /\ UNCHANGED << rxVars, limit >>

Misbehave(p) == LinkStep(p) /\ UNCHANGED << rxVars, txVars, limit >>

Poll == \/ PollReceiver /\ UNCHANGED << txVars, limit >>
        \/ PollSender /\ UNCHANGED << rxVars, limit >>

Next == \/ Put
        \/ \E p \in InFlight : Deliver(p) \/ Misbehave(p)
        \/ Poll

Spec == Init /\ [][Next]_vars

\* Weak fairness of the three activities, with the predicates that enable them
\* written out: the application polls both entities often enough to serve every
\* deadline (doc/user-guide/cfdp.md asks for it), and the link delivers what it
\* does not lose.
Fairness ==
    /\ []<>~(DeadlinesPass /\ (rx.recovery \/ rx.waiting)) \/ []<><< PollReceiver >>_vars
    /\ []<>~(DeadlinesPass /\ tx.active) \/ []<><< PollSender >>_vars
    /\ []<>(InFlight = {}) \/ []<><< \E p \in InFlight : Deliver(p) >>_vars

FairSpec == Spec /\ Fairness

-------------------------------------------------------------------------------
(* Properties *)

Statuses == {"OK", "INVALID", "BUFFER", "MALFORMED", "CHECKSUM", "SIZE", "INACTIVITY",
             "NAK_LIMIT", "CANCEL", "FILESTORE", "BUSY"}

\* Type invariant
TypeOK ==
    /\ tx \in [active: BOOLEAN, id: Ids, size: limit.sizes \cup {0},
               nakRetry: 0..MaxNakRounds, retry: 0..MaxNakRounds]
    /\ nextSeq \in Ids
    /\ rx.active \in BOOLEAN /\ rx.id \in Ids /\ rx.mode \in {"ack", "unack"}
    /\ rx.retry \in 0..MaxNakRounds /\ rx.finished \in Statuses
    /\ rx.ranges \in Seq(Range32) /\ Len(rx.ranges) <= MaxNakRanges
    /\ \A i \in 1..Len(rxEvents) : rxEvents[i].status \in Statuses
    /\ \A i \in 1..Len(txEvents) : txEvents[i].status \in Statuses
    /\ limit \in Scenarios
    /\ spent \in [losses: 0..limit.losses, dups: 0..limit.dups,
                  damages: 0..limit.damages, faults: 0..limit.faults]

Committed(id) == \E i \in 1..Len(commits) : commits[i][1] = id

\* Whatever the link loses, repeats, reorders or damages and whichever callback
\* fails, a committed file is the file the sender read, whole: commit_tmp is
\* called only on a temporary file that verified against the checksum of the EOF.
CommittedIsIntact ==
    \A i \in 1..Len(commits) :
        \E n \in limit.sizes : commits[i][2] = SourceFile(commits[i][1], n)

\* An acknowledged transfer the sender reports COMPLETE is in the receiver's
\* filestore: the receiver commits before it sends Finished(no error), and no
\* other path of the sender ends with OK.
CompleteIsCommitted ==
    \A i \in 1..Len(txEvents) :
        txEvents[i].status = "OK" /\ txEvents[i].mode = "ack" => Committed(txEvents[i].id)

\* receiver_handle_ack releases whatever the slot holds, with the status last told
\* to the sender, OK if none was: a duplicated Metadata and the ACK(Finished) of the
\* transfer that has ended report COMPLETE of a file that is open and empty. So the
\* next three are asked of a link that has not duplicated a PDU.
NothingRepeated == spent.dups = 0

\* A transfer the receiver reports COMPLETE was committed: recovery that is given
\* up, a failed commit or a refused Finished never end in COMPLETE.
ReceiverCompleteIsCommitted ==
    NothingRepeated =>
        \A i \in 1..Len(rxEvents) : rxEvents[i].status = "OK" => Committed(rxEvents[i].id)

\* A released receiver slot leaves no open temporary-file handle behind, on any of
\* the paths that release it.
NoHandleLeak == NothingRepeated /\ fs.open => rx.active /\ rx.handleOpen

\* The slots are sound: their counters and arrays keep their limits, and the
\* receiver's filestore handle is not lost.
SlotInv == TypeOK /\ NoHandleLeak

\* Each side reports a transaction at most once (COMPLETE or FAILED).
Once(events) == \A i, j \in 1..Len(events) : events[i].id = events[j].id => i = j
OneVerdictEach == Once(txEvents) /\ (NothingRepeated => Once(rxEvents))

\* The receiver slot passes to another transaction only by being released: no PDU of
\* another transaction, however late, takes it over.
SlotNotStolen == [][rx.active /\ rx'.active => rx'.id = rx.id]_vars

\* The filestore is never asked to write through a handle that is not open
\* (receive_write of the entity tests asserts it).
WritesAreOpen == ~fs.nullWrite

\* What the user of the sending entity has been told of transaction id.
Verdict(id) ==
    LET told == {i \in 1..Len(txEvents) : txEvents[i].id = id}
        last == txEvents[Max(told)]
    IN  IF tx.active /\ tx.id = id THEN "pending"
        ELSE IF told = {} THEN "none"
        ELSE IF last.status # "OK" THEN "failed"
        ELSE IF last.mode = "ack" THEN "complete" ELSE "sent"

Delivery == INSTANCE FileDelivery
    WITH verdict <- [id \in Ids |-> Verdict(id)],
         stored  <- {commits[i][1] : i \in 1..Len(commits)}

\* The two entities implement the service of FileDelivery: whatever the link and
\* the callbacks do, every accepted put request is answered (bounded retries end
\* every sender transaction), COMPLETE is only reported of a file the receiver
\* has committed, and what is committed was put.
DeliversFiles == Delivery!Spec

\* Once recovery has begun, or Finished awaits its ACK, bounded retries release
\* the receiver slot whatever the link does.
RecoveryReleased == (rx.recovery \/ rx.waiting) ~> ~rx.active

===============================================================================

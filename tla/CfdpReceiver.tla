----------------------------- MODULE CfdpReceiver -----------------------------
(***************************************************************************)
(* The receiving side of a CFDP entity (src/ccsds_cfdp_entity.c): the       *)
(* receiver slot, the temporary file it writes through the filestore        *)
(* callbacks, and the handlers of the PDUs sent toward the receiver.        *)
(*                                                                         *)
(* A call of the entity runs to completion before the next one (the entity  *)
(* creates no thread and its user serialises access), so each is one step.  *)
(* The handlers are operators on a record m, the state of the call:         *)
(*   slot     entity->receiver             fs       the filestore           *)
(*   out      PDUs handed to send_pdu      events   terminal events so far  *)
(*   commits  history: files committed     st       status being returned   *)
(* `f' is the set of callbacks that fail during the call.                   *)
(***************************************************************************)
EXTENDS CfdpLink, CfdpRanges

VARIABLES rx,                  \* entity->receiver
          fs,                  \* the temporary file: exists, open, content
          rxEvents,            \* COMPLETE/FAILED events emitted, in order
          commits              \* history: <<id, content>> of each commit

rxVars == << rx, fs, rxEvents, commits >>

\* A released slot: memset(&entity->receiver, 0, ...).
NoRxSlot ==
    [active |-> FALSE, id |-> 0, mode |-> "unack", closure |-> FALSE, size |-> 0,
     handleOpen |-> FALSE, ranges |-> << >>, eof |-> FALSE, cksum |-> << >>,
     recovery |-> FALSE, waiting |-> FALSE, retry |-> 0, finished |-> "OK"]

\* The temporary file as the application's filestore keeps it; `nullWrite'
\* records a write through a handle that is not open.
NoTmp == [exists |-> FALSE, open |-> FALSE, tmp |-> << >>, nullWrite |-> FALSE]

RxInit == rx = NoRxSlot /\ fs = NoTmp /\ rxEvents = << >> /\ commits = << >>

Call == [slot |-> rx, fs |-> fs, out |-> {}, events |-> rxEvents,
         commits |-> commits, st |-> "OK"]

Returning(m, st) == [m EXCEPT !.st = st]

-------------------------------------------------------------------------------
(* Terminating a transaction *)

\* Mutant: the event is emitted, the slot is not released.
ReleaseTerminalKeepsSlot(m, st) ==
    [m EXCEPT !.events = Append(@, [id |-> m.slot.id, status |-> st])]

\* release_receiver_terminal: the event, then the release of the slot.
ReleaseTerminal(m, st) ==
    [m EXCEPT !.events = Append(@, [id |-> m.slot.id, status |-> st]),
              !.slot = NoRxSlot]

\* close_discard_receiver
CloseDiscard(m) ==
    [m EXCEPT !.fs.open = @ /\ ~m.slot.handleOpen, !.slot.handleOpen = FALSE,
              !.fs.exists = FALSE, !.fs.tmp = << >>]

\* Mutant: the temporary file is neither closed nor discarded.
FailActiveLeaks(m) == ReleaseTerminal(m, m.st)

\* fail_receiver_active_transaction
FailActive(m) ==
    ReleaseTerminal(IF m.slot.waiting THEN m ELSE CloseDiscard(m), m.st)

\* The end of ccsds_cfdp_entity_receive_pdu: an error returned for a PDU of the
\* active transaction ends that transaction.
EndReceive(m, id) ==
    IF m.st # "OK" /\ m.slot.active /\ m.slot.id = id THEN FailActive(m) ELSE m

\* finished_condition_from_status
FinishedCondition(st) ==
    IF st \in {"OK", "FILESTORE", "CHECKSUM", "SIZE", "NAK_LIMIT"} THEN st ELSE "CANCEL"

\* send_finished_for_receiver_status
SendFinished(m, st, f) ==
    IF "finished" \in f THEN Returning(m, "INVALID")
    ELSE [m EXCEPT !.out = @ \cup {FinishedPdu(m.slot.id, FinishedCondition(st))},
                   !.st = "OK"]

\* receiver_finish, first half: close, then commit or discard.
CloseAndStore(m, f) ==
    LET closed == IF m.st = "OK" /\ m.slot.handleOpen /\ "close" \in f
                    THEN "FILESTORE" ELSE m.st
        st     == IF closed = "OK" /\ ("commit" \in f \/ ~m.fs.exists)
                    THEN "FILESTORE" ELSE closed
        kept   == closed = "OK" /\ st # "OK"
    IN  [m EXCEPT !.st = st,
                  !.fs.open = @ /\ ~m.slot.handleOpen, !.slot.handleOpen = FALSE,
                  !.fs.exists = @ /\ kept,
                  !.fs.tmp = IF kept THEN @ ELSE << >>,
                  !.commits = IF st = "OK"
                                THEN Append(@, << m.slot.id, m.fs.tmp >>) ELSE @]

\* receiver_finish, second half: Finished, then wait for its ACK or release.
Finish(m, f) ==
    LET stored == CloseAndStore(m, f)
        st     == stored.st
        told   == IF m.slot.closure
                    THEN SendFinished([stored EXCEPT !.slot.finished = st], st, f)
                    ELSE Returning(stored, "OK")
        result == IF st = "OK" THEN told.st ELSE st
    IN  IF m.slot.mode = "ack" /\ told.st = "OK"
          THEN [told EXCEPT !.st = st, !.slot.recovery = FALSE,
                            !.slot.waiting = TRUE, !.slot.retry = 0]
        ELSE Returning(ReleaseTerminal(told, IF m.slot.mode = "ack" THEN told.st ELSE result),
                       result)

-------------------------------------------------------------------------------
(* Handlers of the PDUs *)

\* Mutant: Metadata takes the slot whether or not it is free.
HandleMetadataSteals(m, p, f) ==
    [m EXCEPT
       !.slot = [NoRxSlot EXCEPT !.active = TRUE, !.id = p.id, !.mode = p.mode,
                   !.size = p.size, !.handleOpen = TRUE,
                   !.closure = p.closure \/ p.mode = "ack"],
       !.fs = [@ EXCEPT !.exists = TRUE, !.open = TRUE,
                        !.tmp = [u \in 0..(p.size - 1) |-> Hole]]]

\* receiver_handle_metadata: opens the temporary file and takes the slot.
HandleMetadata(m, p, f) ==
    IF m.slot.active
      THEN Returning(m, IF m.slot.id # p.id THEN "BUSY" ELSE "INVALID")
    ELSE IF "open" \in f
      THEN Returning([m EXCEPT !.events = Append(@, [id |-> p.id, status |-> "FILESTORE"])],
                     "FILESTORE")
    ELSE [m EXCEPT
            !.slot = [NoRxSlot EXCEPT !.active = TRUE, !.id = p.id, !.mode = p.mode,
                        !.size = p.size, !.handleOpen = TRUE,
                        !.closure = p.closure \/ p.mode = "ack"],
            !.fs = [@ EXCEPT !.exists = TRUE, !.open = TRUE,
                             !.tmp = [u \in 0..(p.size - 1) |-> Hole]]]

\* receiver_match_active
MatchActive(m, id) ==
    IF ~m.slot.active THEN "INVALID"
    ELSE IF m.slot.id # id THEN "BUSY" ELSE "OK"

\* Mutant: the checksum is computed and not compared.
VerifyCompleteFileBlind(m, cksum, f) ==
    Returning(m, IF "read" \in f THEN "FILESTORE"
                 ELSE IF "shortRead" \in f THEN "SIZE" ELSE "OK")

\* receiver_verify_complete_file: reread the temporary file and compare.
VerifyCompleteFile(m, cksum, f) ==
    Returning(m, IF "read" \in f THEN "FILESTORE"
                 ELSE IF "shortRead" \in f THEN "SIZE"
                 ELSE IF m.fs.tmp # cksum THEN "CHECKSUM" ELSE "OK")

\* The file is complete: verify it, then finish with the outcome. The
\* completeness test itself is an error for an empty file.
FinishIfComplete(m, cksum, f, incomplete) ==
    IF ~RangeIsValid(0, m.slot.size) THEN Finish(Returning(m, "INVALID"), f)
    ELSE IF RangesIsComplete(m.slot.ranges, 0, m.slot.size)
      THEN Finish(VerifyCompleteFile(m, cksum, f), f)
    ELSE incomplete

\* receiver_handle_filedata after the write: note the range, and finish when it
\* was the last one missing after an EOF.
NoteRange(m, p, f) ==
    LET added == RangesAdd(m.slot.ranges, p.off, p.off + 1)
        noted == [m EXCEPT !.slot.ranges = added.ranges]
    IN  IF added.status # "OK" THEN Returning(m, added.status)
        ELSE IF m.slot.eof /\ m.slot.mode = "ack"
          THEN FinishIfComplete(noted, m.slot.cksum, f, noted)
        ELSE noted

\* receiver_handle_filedata. A write needs the handle metadata opened; once the
\* file is finished the slot holds NULL in its place, and the write is refused.
HandleFileData(m, p, f) ==
    LET match == MatchActive(m, p.id)
    IN  IF match # "OK" THEN Returning(m, match)
        ELSE IF p.off + 1 > m.slot.size THEN Returning(m, "SIZE")
        ELSE IF ~m.slot.handleOpen
          THEN [m EXCEPT !.st = "FILESTORE", !.fs.nullWrite = TRUE]
        ELSE IF "write" \in f THEN Returning(m, "FILESTORE")
        ELSE NoteRange([m EXCEPT !.fs.tmp[p.off] = p.data], p, f)

\* send_nak_for_missing_ranges
SendNak(m, f) ==
    LET missing == RangesMissing(m.slot.ranges, 0, m.slot.size)
    IN  IF missing.status = "BUFFER" THEN Returning(m, "NAK_LIMIT")
        ELSE IF missing.status # "OK" THEN Returning(m, missing.status)
        ELSE IF "nak" \in f THEN Returning(m, "INVALID")
        ELSE [m EXCEPT !.out = @ \cup {NakPdu(m.slot.id, m.slot.size, missing.ranges)}]

\* receiver_handle_eof when data is missing: ask for it, or give up.
EofIncomplete(m, f) ==
    LET nak == SendNak([m EXCEPT !.slot.eof = TRUE], f)
    IN  IF m.slot.mode # "ack" THEN Finish(Returning(m, "SIZE"), f)
        ELSE IF nak.st # "OK" THEN Finish(nak, f)
        ELSE [nak EXCEPT !.slot.recovery = TRUE, !.slot.retry = 0]

\* receiver_handle_eof
HandleEof(m, p, f) ==
    LET match == MatchActive(m, p.id)
        noted == [m EXCEPT !.slot.cksum = p.cksum]
        acked == IF m.slot.mode = "ack" /\ "ack" \notin f
                   THEN [noted EXCEPT !.out = @ \cup {AckEofPdu(p.id)}] ELSE noted
    IN  IF match # "OK" THEN Returning(m, match)
        ELSE IF m.slot.waiting THEN SendFinished(m, m.slot.finished, f)
        ELSE IF p.size # m.slot.size THEN Finish(Returning(acked, "SIZE"), f)
        ELSE IF m.slot.mode = "ack" /\ "ack" \in f THEN Returning(noted, "INVALID")
        ELSE FinishIfComplete(acked, p.cksum, f, EofIncomplete(acked, f))

\* receiver_handle_ack: ACK(Finished) of the active transaction releases it,
\* with the status last told to the sender (OK in a slot that told nothing).
HandleAck(m, p) ==
    IF ~m.slot.active \/ m.slot.id # p.id THEN Returning(m, "INVALID")
    ELSE ReleaseTerminal(m, m.slot.finished)

\* ccsds_cfdp_entity_receive_pdu, direction toward the receiver
Handle(m, p, f) ==
    CASE p.type = "METADATA" -> HandleMetadata(m, p, f)
      [] p.type = "FILEDATA" -> HandleFileData(m, p, f)
      [] p.type = "EOF"      -> HandleEof(m, p, f)
      [] p.type = "ACK"      -> HandleAck(m, p)
      [] p.type = "GARBLED"  -> Returning(m, "MALFORMED")

\* The callbacks a handler may call.
Callbacks(p) ==
    CASE p.type = "METADATA" -> {"open"}
      [] p.type = "FILEDATA" -> {"write", "read", "shortRead", "close", "commit", "finished"}
      [] p.type = "EOF"      -> {"ack", "nak", "read", "shortRead", "close", "commit", "finished"}
      [] OTHER               -> {}

\* The effect of a call on the receiver's variables.
Become(m) ==
    rx' = m.slot /\ fs' = m.fs /\ rxEvents' = m.events /\ commits' = m.commits

ReceiverReceive(p) ==
    /\ p.to = "receiver"
    /\ \E f \in OneFaultOf(Callbacks(p)) :
         \E h \in {Handle(Call, p, f)} : \E m \in {EndReceive(h, p.id)} :
           SpendFault(f) /\ Exchange({p}, m.out) /\ Become(m)

-------------------------------------------------------------------------------
(* ccsds_cfdp_entity_poll, receiver part, when the retry deadline has passed *)

\* Mutant: giving up is reported as success.
PollRecoveryOptimist(m, f) ==
    LET nak == SendNak(m, f)
    IN  IF m.slot.retry >= MaxNakRounds THEN ReleaseTerminal(CloseDiscard(m), "OK")
        ELSE IF nak.st = "OK" THEN [nak EXCEPT !.slot.retry = @ + 1]
        ELSE ReleaseTerminal(CloseDiscard(m), nak.st)

\* Mutant: rounds are not counted.
PollRecoveryForever(m, f) ==
    LET nak == SendNak(m, f)
    IN  IF nak.st = "OK" THEN nak ELSE ReleaseTerminal(CloseDiscard(m), nak.st)

\* Data is still missing: ask again, or give up after MaxNakRounds rounds.
PollRecovery(m, f) ==
    LET nak == SendNak(m, f)
    IN  IF m.slot.retry >= MaxNakRounds THEN ReleaseTerminal(CloseDiscard(m), "INACTIVITY")
        ELSE IF nak.st = "OK" THEN [nak EXCEPT !.slot.retry = @ + 1]
        ELSE ReleaseTerminal(CloseDiscard(m), nak.st)

\* Finished is not acknowledged: send it again, or give up.
PollWaiting(m, f) ==
    LET told == SendFinished(m, m.slot.finished, f)
    IN  IF m.slot.retry >= MaxNakRounds THEN ReleaseTerminal(m, "INACTIVITY")
        ELSE IF told.st = "OK" THEN [told EXCEPT !.slot.retry = @ + 1]
        ELSE ReleaseTerminal(m, told.st)

PollReceiver ==
    /\ rx.active /\ rx.mode = "ack" /\ (rx.recovery \/ rx.waiting)
    /\ DeadlinesPass
    /\ \E f \in OneFaultOf({"nak", "finished"}) :
         \E m \in {IF rx.recovery THEN PollRecovery(Call, f) ELSE PollWaiting(Call, f)} :
           SpendFault(f) /\ Exchange({}, m.out) /\ Become(m)

===============================================================================

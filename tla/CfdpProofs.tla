------------------------------ MODULE CfdpProofs ------------------------------
(***************************************************************************)
(* Proofs, for every number of transactions and every bound on losses,       *)
(* duplications, damages, faults and rounds, of the safety of a file transfer *)
(* between two CFDP entities.                                               *)
(*                                                                         *)
(* A call of the receiving entity is a chain of operators on the record m of  *)
(* CfdpReceiver.  Live(m) and Ended(m) say what may be true of that record     *)
(* while the transaction of the slot goes on and once it has been released;   *)
(* a lemma per operator shows that it leads from one to the other, and        *)
(* ReceiveEffect and PollEffect sum up what a whole call can do.              *)
(***************************************************************************)
EXTENDS CfdpTransfer, CfdpRangeLemmas

-------------------------------------------------------------------------------
(* The records *)

\* s has the fields of a receiver slot, m those of a call.
IsSlot(s) ==
    s \in [active: {s.active}, id: {s.id}, mode: {s.mode}, closure: {s.closure},
           size: {s.size}, handleOpen: {s.handleOpen}, ranges: {s.ranges}, eof: {s.eof},
           cksum: {s.cksum}, recovery: {s.recovery}, waiting: {s.waiting},
           retry: {s.retry}, finished: {s.finished}]

IsStore(x) == x \in [exists: {x.exists}, open: {x.open}, tmp: {x.tmp}, nullWrite: {x.nullWrite}]

IsCall(m) ==
    /\ m \in [slot: {m.slot}, fs: {m.fs}, out: {m.out}, events: {m.events},
              commits: {m.commits}, st: {m.st}]
    /\ IsSlot(m.slot) /\ IsStore(m.fs)

\* The files that may be committed, and whether c has one of transaction id.
Intact == {<< id, SourceFile(id, n) >> : id \in Ids, n \in limit.sizes}

Has(c, id) == \E i \in 1..Len(c) : c[i][1] = id

\* What holds of the receiver slot when c has been committed: a success that was
\* told to the sender is a commit.
SlotSound(s, c) ==
    /\ IsSlot(s)
    /\ s.active \/ s = NoRxSlot
    /\ s.active =>
         /\ s.id \in Ids /\ s.size \in limit.sizes
         /\ s.mode = "ack" => s.closure
         /\ s.waiting => ~s.handleOpen /\ (s.finished = "OK" => Has(c, s.id))

\* The checksum noted is that of the file, as long as the file may still be verified
\* against it.
SumGood(s) == s.active /\ s.eof /\ s.handleOpen => s.cksum = SourceFile(s.id, s.size)

\* A PDU the receiver hands to send_pdu.
OutGood(q, c) ==
    /\ q.to = "sender" /\ q.id = rx.id /\ q.type \in {"ACK", "NAK", "FINISHED"}
    /\ q.type = "FINISHED" /\ q.cond = "OK" => Has(c, rx.id)

\* The commits of a call extend those made before it, by files of its own transaction.
CommitsGood(c) ==
    /\ c \in Seq(Intact)
    /\ \A id \in Ids : Has(commits, id) => Has(c, id)
    /\ \A id \in Ids : Has(c, id) => Has(commits, id) \/ id = rx.id

\* An open handle is the one the slot holds, if that was so before the call.
HandleKept(m) == (fs.open => rx.active /\ rx.handleOpen) => (m.fs.open => m.slot.handleOpen)

\* The call goes on with the transaction of the slot.
Running(m) ==
    /\ IsCall(m) /\ SlotSound(m.slot, m.commits) /\ CommitsGood(m.commits) /\ HandleKept(m)
    /\ m.slot.active /\ m.slot.id = rx.id /\ m.events = rxEvents
    /\ rx.waiting => m.slot.waiting
    /\ \A q \in m.out : OutGood(q, m.commits)

\* It may return so: when it has sent Finished, the slot waits for the ACK.
Live(m) == /\ Running(m) /\ SumGood(m.slot)
           /\ \A q \in m.out : q.type = "FINISHED" => m.slot.waiting

\* The call has released the slot.
Ended(m) ==
    /\ IsCall(m) /\ m.slot = NoRxSlot /\ CommitsGood(m.commits) /\ HandleKept(m)
    /\ \E st : /\ m.events = Append(rxEvents, [id |-> rx.id, status |-> st])
               /\ st = "OK" => Has(m.commits, rx.id)
    /\ \A q \in m.out : OutGood(q, m.commits)

-------------------------------------------------------------------------------
(* Terminating a transaction *)

\* An empty slot has the fields of a slot.
LEMMA NoRxSlotIs == IsSlot(NoRxSlot) /\ NoRxSlot.active = FALSE /\ NoRxSlot.handleOpen = FALSE
BY DEF IsSlot, NoRxSlot

\* release_receiver_terminal ends a transaction; a success it reports is a commit,
\* and the handle must have been closed.
LEMMA ReleaseEnds ==
    ASSUME NEW m, Running(m), NEW st, st = "OK" => Has(m.commits, rx.id),
           (fs.open => rx.active /\ rx.handleOpen) => ~m.fs.open
    PROVE  Ended(ReleaseTerminal(m, st))
<1> DEFINE r == ReleaseTerminal(m, st)
<1>1. /\ r.slot = NoRxSlot /\ r.events = Append(rxEvents, [id |-> rx.id, status |-> st])
      /\ r.fs = m.fs /\ r.out = m.out /\ r.commits = m.commits
  BY DEF ReleaseTerminal, Running
<1>2. IsCall(r)
  BY NoRxSlotIs DEF IsCall, ReleaseTerminal, Running
<1> HIDE DEF r
<1>3. HandleKept(r)
  BY <1>1 DEF HandleKept
<1>4. Ended(r)
  BY <1>1, <1>2, <1>3 DEF Running, Ended
<1> QED
  BY <1>4 DEF r

\* close_discard_receiver
LEMMA CloseDiscardKeeps ==
    ASSUME NEW m, Live(m)
    PROVE  /\ Live(CloseDiscard(m)) /\ CloseDiscard(m).st = m.st
           /\ (fs.open => rx.active /\ rx.handleOpen) => ~CloseDiscard(m).fs.open
<1> DEFINE r == CloseDiscard(m)
<1>1. IsCall(m)
  BY DEF Live, Running
<1>2. /\ r.slot = [m.slot EXCEPT !.handleOpen = FALSE]
      /\ r.fs = [m.fs EXCEPT !.open = @ /\ ~m.slot.handleOpen, !.exists = FALSE, !.tmp = << >>]
      /\ r.events = m.events /\ r.out = m.out /\ r.commits = m.commits /\ r.st = m.st
  BY <1>1 DEF CloseDiscard, IsCall, IsSlot, IsStore
<1>3. IsCall(r)
  BY <1>1 DEF CloseDiscard, IsCall, IsSlot, IsStore
<1> HIDE DEF r
<1>4. /\ r.slot.active = m.slot.active /\ r.slot.id = m.slot.id /\ r.slot.mode = m.slot.mode
      /\ r.slot.closure = m.slot.closure /\ r.slot.size = m.slot.size
      /\ r.slot.waiting = m.slot.waiting /\ r.slot.finished = m.slot.finished
      /\ r.slot.handleOpen = FALSE /\ r.fs.open = (m.fs.open /\ ~m.slot.handleOpen)
  BY <1>2
<1>5. SlotSound(r.slot, r.commits)
  BY <1>2, <1>3, <1>4 DEF Live, Running, SlotSound, IsCall
<1>6. (fs.open => rx.active /\ rx.handleOpen) => ~r.fs.open
  BY <1>4 DEF Live, Running, HandleKept
<1>7. HandleKept(r)
  BY <1>6 DEF HandleKept
<1> QED
  BY <1>2, <1>3, <1>4, <1>5, <1>6, <1>7 DEF Live, Running, SumGood, r

\* fail_receiver_active_transaction, at the end of a call that returned an error.
LEMMA EndReceiveEnds ==
    ASSUME NEW m, Live(m) \/ Ended(m)
    PROVE  \/ Live(EndReceive(m, rx.id)) /\ EndReceive(m, rx.id) = m
           \/ Ended(EndReceive(m, rx.id))
<1>1. CASE Ended(m)
  BY <1>1, NoRxSlotIs DEF EndReceive, Ended
<1>2. CASE Live(m) /\ m.st = "OK"
  BY <1>2 DEF EndReceive
<1>3. CASE Live(m) /\ m.st # "OK"
  <2>1. EndReceive(m, rx.id) = FailActive(m)
    BY <1>3 DEF EndReceive, Live, Running
  <2>2. CASE m.slot.waiting
    <3>1. (fs.open => rx.active /\ rx.handleOpen) => ~m.fs.open
      BY <1>3, <2>2 DEF Live, Running, SlotSound, HandleKept
    <3> QED
      BY <1>3, <2>1, <2>2, <3>1, ReleaseEnds DEF FailActive, Live
  <2>3. CASE ~m.slot.waiting
    <3>1. FailActive(m) = ReleaseTerminal(CloseDiscard(m), m.st)
      BY <2>3 DEF FailActive
    <3> QED
      BY <1>3, <2>1, <3>1, CloseDiscardKeeps, ReleaseEnds DEF Live
  <2> QED
    BY <2>2, <2>3
<1> QED
  BY <1>1, <1>2, <1>3

-------------------------------------------------------------------------------
(* Finishing a file *)

\* A commit adds the file it stores to those committed.
LEMMA CommitAdds ==
    ASSUME NEW c, CommitsGood(c), NEW id \in Ids, id = rx.id, NEW n \in limit.sizes
    PROVE  LET d == Append(c, << id, SourceFile(id, n) >>)
           IN  CommitsGood(d) /\ Has(d, id) /\ \A i \in Ids : Has(c, i) => Has(d, i)
<1> DEFINE e == << id, SourceFile(id, n) >>
           d == Append(c, e)
<1>1. e \in Intact /\ e[1] = id
  BY DEF Intact
<1> HIDE DEF e
<1>2. c \in Seq(Intact)
  BY DEF CommitsGood
<1>3. /\ d \in Seq(Intact) /\ Len(d) = Len(c) + 1 /\ Len(c) \in Nat /\ d[Len(c) + 1] = e
      /\ \A i \in 1..Len(c) : d[i] = c[i]
  BY <1>1, <1>2
<1> HIDE DEF d
<1>4. Has(d, id)
  BY <1>1, <1>3 DEF Has
<1>5. \A i \in Ids : Has(c, i) => Has(d, i)
  BY <1>3 DEF Has
<1>6. \A i \in Ids : Has(d, i) => Has(c, i) \/ i = id
  BY <1>1, <1>3 DEF Has
<1>7. CommitsGood(d)
  BY <1>3, <1>5, <1>6 DEF CommitsGood
<1> QED
  BY <1>4, <1>5, <1>7 DEF d, e

\* receiver_finish, first half: the handle is closed, and a success is a commit of
\* the file that was verified.
LEMMA CloseAndStoreKeeps ==
    ASSUME NEW m, Running(m), NEW f, \A q \in m.out : q.type # "FINISHED",
           m.st = "OK" => m.fs.tmp = SourceFile(m.slot.id, m.slot.size)
    PROVE  LET r == CloseAndStore(m, f)
           IN  /\ Live(r) /\ r.out = m.out
               /\ r.slot.handleOpen = FALSE /\ r.slot.mode = m.slot.mode
               /\ r.slot.closure = m.slot.closure
               /\ (fs.open => rx.active /\ rx.handleOpen) => ~r.fs.open
               /\ r.st = "OK" => Has(r.commits, rx.id)
<1> DEFINE closed == IF m.st = "OK" /\ m.slot.handleOpen /\ "close" \in f THEN "FILESTORE" ELSE m.st
           st     == IF closed = "OK" /\ ("commit" \in f \/ ~m.fs.exists)
                       THEN "FILESTORE" ELSE closed
           kept   == closed = "OK" /\ st # "OK"
           c      == IF st = "OK" THEN Append(m.commits, << m.slot.id, m.fs.tmp >>) ELSE m.commits
           tmp    == IF kept THEN m.fs.tmp ELSE << >>
           r      == CloseAndStore(m, f)
<1>1. IsCall(m)
  BY DEF Live, Running
<1>2. st = "OK" => m.st = "OK"
  OBVIOUS
<1>3. /\ CommitsGood(c) /\ (st = "OK" => Has(c, rx.id))
      /\ \A i \in Ids : Has(m.commits, i) => Has(c, i)
  <2>1. CASE st = "OK"
    <3>1. m.slot.id \in Ids /\ m.slot.size \in limit.sizes /\ m.slot.id = rx.id
      BY DEF Live, Running, SlotSound
    <3>2. m.fs.tmp = SourceFile(m.slot.id, m.slot.size)
      BY <1>2, <2>1
    <3>3. c = Append(m.commits, << m.slot.id, SourceFile(m.slot.id, m.slot.size) >>)
      BY <2>1, <3>2
    <3>4. CommitsGood(m.commits)
      BY DEF Live, Running
    <3> HIDE DEF c, st
    <3> QED
      BY <3>1, <3>3, <3>4, CommitAdds
  <2>2. CASE st # "OK"
    BY <2>2 DEF Live, Running
  <2> QED
    BY <2>1, <2>2
<1>4. r = [m EXCEPT !.st = st, !.fs.open = @ /\ ~m.slot.handleOpen, !.slot.handleOpen = FALSE,
                    !.fs.exists = @ /\ kept, !.fs.tmp = tmp, !.commits = c]
  BY DEF CloseAndStore
<1> HIDE DEF closed, st, kept, c, tmp, r
<1>5. /\ r.slot = [m.slot EXCEPT !.handleOpen = FALSE] /\ r.commits = c /\ r.st = st
      /\ r.fs.open = (m.fs.open /\ ~m.slot.handleOpen)
      /\ r.events = m.events /\ r.out = m.out
  BY <1>1, <1>4 DEF IsCall, IsSlot, IsStore
<1>6. IsCall(r)
  <2>1. r.fs = [m.fs EXCEPT !.open = @ /\ ~m.slot.handleOpen, !.exists = @ /\ kept, !.tmp = tmp]
    BY <1>1, <1>4 DEF IsCall, IsSlot, IsStore
  <2>2. IsStore(r.fs)
    BY <1>1, <2>1 DEF IsCall, IsStore
  <2>3. IsSlot(r.slot)
    BY <1>1, <1>5 DEF IsCall, IsSlot
  <2>4. r \in [slot: {r.slot}, fs: {r.fs}, out: {r.out}, events: {r.events},
              commits: {r.commits}, st: {r.st}]
    BY <1>1, <1>4 DEF IsCall
  <2> QED
    BY <2>2, <2>3, <2>4 DEF IsCall
<1>7. /\ r.slot.active = m.slot.active /\ r.slot.id = m.slot.id /\ r.slot.mode = m.slot.mode
      /\ r.slot.closure = m.slot.closure /\ r.slot.size = m.slot.size
      /\ r.slot.waiting = m.slot.waiting /\ r.slot.finished = m.slot.finished
      /\ r.slot.handleOpen = FALSE
  BY <1>5
<1>8. SlotSound(r.slot, r.commits)
  BY <1>3, <1>5, <1>6, <1>7 DEF Live, Running, SlotSound, IsCall
<1>9. (fs.open => rx.active /\ rx.handleOpen) => ~r.fs.open
  BY <1>5 DEF Live, Running, HandleKept
<1>10. HandleKept(r)
  BY <1>9 DEF HandleKept
<1>11. \A q \in r.out : OutGood(q, r.commits) /\ q.type # "FINISHED"
  BY <1>5 DEF Live, Running, OutGood
<1>12. Live(r)
  BY <1>3, <1>5, <1>6, <1>7, <1>8, <1>10, <1>11 DEF Live, Running, SumGood
<1> QED
  BY <1>3, <1>5, <1>7, <1>9, <1>12 DEF r

\* send_finished_for_receiver_status, before and while the slot waits for the ACK.
LEMMA SendFinishedIs ==
    ASSUME NEW m, IsCall(m), m.slot.id = rx.id, NEW st, NEW f,
           st = "OK" => Has(m.commits, rx.id), \A q \in m.out : OutGood(q, m.commits)
    PROVE  LET r == SendFinished(m, st, f)
           IN  /\ IsCall(r) /\ r.slot = m.slot /\ r.fs = m.fs /\ r.events = m.events
               /\ r.commits = m.commits /\ \A q \in r.out : OutGood(q, r.commits)
<1> DEFINE q == FinishedPdu(m.slot.id, FinishedCondition(st))
<1>1. OutGood(q, m.commits)
  BY DEF OutGood, FinishedPdu, FinishedCondition
<1> HIDE DEF q
<1>2. CASE "finished" \in f
  BY <1>2 DEF SendFinished, Returning, IsCall
<1>3. CASE "finished" \notin f
  <2>1. SendFinished(m, st, f) = [m EXCEPT !.out = @ \cup {q}, !.st = "OK"]
    BY <1>3 DEF SendFinished, q
  <2> DEFINE r == SendFinished(m, st, f)
  <2>2. IsCall(r)
    BY <2>1 DEF IsCall
  <2>3. /\ r.slot = m.slot /\ r.fs = m.fs /\ r.events = m.events /\ r.commits = m.commits
        /\ r.out = m.out \cup {q}
    BY <2>1
  <2> HIDE DEF r
  <2>4. \A p \in r.out : OutGood(p, r.commits)
    BY <1>1, <2>3
  <2> QED
    BY <2>2, <2>3, <2>4 DEF r
<1> QED
  BY <1>2, <1>3

\* receiver_finish: the slot waits for the ACK of Finished, or is released.
LEMMA FinishKeeps ==
    ASSUME NEW m, Running(m), NEW f, \A q \in m.out : q.type # "FINISHED",
           m.st = "OK" => m.fs.tmp = SourceFile(m.slot.id, m.slot.size)
    PROVE  Live(Finish(m, f)) \/ Ended(Finish(m, f))
<1> DEFINE stored == CloseAndStore(m, f)
           st     == stored.st
           noted  == [stored EXCEPT !.slot.finished = st]
           told   == IF m.slot.closure THEN SendFinished(noted, st, f)
                     ELSE Returning(stored, "OK")
           result == IF st = "OK" THEN told.st ELSE st
           final  == IF m.slot.mode = "ack" THEN told.st ELSE result
           r      == Finish(m, f)
<1>1. /\ Live(stored) /\ stored.slot.handleOpen = FALSE /\ stored.slot.mode = m.slot.mode
      /\ stored.slot.closure = m.slot.closure
      /\ (fs.open => rx.active /\ rx.handleOpen) => ~stored.fs.open
      /\ st = "OK" => Has(stored.commits, rx.id)
  BY CloseAndStoreKeeps
<1>2. r = IF m.slot.mode = "ack" /\ told.st = "OK"
            THEN [told EXCEPT !.st = st, !.slot.recovery = FALSE,
                              !.slot.waiting = TRUE, !.slot.retry = 0]
          ELSE Returning(ReleaseTerminal(told, final), result)
  BY DEF Finish
<1> HIDE DEF stored
<1>3. /\ IsCall(noted) /\ noted.fs = stored.fs /\ noted.events = stored.events
      /\ noted.out = stored.out /\ noted.commits = stored.commits
  <2>1. IsCall(stored)
    BY <1>1 DEF Live, Running
  <2> QED
    BY <2>1 DEF IsCall, IsSlot
<1>4. /\ noted.slot.active = stored.slot.active /\ noted.slot.id = stored.slot.id
      /\ noted.slot.mode = stored.slot.mode /\ noted.slot.closure = stored.slot.closure
      /\ noted.slot.size = stored.slot.size /\ noted.slot.waiting = stored.slot.waiting
      /\ noted.slot.handleOpen = FALSE /\ noted.slot.finished = st
  <2>1. IsCall(stored)
    BY <1>1 DEF Live, Running
  <2>2. noted.slot = [stored.slot EXCEPT !.finished = st]
    BY <2>1 DEF IsCall
  <2> QED
    BY <1>1, <2>1, <2>2 DEF IsCall, IsSlot
<1> HIDE DEF noted
<1>5. /\ IsCall(told) /\ told.fs = stored.fs /\ told.events = stored.events
      /\ told.commits = stored.commits /\ \A q \in told.out : OutGood(q, told.commits)
      /\ told.slot = IF m.slot.closure THEN noted.slot ELSE stored.slot
  <2>1. CASE m.slot.closure
    <3>1. /\ noted.slot.id = rx.id
          /\ st = "OK" => Has(noted.commits, rx.id)
          /\ \A q \in noted.out : OutGood(q, noted.commits)
      BY <1>1, <1>3, <1>4 DEF Live, Running
    <3> HIDE DEF st
    <3>2. LET t == SendFinished(noted, st, f)
          IN  /\ IsCall(t) /\ t.slot = noted.slot /\ t.fs = noted.fs
              /\ t.events = noted.events /\ t.commits = noted.commits
              /\ \A q \in t.out : OutGood(q, t.commits)
      BY <1>3, <3>1, SendFinishedIs
    <3>3. told = SendFinished(noted, st, f)
      BY <2>1
    <3> HIDE DEF told
    <3> QED
      BY <1>3, <2>1, <3>2, <3>3
  <2>2. CASE ~m.slot.closure
    BY <1>1, <2>2 DEF Live, Running, Returning, IsCall
  <2> QED
    BY <2>1, <2>2
<1>6. m.slot.mode = "ack" => m.slot.closure
  BY DEF Live, Running, SlotSound
<1>7. /\ IsSlot(told.slot) /\ told.slot.active /\ told.slot.id = rx.id /\ told.slot.id \in Ids
      /\ told.slot.size \in limit.sizes /\ told.slot.mode = m.slot.mode
      /\ told.slot.mode = "ack" => told.slot.closure
      /\ told.slot.handleOpen = FALSE
      /\ told.slot.mode = "ack" => told.slot.finished = st
  <2>1. /\ stored.slot.active /\ stored.slot.id = rx.id /\ stored.slot.id \in Ids
        /\ stored.slot.size \in limit.sizes
    BY <1>1 DEF Live, Running, SlotSound
  <2>2. IsSlot(told.slot)
    BY <1>5 DEF IsCall
  <2> HIDE DEF told, st
  <2>3. CASE m.slot.closure
    <3>1. told.slot = noted.slot
      BY <1>5, <2>3
    <3> QED
      BY <1>1, <1>4, <2>1, <2>2, <2>3, <3>1
  <2>4. CASE ~m.slot.closure
    <3>1. told.slot = stored.slot /\ m.slot.mode # "ack"
      BY <1>5, <1>6, <2>4
    <3> QED
      BY <1>1, <2>1, <2>2, <3>1
  <2> QED
    BY <2>3, <2>4
<1>8. CommitsGood(told.commits) /\ told.events = rxEvents
  BY <1>1, <1>5 DEF Live, Running
<1>9. (fs.open => rx.active /\ rx.handleOpen) => ~told.fs.open
  BY <1>1, <1>5
<1>10. st = "OK" => Has(told.commits, rx.id)
  BY <1>1, <1>5
<1> HIDE DEF told, st, r
<1>11. CASE m.slot.mode = "ack" /\ told.st = "OK"
  <2>1. r = [told EXCEPT !.st = st, !.slot.recovery = FALSE, !.slot.waiting = TRUE,
                         !.slot.retry = 0]
    BY <1>2, <1>11 DEF result, final
  <2>2. /\ IsCall(r) /\ r.fs = told.fs /\ r.events = told.events /\ r.out = told.out
        /\ r.commits = told.commits
        /\ r.slot = [told.slot EXCEPT !.recovery = FALSE, !.waiting = TRUE, !.retry = 0]
    BY <1>5, <2>1 DEF IsCall, IsSlot
  <2>3. /\ r.slot.active = told.slot.active /\ r.slot.id = told.slot.id
        /\ r.slot.size = told.slot.size /\ r.slot.mode = told.slot.mode
        /\ r.slot.closure = told.slot.closure /\ r.slot.handleOpen = told.slot.handleOpen
        /\ r.slot.finished = told.slot.finished /\ r.slot.waiting = TRUE
    BY <2>2
  <2>4. SlotSound(r.slot, r.commits)
    BY <1>7, <1>10, <1>11, <2>2, <2>3 DEF SlotSound, IsCall
  <2>5. HandleKept(r)
    BY <1>9, <2>2 DEF HandleKept
  <2>6. Live(r)
    BY <1>5, <1>7, <1>8, <2>2, <2>3, <2>4, <2>5 DEF Live, Running, SumGood
  <2> QED
    BY <2>6 DEF r
<1>12. CASE ~(m.slot.mode = "ack" /\ told.st = "OK")
  <2>1. r = Returning(ReleaseTerminal(told, final), result)
    BY <1>2, <1>12
  <2>2. final = "OK" => Has(told.commits, rx.id)
    BY <1>10, <1>12 DEF final, result
  <2> DEFINE s == ReleaseTerminal(told, final)
  <2>3. /\ s.slot = NoRxSlot /\ s.events = Append(rxEvents, [id |-> rx.id, status |-> final])
        /\ s.fs = told.fs /\ s.out = told.out /\ s.commits = told.commits
    BY <1>7, <1>8 DEF ReleaseTerminal
  <2>4. IsCall(s)
    BY <1>5, NoRxSlotIs DEF IsCall, ReleaseTerminal
  <2> HIDE DEF s, final, result
  <2>5. /\ r.slot = s.slot /\ r.events = s.events /\ r.fs = s.fs /\ r.out = s.out
        /\ r.commits = s.commits
    BY <2>1 DEF Returning, s
  <2>6. IsCall(r)
    BY <2>1, <2>4 DEF Returning, IsCall, s
  <2>7. HandleKept(r)
    BY <1>9, <2>3, <2>5 DEF HandleKept
  <2>8. Ended(r)
    BY <1>5, <1>8, <2>2, <2>3, <2>5, <2>6, <2>7 DEF Ended
  <2> QED
    BY <2>8 DEF r
<1> QED
  BY <1>11, <1>12

-------------------------------------------------------------------------------
(* The handlers *)

\* r differs from m in what is not told of a slot: received ranges, retries, the
\* content of the temporary file, the status, and PDUs other than Finished.
Like(r, m) ==
    /\ IsCall(r) /\ r.events = m.events /\ r.commits = m.commits /\ r.fs.open = m.fs.open
    /\ r.slot.active = m.slot.active /\ r.slot.id = m.slot.id /\ r.slot.mode = m.slot.mode
    /\ r.slot.closure = m.slot.closure /\ r.slot.size = m.slot.size
    /\ r.slot.handleOpen = m.slot.handleOpen /\ r.slot.waiting = m.slot.waiting
    /\ r.slot.finished = m.slot.finished
    /\ \A q \in r.out : q \in m.out \/ (OutGood(q, m.commits) /\ q.type # "FINISHED")

NoneFinished(m) == \A q \in m.out : q.type # "FINISHED"

\* Such a change keeps a call going.
LEMMA LikeKeeps ==
    ASSUME NEW m, NEW r, Running(m), Like(r, m)
    PROVE  /\ Running(r) /\ (NoneFinished(m) => NoneFinished(r))
           /\ Live(m) /\ SumGood(r.slot) => Live(r)
<1>1. HandleKept(r)
  BY DEF HandleKept, Running, Like
<1>2. SlotSound(r.slot, r.commits)
  BY DEF SlotSound, Running, Like, IsCall
<1>3. \A q \in r.out : OutGood(q, r.commits)
  BY DEF Running, Like
<1>4. Running(r)
  BY <1>1, <1>2, <1>3 DEF Running, Like
<1> QED
  BY <1>4 DEF Live, Like, NoneFinished

\* Setting the status of a call.
LEMMA ReturningIs ==
    ASSUME NEW m, IsCall(m), NEW st
    PROVE  LET r == Returning(m, st)
           IN  /\ Like(r, m) /\ r.slot = m.slot /\ r.fs = m.fs /\ r.out = m.out /\ r.st = st
<1> DEFINE r == Returning(m, st)
<1>1. /\ r.slot = m.slot /\ r.fs = m.fs /\ r.out = m.out /\ r.events = m.events
      /\ r.commits = m.commits /\ r.st = st
  BY DEF Returning, IsCall
<1>2. IsCall(r)
  BY DEF Returning, IsCall
<1> HIDE DEF r
<1>3. Like(r, m)
  BY <1>1, <1>2 DEF Like
<1> QED
  BY <1>1, <1>3 DEF r

\* receiver_finish with a status.
LEMMA FinishReturning ==
    ASSUME NEW m, Running(m), NoneFinished(m), NEW st, NEW f,
           st = "OK" => m.fs.tmp = SourceFile(m.slot.id, m.slot.size)
    PROVE  Live(Finish(Returning(m, st), f)) \/ Ended(Finish(Returning(m, st), f))
<1> DEFINE r == Returning(m, st)
<1>1. Like(r, m) /\ r.slot = m.slot /\ r.fs = m.fs /\ r.out = m.out /\ r.st = st
  BY ReturningIs DEF Running
<1> HIDE DEF r
<1>2. Running(r) /\ NoneFinished(r)
  BY <1>1, LikeKeeps
<1>3. \A q \in r.out : q.type # "FINISHED"
  BY <1>2 DEF NoneFinished
<1>4. r.st = "OK" => r.fs.tmp = SourceFile(r.slot.id, r.slot.size)
  BY <1>1
<1>5. Live(Finish(r, f)) \/ Ended(Finish(r, f))
  BY <1>2, <1>3, <1>4, FinishKeeps
<1> QED
  BY <1>5 DEF r

\* The file is verified against the checksum of the EOF before it is committed.
LEMMA FinishIfCompleteKeeps ==
    ASSUME NEW m, Running(m), NoneFinished(m), NEW f, NEW incomplete,
           NEW cksum, cksum = SourceFile(m.slot.id, m.slot.size),
           Live(incomplete) \/ Ended(incomplete)
    PROVE  LET r == FinishIfComplete(m, cksum, f, incomplete)
           IN  Live(r) \/ Ended(r)
<1>1. CASE ~RangeIsValid(0, m.slot.size)
  BY <1>1, FinishReturning, "INVALID" # "OK" DEF FinishIfComplete
<1>2. CASE RangeIsValid(0, m.slot.size) /\ RangesIsComplete(m.slot.ranges, 0, m.slot.size)
  <2> DEFINE st == IF "read" \in f THEN "FILESTORE"
                   ELSE IF "shortRead" \in f THEN "SIZE"
                   ELSE IF m.fs.tmp # cksum THEN "CHECKSUM" ELSE "OK"
  <2>1. FinishIfComplete(m, cksum, f, incomplete) = Finish(Returning(m, st), f)
    BY <1>2 DEF FinishIfComplete, VerifyCompleteFile
  <2>2. st = "OK" => m.fs.tmp = SourceFile(m.slot.id, m.slot.size)
    OBVIOUS
  <2> HIDE DEF st
  <2> QED
    BY <2>1, <2>2, FinishReturning
<1>3. CASE RangeIsValid(0, m.slot.size) /\ ~RangesIsComplete(m.slot.ranges, 0, m.slot.size)
  BY <1>3 DEF FinishIfComplete
<1> QED
  BY <1>1, <1>2, <1>3

\* Setting a field of the slot that Like leaves open.
LEMMA SetRangesIs ==
    ASSUME NEW m, IsCall(m), NEW x
    PROVE  LET r == [m EXCEPT !.slot.ranges = x]
           IN  /\ Like(r, m) /\ r.fs = m.fs /\ r.out = m.out /\ r.slot.eof = m.slot.eof
               /\ r.slot.cksum = m.slot.cksum
<1> DEFINE r == [m EXCEPT !.slot.ranges = x]
<1>1. /\ r.fs = m.fs /\ r.out = m.out /\ r.events = m.events /\ r.commits = m.commits
      /\ r.slot = [m.slot EXCEPT !.ranges = x]
  BY DEF IsCall
<1>2. IsCall(r)
  BY DEF IsCall, IsSlot
<1>3. IsSlot(m.slot)
  BY DEF IsCall
<1> HIDE DEF r
<1>4. /\ r.slot.active = m.slot.active /\ r.slot.id = m.slot.id /\ r.slot.mode = m.slot.mode
      /\ r.slot.closure = m.slot.closure /\ r.slot.size = m.slot.size
      /\ r.slot.handleOpen = m.slot.handleOpen /\ r.slot.waiting = m.slot.waiting
      /\ r.slot.finished = m.slot.finished /\ r.slot.eof = m.slot.eof
      /\ r.slot.cksum = m.slot.cksum
  BY <1>1, <1>3 DEF IsSlot
<1>5. Like(r, m)
  BY <1>1, <1>2, <1>4 DEF Like
<1> QED
  BY <1>1, <1>4, <1>5 DEF r

LEMMA SetCksumIs ==
    ASSUME NEW m, IsCall(m), NEW x
    PROVE  LET r == [m EXCEPT !.slot.cksum = x]
           IN  Like(r, m) /\ r.fs = m.fs /\ r.out = m.out /\ r.slot.cksum = x
<1> DEFINE r == [m EXCEPT !.slot.cksum = x]
<1>1. /\ r.fs = m.fs /\ r.out = m.out /\ r.events = m.events /\ r.commits = m.commits
      /\ r.slot = [m.slot EXCEPT !.cksum = x]
  BY DEF IsCall
<1>2. IsCall(r)
  BY DEF IsCall, IsSlot
<1>3. IsSlot(m.slot)
  BY DEF IsCall
<1> HIDE DEF r
<1>4. /\ r.slot.active = m.slot.active /\ r.slot.id = m.slot.id /\ r.slot.mode = m.slot.mode
      /\ r.slot.closure = m.slot.closure /\ r.slot.size = m.slot.size
      /\ r.slot.handleOpen = m.slot.handleOpen /\ r.slot.waiting = m.slot.waiting
      /\ r.slot.finished = m.slot.finished /\ r.slot.cksum = x
  BY <1>1, <1>3 DEF IsSlot
<1>5. Like(r, m)
  BY <1>1, <1>2, <1>4 DEF Like
<1> QED
  BY <1>1, <1>4, <1>5 DEF r

\* receiver_handle_filedata after the write.
LEMMA NoteRangeKeeps ==
    ASSUME NEW m, Live(m), NoneFinished(m), m.slot.handleOpen, NEW p, NEW f
    PROVE  Live(NoteRange(m, p, f)) \/ Ended(NoteRange(m, p, f))
<1> DEFINE added == RangesAdd(m.slot.ranges, p.off, p.off + 1)
           noted == [m EXCEPT !.slot.ranges = added.ranges]
<1>1. NoteRange(m, p, f) =
        IF added.status # "OK" THEN Returning(m, added.status)
        ELSE IF m.slot.eof /\ m.slot.mode = "ack"
          THEN FinishIfComplete(noted, m.slot.cksum, f, noted)
        ELSE noted
  BY DEF NoteRange
<1> HIDE DEF added
<1>2. IsCall(m)
  BY DEF Live, Running
<1>3. /\ Like(noted, m) /\ noted.slot.eof = m.slot.eof
      /\ noted.slot.cksum = m.slot.cksum
  BY <1>2, SetRangesIs
<1> HIDE DEF noted
<1>4. Running(noted) /\ NoneFinished(noted) /\ Live(noted)
  <2>1. SumGood(noted.slot)
    BY <1>3 DEF Live, SumGood, Like
  <2> QED
    BY <1>3, <2>1, LikeKeeps DEF Live
<1>5. CASE added.status # "OK"
  <2> DEFINE r == Returning(m, added.status)
  <2>1. Like(r, m) /\ r.slot = m.slot
    BY <1>2, ReturningIs
  <2> HIDE DEF r
  <2>2. Live(r)
    BY <2>1, LikeKeeps DEF Live
  <2> QED
    BY <1>1, <1>5, <2>2 DEF r
<1>6. CASE added.status = "OK" /\ m.slot.eof /\ m.slot.mode = "ack"
  <2>1. m.slot.cksum = SourceFile(m.slot.id, m.slot.size)
    BY <1>6 DEF Live, Running, SumGood
  <2>2. m.slot.cksum = SourceFile(noted.slot.id, noted.slot.size)
    BY <1>3, <2>1 DEF Like
  <2> QED
    BY <1>1, <1>4, <1>6, <2>2, FinishIfCompleteKeeps
<1>7. CASE added.status = "OK" /\ ~(m.slot.eof /\ m.slot.mode = "ack")
  BY <1>1, <1>4, <1>7
<1> QED
  BY <1>5, <1>6, <1>7

\* Changing the filestore, not the handle, and the status.
LEMMA SetStoreIs ==
    ASSUME NEW m, IsCall(m), NEW r, NEW x, NEW st, IsStore(x), x.open = m.fs.open,
           r = [m EXCEPT !.fs = x, !.st = st]
    PROVE  Like(r, m) /\ r.slot = m.slot /\ r.out = m.out
<1>1. /\ r.slot = m.slot /\ r.fs = x /\ r.out = m.out /\ r.events = m.events
      /\ r.commits = m.commits
  BY DEF IsCall
<1>2. IsCall(r)
  BY DEF IsCall
<1>3. Like(r, m)
  BY <1>1, <1>2 DEF Like
<1> QED
  BY <1>1, <1>3

\* receiver_handle_filedata
LEMMA HandleFileDataKeeps ==
    ASSUME NEW m, Live(m), NoneFinished(m), NEW p, p.id = m.slot.id, NEW f
    PROVE  Live(HandleFileData(m, p, f)) \/ Ended(HandleFileData(m, p, f))
<1> DEFINE t      == [m.fs.tmp EXCEPT ![p.off] = p.data]
           wrong  == [m.fs EXCEPT !.nullWrite = TRUE]
           stored == [m.fs EXCEPT !.tmp = t]
           failed == [m EXCEPT !.fs = wrong, !.st = "FILESTORE"]
           wrote  == [m EXCEPT !.fs = stored, !.st = m.st]
<1>1. IsCall(m) /\ IsStore(m.fs) /\ m.slot.active
  BY DEF Live, Running, IsCall
<1>2. MatchActive(m, p.id) = "OK"
  BY <1>1 DEF MatchActive
<1>3. /\ failed = [m EXCEPT !.st = "FILESTORE", !.fs.nullWrite = TRUE]
      /\ wrote = [m EXCEPT !.fs.tmp[p.off] = p.data]
  <2> HIDE DEF t
  <2>1. failed = [m EXCEPT !.st = "FILESTORE", !.fs.nullWrite = TRUE]
    BY <1>1 DEF IsCall, IsStore
  <2>2. wrote = [m EXCEPT !.fs.tmp = t]
    BY <1>1 DEF IsCall, IsStore
  <2> QED
    BY <2>1, <2>2 DEF t
<1>4. HandleFileData(m, p, f) =
        IF p.off + 1 > m.slot.size THEN Returning(m, "SIZE")
        ELSE IF ~m.slot.handleOpen THEN failed
        ELSE IF "write" \in f THEN Returning(m, "FILESTORE")
        ELSE NoteRange(wrote, p, f)
  BY <1>2, <1>3, Zenon DEF HandleFileData
<1> HIDE DEF t
<1>5. IsStore(wrong) /\ wrong.open = m.fs.open /\ IsStore(stored) /\ stored.open = m.fs.open
  BY <1>1 DEF IsStore
<1> HIDE DEF wrong, stored
<1>6. ASSUME NEW st
      PROVE  Live(Returning(m, st))
  <2> DEFINE r == Returning(m, st)
  <2>1. Like(r, m) /\ r.slot = m.slot
    BY <1>1, ReturningIs
  <2> HIDE DEF r
  <2>2. Live(r)
    BY <2>1, LikeKeeps DEF Live
  <2> QED
    BY <2>2 DEF r
<1>7. Live(failed)
  <2>1. Like(failed, m) /\ failed.slot = m.slot
    BY <1>1, <1>5, SetStoreIs
  <2> HIDE DEF failed
  <2> QED
    BY <2>1, LikeKeeps DEF Live
<1>8. Live(wrote) /\ NoneFinished(wrote) /\ wrote.slot = m.slot
  <2>1. Like(wrote, m) /\ wrote.slot = m.slot
    BY <1>1, <1>5, SetStoreIs
  <2> HIDE DEF wrote
  <2> QED
    BY <2>1, LikeKeeps DEF Live
<1> HIDE DEF failed, wrote
<1>9. m.slot.handleOpen => Live(NoteRange(wrote, p, f)) \/ Ended(NoteRange(wrote, p, f))
  BY <1>8, NoteRangeKeeps
<1> QED
  BY <1>4, <1>6, <1>7, <1>9

\* send_nak_for_missing_ranges
LEMMA SendNakIs ==
    ASSUME NEW m, IsCall(m), m.slot.id = rx.id, NEW f
    PROVE  LET r == SendNak(m, f) IN Like(r, m) /\ r.slot = m.slot /\ r.fs = m.fs
<1> DEFINE missing == RangesMissing(m.slot.ranges, 0, m.slot.size)
           q       == NakPdu(m.slot.id, m.slot.size, missing.ranges)
           asked   == [m EXCEPT !.out = @ \cup {q}]
<1>1. SendNak(m, f) =
        IF missing.status = "BUFFER" THEN Returning(m, "NAK_LIMIT")
        ELSE IF missing.status # "OK" THEN Returning(m, missing.status)
        ELSE IF "nak" \in f THEN Returning(m, "INVALID")
        ELSE asked
  BY DEF SendNak
<1> HIDE DEF missing
<1>2. OutGood(q, m.commits) /\ q.type # "FINISHED"
  BY DEF OutGood, NakPdu
<1> HIDE DEF q
<1>3. Like(asked, m) /\ asked.slot = m.slot /\ asked.fs = m.fs
  <2>1. /\ asked.slot = m.slot /\ asked.fs = m.fs /\ asked.events = m.events
        /\ asked.commits = m.commits /\ asked.out = m.out \cup {q}
    BY DEF IsCall
  <2>2. IsCall(asked)
    BY DEF IsCall
  <2> HIDE DEF asked
  <2> QED
    BY <1>2, <2>1, <2>2 DEF Like
<1>4. ASSUME NEW st
      PROVE  LET r == Returning(m, st) IN Like(r, m) /\ r.slot = m.slot /\ r.fs = m.fs
  BY ReturningIs
<1> HIDE DEF asked
<1> QED
  BY <1>1, <1>3, <1>4

\* Changing the slot where Like leaves it open.
LEMMA SetSlotIs ==
    ASSUME NEW m, IsCall(m), NEW x, IsSlot(x), NEW r, r = [m EXCEPT !.slot = x],
           x.active = m.slot.active, x.id = m.slot.id, x.mode = m.slot.mode,
           x.closure = m.slot.closure, x.size = m.slot.size,
           x.handleOpen = m.slot.handleOpen, x.waiting = m.slot.waiting,
           x.finished = m.slot.finished
    PROVE  Like(r, m) /\ r.slot = x /\ r.fs = m.fs /\ r.out = m.out
<1>1. /\ r.slot = x /\ r.fs = m.fs /\ r.out = m.out /\ r.events = m.events
      /\ r.commits = m.commits
  BY DEF IsCall
<1>2. IsCall(r)
  BY DEF IsCall
<1>3. Like(r, m)
  BY <1>1, <1>2 DEF Like
<1> QED
  BY <1>1, <1>3

\* receiver_handle_eof when data is missing.
LEMMA EofIncompleteKeeps ==
    ASSUME NEW m, Live(m), NoneFinished(m), NEW f,
           m.slot.cksum = SourceFile(m.slot.id, m.slot.size)
    PROVE  Live(EofIncomplete(m, f)) \/ Ended(EofIncomplete(m, f))
<1> DEFINE x    == [m.slot EXCEPT !.eof = TRUE]
           seen == [m EXCEPT !.slot = x]
           nak  == SendNak(seen, f)
           y    == [nak.slot EXCEPT !.recovery = TRUE, !.retry = 0]
           wait == [nak EXCEPT !.slot = y]
<1>1. EofIncomplete(m, f) = IF m.slot.mode # "ack" THEN Finish(Returning(m, "SIZE"), f)
                            ELSE IF nak.st # "OK" THEN Finish(nak, f)
                            ELSE [nak EXCEPT !.slot.recovery = TRUE, !.slot.retry = 0]
  BY Zenon DEF EofIncomplete
<1>2. IsCall(m) /\ IsSlot(m.slot) /\ Running(m)
  BY DEF Live, Running, IsCall
<1>3. /\ IsSlot(x) /\ x.active = m.slot.active /\ x.id = m.slot.id /\ x.mode = m.slot.mode
      /\ x.closure = m.slot.closure /\ x.size = m.slot.size
      /\ x.handleOpen = m.slot.handleOpen /\ x.waiting = m.slot.waiting
      /\ x.finished = m.slot.finished /\ x.cksum = m.slot.cksum
  BY <1>2 DEF IsSlot
<1> HIDE DEF x
<1>4. Like(seen, m) /\ seen.slot = x
  BY <1>2, <1>3, SetSlotIs
<1> HIDE DEF seen
<1>5. SumGood(seen.slot)
  BY <1>3, <1>4 DEF SumGood
<1>6. Running(seen) /\ NoneFinished(seen) /\ Live(seen)
  BY <1>2, <1>4, <1>5, LikeKeeps
<1>7. Like(nak, seen) /\ nak.slot = seen.slot
  BY <1>6, SendNakIs DEF Running
<1>8. nak.st # "OK" => Live(Finish(nak, f)) \/ Ended(Finish(nak, f))
  <2> HIDE DEF nak
  <2>1. Running(nak) /\ NoneFinished(nak)
    BY <1>6, <1>7, LikeKeeps
  <2> QED
    BY <2>1, FinishKeeps DEF NoneFinished
<1> HIDE DEF nak
<1>9. Live(nak) /\ IsCall(nak) /\ IsSlot(nak.slot)
  BY <1>5, <1>6, <1>7, LikeKeeps DEF Like, IsCall
<1>10. /\ IsSlot(y) /\ y.active = nak.slot.active /\ y.id = nak.slot.id
       /\ y.mode = nak.slot.mode /\ y.closure = nak.slot.closure /\ y.size = nak.slot.size
       /\ y.handleOpen = nak.slot.handleOpen /\ y.waiting = nak.slot.waiting
       /\ y.finished = nak.slot.finished /\ y.cksum = nak.slot.cksum /\ y.eof = nak.slot.eof
  BY <1>9 DEF IsSlot
<1>11. wait = [nak EXCEPT !.slot.recovery = TRUE, !.slot.retry = 0]
  BY <1>9 DEF IsCall, IsSlot
<1> HIDE DEF y
<1>12. Live(wait)
  <2>1. Like(wait, nak) /\ wait.slot = y
    BY <1>9, <1>10, SetSlotIs
  <2> HIDE DEF wait
  <2>2. SumGood(wait.slot)
    BY <1>9, <1>10, <2>1 DEF SumGood, Live
  <2> QED
    BY <1>9, <2>1, <2>2, LikeKeeps DEF Live
<1> HIDE DEF wait
<1>13. Live(Finish(Returning(m, "SIZE"), f)) \/ Ended(Finish(Returning(m, "SIZE"), f))
  BY <1>2, FinishReturning, "SIZE" # "OK"
<1> QED
  BY <1>1, <1>8, <1>11, <1>12, <1>13

\* receiver_handle_eof of the EOF of a file.
LEMMA HandleEofKeeps ==
    ASSUME NEW m, Live(m), m.out = {}, NEW p, p.id = m.slot.id,
           p.cksum = SourceFile(p.id, p.size), NEW f
    PROVE  Live(HandleEof(m, p, f)) \/ Ended(HandleEof(m, p, f))
<1> DEFINE noted == [m EXCEPT !.slot.cksum = p.cksum]
           q     == AckEofPdu(p.id)
           more  == [noted EXCEPT !.out = @ \cup {q}]
           acked == IF m.slot.mode = "ack" /\ "ack" \notin f THEN more ELSE noted
           told  == SendFinished(m, m.slot.finished, f)
           sized == Finish(Returning(acked, "SIZE"), f)
           ended == FinishIfComplete(acked, p.cksum, f, EofIncomplete(acked, f))
<1>1. /\ IsCall(m) /\ Running(m) /\ NoneFinished(m) /\ m.slot.active /\ m.slot.id = rx.id
      /\ m.slot.id \in Ids
  BY DEF Live, Running, NoneFinished, SlotSound
<1>2. HandleEof(m, p, f) =
        IF m.slot.waiting THEN told
        ELSE IF p.size # m.slot.size THEN sized
        ELSE IF m.slot.mode = "ack" /\ "ack" \in f THEN Returning(noted, "INVALID")
        ELSE ended
  <2>1. MatchActive(m, p.id) = "OK"
    BY <1>1 DEF MatchActive
  <2> QED
    BY <2>1, Zenon DEF HandleEof
<1>3. Like(noted, m) /\ noted.out = {} /\ noted.slot.cksum = p.cksum
  BY <1>1, SetCksumIs
<1> HIDE DEF noted
<1>4. Running(noted) /\ NoneFinished(noted) /\ IsCall(noted)
  BY <1>1, <1>3, LikeKeeps DEF Like
<1>5. OutGood(q, noted.commits) /\ q.type # "FINISHED"
  BY <1>1 DEF OutGood, AckEofPdu
<1> HIDE DEF q
<1>6. Like(more, noted) /\ more.slot = noted.slot
  <2>1. /\ more.slot = noted.slot /\ more.fs = noted.fs /\ more.events = noted.events
        /\ more.commits = noted.commits /\ more.out = noted.out \cup {q}
    BY <1>4 DEF IsCall
  <2>2. IsCall(more)
    BY <1>4 DEF IsCall
  <2> HIDE DEF more
  <2> QED
    BY <1>5, <2>1, <2>2 DEF Like
<1> HIDE DEF more
<1>7. Running(acked) /\ NoneFinished(acked) /\ acked.slot = noted.slot
  BY <1>4, <1>6, LikeKeeps
<1> HIDE DEF acked
<1>8. Live(sized) \/ Ended(sized)
  BY <1>7, FinishReturning, "SIZE" # "OK"
<1> HIDE DEF sized
<1>9. p.size = m.slot.size => SumGood(noted.slot)
                              /\ p.cksum = SourceFile(acked.slot.id, acked.slot.size)
  BY <1>3, <1>7 DEF SumGood, Like
<1>10. p.size = m.slot.size => Live(ended) \/ Ended(ended)
  <2> SUFFICES ASSUME p.size = m.slot.size PROVE Live(ended) \/ Ended(ended)
    OBVIOUS
  <2>1. Live(acked)
    BY <1>7, <1>9 DEF Live, NoneFinished
  <2>2. acked.slot.cksum = SourceFile(acked.slot.id, acked.slot.size)
    BY <1>3, <1>7, <1>9
  <2> DEFINE inc == EofIncomplete(acked, f)
  <2>3. Live(inc) \/ Ended(inc)
    BY <1>7, <2>1, <2>2, EofIncompleteKeeps
  <2> HIDE DEF inc
  <2>4. LET r == FinishIfComplete(acked, p.cksum, f, inc) IN Live(r) \/ Ended(r)
    BY <1>7, <1>9, <2>3, FinishIfCompleteKeeps
  <2> QED
    BY <2>4 DEF inc
<1> HIDE DEF ended
<1>11. p.size = m.slot.size => Live(Returning(noted, "INVALID"))
  <2> DEFINE r == Returning(noted, "INVALID")
  <2>1. Like(r, noted) /\ r.slot = noted.slot
    BY <1>4, ReturningIs
  <2> HIDE DEF r
  <2>2. Running(r) /\ NoneFinished(r)
    BY <1>4, <2>1, LikeKeeps
  <2>3. p.size = m.slot.size => Live(r)
    BY <1>9, <2>1, <2>2 DEF Live, NoneFinished
  <2> QED
    BY <2>3 DEF r
<1>12. m.slot.waiting => Live(told)
  <2> SUFFICES ASSUME m.slot.waiting PROVE Live(told)
    OBVIOUS
  <2>1. m.slot.finished = "OK" => Has(m.commits, rx.id)
    BY <1>1 DEF Running, SlotSound
  <2>2. /\ IsCall(told) /\ told.slot = m.slot /\ told.fs = m.fs /\ told.events = m.events
        /\ told.commits = m.commits /\ \A x \in told.out : OutGood(x, told.commits)
    BY <1>1, <2>1, SendFinishedIs
  <2> HIDE DEF told
  <2>3. HandleKept(told)
    BY <1>1, <2>2 DEF HandleKept, Running
  <2>4. Running(told)
    BY <1>1, <2>2, <2>3 DEF Running
  <2> QED
    BY <2>2, <2>4 DEF Live
<1> HIDE DEF told
<1> QED
  BY <1>2, <1>8, <1>10, <1>11, <1>12

-------------------------------------------------------------------------------
(* A whole call *)

\* What holds of the receiver between calls.
RxInv ==
    /\ SlotSound(rx, commits) /\ SumGood(rx)
    /\ IsStore(fs) /\ commits \in Seq(Intact)

\* A PDU in flight, when c has been committed.
PduGood(p, c) ==
    /\ p.id \in Ids
    /\ \/ p.to = "receiver" /\ p.type \in {"METADATA", "FILEDATA", "EOF", "ACK", "GARBLED"}
       \/ p.to = "sender" /\ p.type \in {"ACK", "NAK", "FINISHED", "GARBLED"}
    /\ p.type = "METADATA" => p.size \in limit.sizes /\ p.mode \in {"ack", "unack"}
    /\ p.type = "FILEDATA" => p \in [to: {p.to}, type: {p.type}, id: {p.id}, off: Nat,
                                     data: {p.data}]
    /\ p.type = "EOF" => p.cksum = SourceFile(p.id, p.size)
    /\ p.type = "FINISHED" /\ p.cond = "OK" => Has(c, p.id)

\* The call changed nothing; it took the free slot for the transaction of p; it could
\* not open the file of p; it released the slot with the verdict told to the sender.
Same(m) ==
    m.slot = rx /\ m.fs = fs /\ m.out = {} /\ m.events = rxEvents /\ m.commits = commits

Opened(m, p) ==
    /\ SlotSound(m.slot, commits) /\ SumGood(m.slot) /\ IsStore(m.fs)
    /\ m.slot.active /\ m.slot.id = p.id /\ m.slot.handleOpen
    /\ ~m.slot.waiting /\ m.slot.finished = "OK"
    /\ m.out = {} /\ m.events = rxEvents /\ m.commits = commits

OpenFailed(m, p) ==
    /\ m.slot = rx /\ m.fs = fs /\ m.out = {} /\ m.commits = commits
    /\ m.events = Append(rxEvents, [id |-> p.id, status |-> "FILESTORE"])

Acked(m) ==
    /\ m.slot = NoRxSlot /\ m.fs = fs /\ m.out = {} /\ m.commits = commits
    /\ m.events = Append(rxEvents, [id |-> rx.id, status |-> rx.finished])

\* The call as it begins.
LEMMA CallIs ==
    ASSUME RxInv
    PROVE  /\ IsCall(Call) /\ Call.slot = rx /\ Call.fs = fs /\ Call.out = {}
           /\ Call.events = rxEvents /\ Call.commits = commits /\ Call.st = "OK"
           /\ rx.active => Live(Call) /\ NoneFinished(Call)
<1> DEFINE m == Call
<1>1. /\ m.slot = rx /\ m.fs = fs /\ m.out = {} /\ m.events = rxEvents
      /\ m.commits = commits /\ m.st = "OK"
  BY DEF Call
<1>2. IsCall(m)
  BY DEF Call, IsCall, RxInv, SlotSound
<1> HIDE DEF m
<1>3. rx.active => Live(m) /\ NoneFinished(m)
  <2>1. rx.active => HandleKept(m)
    BY <1>1 DEF HandleKept
  <2> QED
    BY <1>1, <1>2, <2>1 DEF Live, Running, NoneFinished, RxInv, CommitsGood
<1> QED
  BY <1>1, <1>2, <1>3 DEF m

\* receiver_handle_metadata with a free slot.
LEMMA HandleMetadataOpens ==
    ASSUME RxInv, ~rx.active, NEW p, PduGood(p, commits), p.type = "METADATA", NEW f
    PROVE  LET m == HandleMetadata(Call, p, f)
           IN  (Opened(m, p) /\ m.st = "OK") \/ OpenFailed(m, p)
<1>1. CASE "open" \in f
  <2> DEFINE m == HandleMetadata(Call, p, f)
  <2>1. m = [Call EXCEPT !.events = Append(@, [id |-> p.id, status |-> "FILESTORE"]),
                         !.st = "FILESTORE"]
    BY <1>1, CallIs DEF HandleMetadata, Returning, IsCall
  <2>2. OpenFailed(m, p)
    BY <2>1, CallIs DEF IsCall, OpenFailed
  <2> QED
    BY <2>2
<1>2. CASE "open" \notin f
  <2> DEFINE m == HandleMetadata(Call, p, f)
             c == p.closure \/ p.mode = "ack"
             s == [NoRxSlot EXCEPT !.active = TRUE, !.id = p.id, !.mode = p.mode,
                                   !.size = p.size, !.handleOpen = TRUE, !.closure = c]
             t == [u \in 0..(p.size - 1) |-> Hole]
             x == [fs EXCEPT !.exists = TRUE, !.open = TRUE, !.tmp = t]
  <2>1. m = [Call EXCEPT !.slot = s, !.fs = x]
    BY <1>2, CallIs, Zenon DEF HandleMetadata
  <2>2. c = TRUE \/ p.mode # "ack"
    OBVIOUS
  <2> HIDE DEF c, t
  <2>3. /\ IsSlot(s) /\ s.active = TRUE /\ s.id = p.id /\ s.mode = p.mode /\ s.size = p.size
        /\ s.handleOpen = TRUE /\ s.closure = c /\ s.waiting = FALSE /\ s.finished = "OK"
        /\ s.eof = FALSE
    BY DEF IsSlot, NoRxSlot
  <2>4. IsStore(x)
    BY DEF IsStore, RxInv
  <2> HIDE DEF s, x
  <2>5. /\ m.slot = s /\ m.fs = x /\ m.out = {} /\ m.events = rxEvents /\ m.commits = commits
        /\ m.st = "OK"
    BY <2>1, CallIs DEF IsCall
  <2>6. SlotSound(s, commits)
    BY <2>2, <2>3 DEF SlotSound, PduGood
  <2>7. SumGood(s)
    BY <2>3 DEF SumGood
  <2> HIDE DEF m
  <2>8. Opened(m, p) /\ m.st = "OK"
    BY <2>3, <2>4, <2>5, <2>6, <2>7 DEF Opened
  <2> QED
    BY <2>8 DEF m
<1> QED
  BY <1>1, <1>2

\* An error of the active transaction ends it, another is only returned.
LEMMA ReturningEffect ==
    ASSUME RxInv, NEW id, NEW st, NEW m, m = EndReceive(Returning(Call, st), id)
    PROVE  Same(m) \/ (rx.active /\ id = rx.id /\ (Live(m) \/ Ended(m)))
<1> DEFINE h == Returning(Call, st)
<1>1. Like(h, Call) /\ h.slot = rx /\ h.fs = fs /\ h.out = {} /\ h.st = st
  BY CallIs, ReturningIs
<1>2. h.events = rxEvents /\ h.commits = commits
  BY <1>1, CallIs DEF Like
<1> HIDE DEF h
<1>3. CASE rx.active /\ id = rx.id
  <2>1. Live(h)
    BY <1>1, <1>3, CallIs, LikeKeeps DEF Live
  <2> QED
    BY <1>3, <2>1, EndReceiveEnds DEF h
<1>4. CASE ~(rx.active /\ id = rx.id)
  <2>1. EndReceive(h, id) = h
    BY <1>1, <1>4 DEF EndReceive
  <2>2. m = h
    BY <2>1 DEF h
  <2> QED
    BY <1>1, <1>2, <2>2 DEF Same
<1> QED
  BY <1>3, <1>4

\* ccsds_cfdp_entity_receive_pdu toward the receiver: what a whole call can do.
LEMMA ReceiveEffect ==
    ASSUME RxInv, NEW p, PduGood(p, commits), p.to = "receiver", NEW f,
           NEW m, m = EndReceive(Handle(Call, p, f), p.id)
    PROVE  \/ Same(m)
           \/ rx.active /\ p.id = rx.id /\ (Live(m) \/ Ended(m))
           \/ rx.active /\ p.id = rx.id /\ p.type = "ACK" /\ Acked(m)
           \/ ~rx.active /\ p.type = "METADATA" /\ (Opened(m, p) \/ OpenFailed(m, p))
<1> DEFINE h == Handle(Call, p, f)
<1>1. p.type \in {"METADATA", "FILEDATA", "EOF", "ACK", "GARBLED"} /\ p.id \in Ids
  BY DEF PduGood
<1>2. CASE rx.active /\ p.id = rx.id /\ (Live(h) \/ Ended(h))
  BY <1>2, EndReceiveEnds
<1>3. CASE \E st : h = Returning(Call, st)
  <2>1. PICK st : h = Returning(Call, st)
    BY <1>3
  <2>2. m = EndReceive(Returning(Call, st), p.id)
    BY <2>1
  <2> HIDE DEF h
  <2>3. Same(m) \/ (rx.active /\ p.id = rx.id /\ (Live(m) \/ Ended(m)))
    BY <2>2, ReturningEffect
  <2> QED
    BY <2>3
<1>4. CASE p.type = "METADATA"
  <2>1. h = HandleMetadata(Call, p, f)
    BY <1>4 DEF Handle
  <2>2. CASE rx.active
    <3>1. h = Returning(Call, IF rx.id # p.id THEN "BUSY" ELSE "INVALID")
      BY <2>1, <2>2, CallIs DEF HandleMetadata
    <3> QED
      BY <1>3, <3>1
  <2>3. CASE ~rx.active
    <3> HIDE DEF h
    <3>1. (Opened(h, p) /\ h.st = "OK") \/ OpenFailed(h, p)
      BY <1>4, <2>1, <2>3, HandleMetadataOpens
    <3>2. CASE OpenFailed(h, p)
      <4>1. EndReceive(h, p.id) = h
        BY <2>3, <3>2 DEF EndReceive, OpenFailed
      <4> QED
        BY <1>4, <2>3, <3>2, <4>1 DEF h
    <3>3. CASE Opened(h, p) /\ h.st = "OK"
      <4>1. EndReceive(h, p.id) = h
        BY <3>3 DEF EndReceive
      <4> QED
        BY <1>4, <2>3, <3>3, <4>1 DEF h
    <3> QED
      BY <3>1, <3>2, <3>3
  <2> QED
    BY <2>2, <2>3
<1>5. CASE p.type = "FILEDATA"
  <2>1. h = HandleFileData(Call, p, f)
    BY <1>5 DEF Handle
  <2>2. CASE rx.active /\ p.id = rx.id
    <3> HIDE DEF h
    <3>1. Live(h) \/ Ended(h)
      BY <2>1, <2>2, CallIs, HandleFileDataKeeps
    <3> QED
      BY <1>2, <2>2, <3>1
  <2>3. CASE ~(rx.active /\ p.id = rx.id)
    <3>1. MatchActive(Call, p.id) # "OK"
      BY <2>3, CallIs DEF MatchActive
    <3>2. h = Returning(Call, MatchActive(Call, p.id))
      BY <2>1, <3>1, Zenon DEF HandleFileData
    <3> QED
      BY <1>3, <3>2
  <2> QED
    BY <2>2, <2>3
<1>6. CASE p.type = "EOF"
  <2>1. h = HandleEof(Call, p, f)
    BY <1>6 DEF Handle
  <2>2. CASE rx.active /\ p.id = rx.id
    <3>1. p.cksum = SourceFile(p.id, p.size)
      BY <1>6 DEF PduGood
    <3> HIDE DEF h
    <3>2. Live(h) \/ Ended(h)
      BY <2>1, <2>2, <3>1, CallIs, HandleEofKeeps
    <3> QED
      BY <1>2, <2>2, <3>2
  <2>3. CASE ~(rx.active /\ p.id = rx.id)
    <3>1. MatchActive(Call, p.id) # "OK"
      BY <2>3, CallIs DEF MatchActive
    <3>2. h = Returning(Call, MatchActive(Call, p.id))
      BY <2>1, <3>1, Zenon DEF HandleEof
    <3> QED
      BY <1>3, <3>2
  <2> QED
    BY <2>2, <2>3
<1>7. CASE p.type = "ACK"
  <2>1. h = HandleAck(Call, p)
    BY <1>7 DEF Handle
  <2>2. CASE rx.active /\ p.id = rx.id
    <3>1. h = ReleaseTerminal(Call, rx.finished)
      BY <2>1, <2>2, CallIs DEF HandleAck
    <3>2. Acked(h)
      BY <3>1, CallIs DEF ReleaseTerminal, IsCall, Acked
    <3> HIDE DEF h
    <3>3. EndReceive(h, p.id) = h
      BY <3>2, NoRxSlotIs DEF EndReceive, Acked
    <3> QED
      BY <1>7, <2>2, <3>2, <3>3 DEF h
  <2>3. CASE ~(rx.active /\ p.id = rx.id)
    <3>1. h = Returning(Call, "INVALID")
      BY <2>1, <2>3, CallIs DEF HandleAck
    <3> QED
      BY <1>3, <3>1
  <2> QED
    BY <2>2, <2>3
<1>8. CASE p.type = "GARBLED"
  <2>1. h = Returning(Call, "MALFORMED")
    BY <1>8 DEF Handle
  <2> QED
    BY <1>3, <2>1
<1> QED
  BY <1>1, <1>4, <1>5, <1>6, <1>7, <1>8

\* ccsds_cfdp_entity_poll, receiver part.
LEMMA PollEffect ==
    ASSUME RxInv, rx.active, rx.recovery \/ rx.waiting, NEW f,
           NEW m, m = IF rx.recovery THEN PollRecovery(Call, f) ELSE PollWaiting(Call, f)
    PROVE  Live(m) \/ Ended(m)
<1>1. Live(Call) /\ Running(Call) /\ IsCall(Call) /\ Call.slot = rx /\ Call.out = {}
  BY CallIs DEF Live
<1>2. Call.commits = commits /\ Call.fs = fs /\ Call.events = rxEvents
  BY CallIs
<1> DEFINE k == Call
<1>3. ASSUME NEW st, st # "OK"
      PROVE  Ended(ReleaseTerminal(CloseDiscard(k), st))
  BY <1>1, <1>3, CloseDiscardKeeps, ReleaseEnds DEF Live
<1>4. ASSUME NEW n, Live(n), NEW x, x = [n EXCEPT !.slot.retry = @ + 1]
      PROVE  Live(x)
  <2> DEFINE y == [n.slot EXCEPT !.retry = n.slot.retry + 1]
  <2>1. IsCall(n) /\ IsSlot(n.slot) /\ Running(n)
    BY <1>4 DEF Live, Running, IsCall
  <2>2. /\ IsSlot(y) /\ y.active = n.slot.active /\ y.id = n.slot.id
        /\ y.mode = n.slot.mode /\ y.closure = n.slot.closure /\ y.size = n.slot.size
        /\ y.handleOpen = n.slot.handleOpen /\ y.waiting = n.slot.waiting
        /\ y.finished = n.slot.finished /\ y.cksum = n.slot.cksum /\ y.eof = n.slot.eof
    BY <2>1 DEF IsSlot
  <2>3. x = [n EXCEPT !.slot = y]
    BY <1>4
  <2> HIDE DEF y
  <2>4. Like(x, n) /\ x.slot = y
    BY <2>1, <2>2, <2>3, SetSlotIs
  <2>5. SumGood(x.slot)
    BY <1>4, <2>2, <2>4 DEF SumGood, Live
  <2> QED
    BY <1>4, <2>1, <2>4, <2>5, LikeKeeps
<1>5. CASE rx.recovery
  <2> DEFINE nak == SendNak(k, f)
  <2>1. m = IF rx.retry >= MaxNakRounds THEN ReleaseTerminal(CloseDiscard(k), "INACTIVITY")
            ELSE IF nak.st = "OK" THEN [nak EXCEPT !.slot.retry = @ + 1]
            ELSE ReleaseTerminal(CloseDiscard(k), nak.st)
    BY <1>1, <1>5, Zenon DEF PollRecovery
  <2>2. Like(nak, k) /\ nak.slot = k.slot
    BY <1>1, SendNakIs
  <2> HIDE DEF nak, k
  <2>3. Live(nak)
    BY <1>1, <2>2, LikeKeeps DEF Live, k
  <2> QED
    BY <1>3, <1>4, <2>1, <2>3, "INACTIVITY" # "OK"
<1>6. CASE ~rx.recovery
  <2>1. rx.waiting
    BY <1>6
  <2>2. (fs.open => rx.active /\ rx.handleOpen) => ~fs.open
    BY <2>1 DEF RxInv, SlotSound
  <2>3. rx.finished = "OK" => Has(commits, rx.id)
    BY <2>1 DEF RxInv, SlotSound
  <2> DEFINE told == SendFinished(k, rx.finished, f)
  <2>4. m = IF rx.retry >= MaxNakRounds THEN ReleaseTerminal(k, "INACTIVITY")
            ELSE IF told.st = "OK" THEN [told EXCEPT !.slot.retry = @ + 1]
            ELSE ReleaseTerminal(k, told.st)
    BY <1>1, <1>6, Zenon DEF PollWaiting
  <2>5. /\ IsCall(told) /\ told.slot = k.slot /\ told.fs = k.fs /\ told.events = k.events
        /\ told.commits = k.commits /\ \A q \in told.out : OutGood(q, told.commits)
    BY <1>1, <1>2, <2>3, SendFinishedIs
  <2> HIDE DEF told, k
  <2>6. Live(told)
    <3>1. HandleKept(told)
      BY <1>1, <2>5 DEF HandleKept, Running, k
    <3>2. Running(told)
      BY <1>1, <2>5, <3>1 DEF Running, k
    <3> QED
      BY <1>1, <2>1, <2>5, <3>2 DEF Live, k
  <2>7. ASSUME NEW st, st # "OK" PROVE Ended(ReleaseTerminal(k, st))
    BY <1>1, <1>2, <2>2, <2>7, ReleaseEnds DEF k
  <2> QED
    BY <1>4, <2>4, <2>6, <2>7, "INACTIVITY" # "OK"
<1> QED
  BY <1>5, <1>6

-------------------------------------------------------------------------------
(* Types of the receiver slot: every operator on a call keeps them *)

RxEvents == [id: Ids, status: Statuses]

\* The counters and the array of a slot keep their limits.
SlotTyped(s) ==
    /\ s.active \in BOOLEAN /\ s.id \in Ids /\ s.mode \in {"ack", "unack"} /\ s.size \in Nat
    /\ s.retry \in 0..MaxNakRounds /\ s.finished \in Statuses
    /\ s.ranges \in Seq(Range32) /\ Sorted(s.ranges) /\ Len(s.ranges) <= MaxNakRanges

CallTyped(m) ==
    IsCall(m) /\ SlotTyped(m.slot) /\ m.events \in Seq(RxEvents) /\ m.st \in Statuses

LEMMA NoRxSlotTyped == ASSUME MaxNakRounds \in Nat PROVE SlotTyped(NoRxSlot)
<1>1. << >> \in Seq(Range32) /\ Len(<< >>) = 0 /\ Sorted(<< >>)
  BY DEF Sorted
<1>2. 0 \in Ids /\ 0 \in 0..MaxNakRounds /\ 0 <= MaxNakRanges
  BY LinkAssumption, MaxNakRangesAssumption DEF Ids
<1> QED
  BY <1>1, <1>2 DEF SlotTyped, NoRxSlot, Statuses

LEMMA ReturningTyped ==
    ASSUME NEW m, CallTyped(m), NEW st \in Statuses
    PROVE  CallTyped(Returning(m, st))
<1> DEFINE r == Returning(m, st)
<1>1. Like(r, m) /\ r.slot = m.slot /\ r.st = st
  BY ReturningIs DEF CallTyped
<1> HIDE DEF r
<1>2. CallTyped(r)
  BY <1>1 DEF CallTyped, Like
<1> QED
  BY <1>2 DEF r

LEMMA ReleaseTyped ==
    ASSUME MaxNakRounds \in Nat, NEW m, CallTyped(m), NEW st \in Statuses
    PROVE  CallTyped(ReleaseTerminal(m, st))
<1> DEFINE x == [id |-> m.slot.id, status |-> st]
           r == ReleaseTerminal(m, st)
<1>1. r.slot = NoRxSlot /\ r.events = Append(m.events, x) /\ r.st = m.st
  BY DEF ReleaseTerminal, CallTyped, IsCall
<1>2. IsCall(r)
  BY NoRxSlotIs DEF IsCall, ReleaseTerminal, CallTyped
<1>3. x \in RxEvents
  BY DEF RxEvents, CallTyped, SlotTyped
<1> HIDE DEF x, r
<1>4. r.events \in Seq(RxEvents)
  BY <1>1, <1>3 DEF CallTyped
<1>5. CallTyped(r)
  BY <1>1, <1>2, <1>4, NoRxSlotTyped DEF CallTyped
<1> QED
  BY <1>5 DEF r

\* Closing the handle changes nothing that is typed.
LEMMA CloseDiscardTyped ==
    ASSUME NEW m, CallTyped(m)
    PROVE  CallTyped(CloseDiscard(m))
<1> DEFINE r == CloseDiscard(m)
<1>1. IsCall(m) /\ IsSlot(m.slot)
  BY DEF CallTyped, IsCall
<1>2. /\ r.slot = [m.slot EXCEPT !.handleOpen = FALSE] /\ r.events = m.events /\ r.st = m.st
  BY <1>1 DEF CloseDiscard, IsCall, IsSlot, IsStore
<1>3. IsCall(r)
  BY <1>1 DEF CloseDiscard, IsCall, IsSlot, IsStore
<1> HIDE DEF r
<1>4. /\ r.slot.active = m.slot.active /\ r.slot.id = m.slot.id /\ r.slot.mode = m.slot.mode
      /\ r.slot.size = m.slot.size /\ r.slot.retry = m.slot.retry
      /\ r.slot.finished = m.slot.finished /\ r.slot.ranges = m.slot.ranges
  BY <1>1, <1>2 DEF IsSlot
<1>5. CallTyped(r)
  BY <1>2, <1>3, <1>4 DEF CallTyped, SlotTyped
<1> QED
  BY <1>5 DEF r

LEMMA EndReceiveTyped ==
    ASSUME MaxNakRounds \in Nat, NEW m, CallTyped(m), NEW id
    PROVE  CallTyped(EndReceive(m, id))
<1>1. m.st \in Statuses
  BY DEF CallTyped
<1>2. CallTyped(FailActive(m))
  BY <1>1, CloseDiscardTyped, ReleaseTyped DEF FailActive
<1> QED
  BY <1>2 DEF EndReceive

LEMMA SendFinishedTyped ==
    ASSUME NEW m, CallTyped(m), NEW st, NEW f
    PROVE  CallTyped(SendFinished(m, st, f))
<1>1. CASE "finished" \in f
  BY <1>1, ReturningTyped DEF SendFinished, Statuses
<1>2. CASE "finished" \notin f
  <2> DEFINE q == FinishedPdu(m.slot.id, FinishedCondition(st))
             r == [m EXCEPT !.out = @ \cup {q}, !.st = "OK"]
  <2>1. SendFinished(m, st, f) = r
    BY <1>2 DEF SendFinished
  <2> HIDE DEF q
  <2>2. IsCall(r)
    BY DEF IsCall, CallTyped
  <2>3. r.slot = m.slot /\ r.events = m.events /\ r.st = "OK"
    BY DEF IsCall, CallTyped
  <2> HIDE DEF r
  <2> QED
    BY <2>1, <2>2, <2>3 DEF CallTyped, Statuses
<1> QED
  BY <1>1, <1>2

LEMMA CloseAndStoreTyped ==
    ASSUME NEW m, CallTyped(m), NEW f
    PROVE  CallTyped(CloseAndStore(m, f))
<1> DEFINE closed == IF m.st = "OK" /\ m.slot.handleOpen /\ "close" \in f THEN "FILESTORE" ELSE m.st
           st     == IF closed = "OK" /\ ("commit" \in f \/ ~m.fs.exists)
                       THEN "FILESTORE" ELSE closed
           kept   == closed = "OK" /\ st # "OK"
           c      == IF st = "OK" THEN Append(m.commits, << m.slot.id, m.fs.tmp >>) ELSE m.commits
           tmp    == IF kept THEN m.fs.tmp ELSE << >>
           r      == CloseAndStore(m, f)
<1>1. IsCall(m) /\ IsSlot(m.slot) /\ IsStore(m.fs)
  BY DEF CallTyped, IsCall
<1>2. st \in Statuses
  BY DEF CallTyped, Statuses
<1>3. r = [m EXCEPT !.st = st, !.fs.open = @ /\ ~m.slot.handleOpen, !.slot.handleOpen = FALSE,
                    !.fs.exists = @ /\ kept, !.fs.tmp = tmp, !.commits = c]
  BY DEF CloseAndStore
<1> HIDE DEF closed, st, kept, c, tmp, r
<1>4. r.slot = [m.slot EXCEPT !.handleOpen = FALSE] /\ r.st = st /\ r.events = m.events
  BY <1>1, <1>3 DEF IsCall, IsSlot, IsStore
<1>5. IsCall(r)
  <2>1. r.fs = [m.fs EXCEPT !.open = @ /\ ~m.slot.handleOpen, !.exists = @ /\ kept, !.tmp = tmp]
    BY <1>1, <1>3 DEF IsCall, IsSlot, IsStore
  <2>2. IsStore(r.fs)
    BY <1>1, <2>1 DEF IsStore
  <2>3. IsSlot(r.slot)
    BY <1>1, <1>4 DEF IsSlot
  <2>4. r \in [slot: {r.slot}, fs: {r.fs}, out: {r.out}, events: {r.events},
              commits: {r.commits}, st: {r.st}]
    BY <1>1, <1>3 DEF IsCall
  <2> QED
    BY <2>2, <2>3, <2>4 DEF IsCall
<1>6. /\ r.slot.active = m.slot.active /\ r.slot.id = m.slot.id /\ r.slot.mode = m.slot.mode
      /\ r.slot.size = m.slot.size /\ r.slot.retry = m.slot.retry
      /\ r.slot.finished = m.slot.finished /\ r.slot.ranges = m.slot.ranges
  BY <1>1, <1>4 DEF IsSlot
<1>7. CallTyped(r)
  BY <1>2, <1>4, <1>5, <1>6 DEF CallTyped, SlotTyped
<1> QED
  BY <1>7 DEF r

\* Changing the slot of a call for a typed one.
LEMMA SetSlotTyped ==
    ASSUME NEW m, CallTyped(m), NEW x, IsSlot(x), SlotTyped(x),
           NEW r, r = [m EXCEPT !.slot = x]
    PROVE  CallTyped(r)
<1>1. r.slot = x /\ r.events = m.events /\ r.st = m.st
  BY DEF CallTyped, IsCall
<1>2. IsCall(r)
  BY DEF CallTyped, IsCall
<1> QED
  BY <1>1, <1>2 DEF CallTyped

LEMMA FinishTyped ==
    ASSUME MaxNakRounds \in Nat, NEW m, CallTyped(m), NEW f
    PROVE  CallTyped(Finish(m, f))
<1> DEFINE stored == CloseAndStore(m, f)
           st     == stored.st
           x      == [stored.slot EXCEPT !.finished = st]
           noted  == [stored EXCEPT !.slot = x]
           told   == IF m.slot.closure THEN SendFinished(noted, st, f)
                     ELSE Returning(stored, "OK")
           result == IF st = "OK" THEN told.st ELSE st
           final  == IF m.slot.mode = "ack" THEN told.st ELSE result
           y      == [told.slot EXCEPT !.recovery = FALSE, !.waiting = TRUE, !.retry = 0]
           wait   == [told EXCEPT !.slot = y]
           r      == Finish(m, f)
<1>1. CallTyped(stored)
  BY CloseAndStoreTyped
<1> HIDE DEF stored
<1>2. IsCall(stored) /\ IsSlot(stored.slot) /\ st \in Statuses /\ SlotTyped(stored.slot)
  BY <1>1 DEF CallTyped, IsCall
<1>3. noted = [stored EXCEPT !.slot.finished = st]
  BY <1>2 DEF IsCall, IsSlot
<1>4. r = IF m.slot.mode = "ack" /\ told.st = "OK"
            THEN [told EXCEPT !.st = st, !.slot.recovery = FALSE,
                              !.slot.waiting = TRUE, !.slot.retry = 0]
          ELSE Returning(ReleaseTerminal(told, final), result)
  BY <1>3 DEF Finish, stored
<1> HIDE DEF st, r
<1>5. IsSlot(x) /\ SlotTyped(x)
  BY <1>2 DEF IsSlot, SlotTyped
<1> HIDE DEF x
<1>6. CallTyped(noted)
  BY <1>1, <1>5, SetSlotTyped
<1> HIDE DEF noted
<1>7. CallTyped(told)
  BY <1>1, <1>6, SendFinishedTyped, ReturningTyped DEF Statuses
<1> HIDE DEF told
<1>8. told.st \in Statuses /\ result \in Statuses /\ final \in Statuses
  BY <1>2, <1>7 DEF CallTyped
<1>9. CASE ~(m.slot.mode = "ack" /\ told.st = "OK")
  <2> HIDE DEF final, result
  <2>1. CallTyped(ReleaseTerminal(told, final))
    BY <1>7, <1>8, ReleaseTyped
  <2>2. CallTyped(r)
    BY <1>4, <1>8, <1>9, <2>1, ReturningTyped
  <2> QED
    BY <2>2 DEF r
<1>10. CASE m.slot.mode = "ack" /\ told.st = "OK"
  <2>1. IsCall(told) /\ IsSlot(told.slot) /\ SlotTyped(told.slot)
    BY <1>7 DEF CallTyped, IsCall
  <2>2. IsSlot(y) /\ SlotTyped(y)
    <3>1. /\ IsSlot(y) /\ y.active = told.slot.active /\ y.id = told.slot.id
          /\ y.mode = told.slot.mode /\ y.size = told.slot.size /\ y.retry = 0
          /\ y.finished = told.slot.finished /\ y.ranges = told.slot.ranges
      BY <2>1 DEF IsSlot
    <3> HIDE DEF y
    <3> QED
      BY <2>1, <3>1 DEF SlotTyped
  <2>3. r = [wait EXCEPT !.st = st]
    <3>1. r = [told EXCEPT !.st = st, !.slot.recovery = FALSE,
                           !.slot.waiting = TRUE, !.slot.retry = 0]
      BY <1>4, <1>10
    <3> QED
      BY <2>1, <3>1 DEF IsCall, IsSlot
  <2> HIDE DEF y
  <2>4. CallTyped(wait)
    BY <1>7, <2>2, SetSlotTyped
  <2> HIDE DEF wait
  <2>5. CallTyped(Returning(wait, st))
    BY <1>2, <2>4, ReturningTyped
  <2> QED
    BY <2>3, <2>5 DEF Returning, r
<1> QED
  BY <1>9, <1>10

LEMMA FinishIfCompleteTyped ==
    ASSUME MaxNakRounds \in Nat, NEW m, CallTyped(m), NEW cksum, NEW f,
           NEW incomplete, CallTyped(incomplete)
    PROVE  CallTyped(FinishIfComplete(m, cksum, f, incomplete))
<1> DEFINE st == IF "read" \in f THEN "FILESTORE"
                 ELSE IF "shortRead" \in f THEN "SIZE"
                 ELSE IF m.fs.tmp # cksum THEN "CHECKSUM" ELSE "OK"
<1>1. st \in Statuses /\ "INVALID" \in Statuses
  BY DEF Statuses
<1>2. VerifyCompleteFile(m, cksum, f) = Returning(m, st)
  BY DEF VerifyCompleteFile
<1> HIDE DEF st
<1>3. CallTyped(Finish(Returning(m, st), f)) /\ CallTyped(Finish(Returning(m, "INVALID"), f))
  BY <1>1, ReturningTyped, FinishTyped
<1> QED
  BY <1>2, <1>3 DEF FinishIfComplete

LEMMA HandleMetadataTyped ==
    ASSUME MaxNakRounds \in Nat, limit.sizes \subseteq Nat, NEW m, CallTyped(m), NEW p, NEW c,
           PduGood(p, c), p.type = "METADATA", NEW f
    PROVE  CallTyped(HandleMetadata(m, p, f))
<1>1. CASE m.slot.active
  <2> DEFINE st == IF m.slot.id # p.id THEN "BUSY" ELSE "INVALID"
  <2>1. HandleMetadata(m, p, f) = Returning(m, st)
    BY <1>1 DEF HandleMetadata
  <2>2. st \in Statuses
    BY DEF Statuses
  <2> HIDE DEF st
  <2> QED
    BY <2>1, <2>2, ReturningTyped
<1>2. CASE ~m.slot.active /\ "open" \in f
  <2> DEFINE x == [id |-> p.id, status |-> "FILESTORE"]
             r == [m EXCEPT !.events = Append(@, x)]
  <2>1. HandleMetadata(m, p, f) = Returning(r, "FILESTORE")
    BY <1>2 DEF HandleMetadata
  <2>2. x \in RxEvents
    BY DEF RxEvents, Statuses, PduGood
  <2> HIDE DEF x
  <2>3. r.slot = m.slot /\ r.events = Append(m.events, x) /\ r.st = m.st
    BY DEF CallTyped, IsCall
  <2>4. IsCall(r)
    BY DEF CallTyped, IsCall
  <2> HIDE DEF r
  <2>5. CallTyped(r)
    BY <2>2, <2>3, <2>4 DEF CallTyped
  <2> QED
    BY <2>1, <2>5, ReturningTyped DEF Statuses
<1>3. CASE ~m.slot.active /\ "open" \notin f
  <2> DEFINE c2 == p.closure \/ p.mode = "ack"
             s == [NoRxSlot EXCEPT !.active = TRUE, !.id = p.id, !.mode = p.mode,
                                   !.size = p.size, !.handleOpen = TRUE, !.closure = c2]
             t == [u \in 0..(p.size - 1) |-> Hole]
             x == [m.fs EXCEPT !.exists = TRUE, !.open = TRUE, !.tmp = t]
             r == [m EXCEPT !.slot = s, !.fs = x]
  <2>1. HandleMetadata(m, p, f) = r
    BY <1>3, Zenon DEF HandleMetadata
  <2>2. IsStore(m.fs)
    BY DEF CallTyped, IsCall
  <2> HIDE DEF c2, t
  <2>3. /\ IsSlot(s) /\ s.active = TRUE /\ s.id = p.id /\ s.mode = p.mode /\ s.size = p.size
        /\ s.retry = 0 /\ s.finished = "OK" /\ s.ranges = << >>
    BY DEF IsSlot, NoRxSlot
  <2>4. IsStore(x)
    BY <2>2 DEF IsStore
  <2> HIDE DEF s, x
  <2>5. << >> \in Seq(Range32) /\ Len(<< >>) = 0 /\ Sorted(<< >>)
    BY DEF Sorted
  <2>6. SlotTyped(s)
    <3>1. p.id \in Ids /\ p.size \in Nat /\ p.mode \in {"ack", "unack"} /\ "OK" \in Statuses
      BY DEF PduGood, Statuses
    <3>2. 0 \in 0..MaxNakRounds /\ 0 <= MaxNakRanges
      BY MaxNakRangesAssumption
    <3> QED
      BY <2>3, <2>5, <3>1, <3>2 DEF SlotTyped
  <2>7. r.slot = s /\ r.events = m.events /\ r.st = m.st
    BY DEF CallTyped, IsCall
  <2>8. IsCall(r)
    BY <2>3, <2>4 DEF CallTyped, IsCall
  <2> HIDE DEF r
  <2> QED
    BY <2>1, <2>6, <2>7, <2>8 DEF CallTyped
<1> QED
  BY <1>1, <1>2, <1>3

\* receiver_handle_filedata: the array stays within its capacity.
LEMMA NoteRangeTyped ==
    ASSUME MaxNakRounds \in Nat, NEW m, CallTyped(m), NEW p, p.off \in Nat, NEW f
    PROVE  CallTyped(NoteRange(m, p, f))
<1> DEFINE added == RangesAdd(m.slot.ranges, p.off, p.off + 1)
           x     == [m.slot EXCEPT !.ranges = added.ranges]
           noted == [m EXCEPT !.slot = x]
<1>1. IsCall(m) /\ IsSlot(m.slot) /\ SlotTyped(m.slot)
  BY DEF CallTyped, IsCall
<1>2. /\ added.ranges \in Seq(Range32) /\ Sorted(added.ranges)
      /\ Len(added.ranges) <= MaxNakRanges
  BY <1>1, p.off + 1 \in Nat, RangesAddKeeps DEF SlotTyped
<1>3. added.status \in Statuses
  BY DEF RangesAdd, Statuses
<1>4. noted = [m EXCEPT !.slot.ranges = added.ranges]
  <2> HIDE DEF added
  <2> QED
    BY <1>1 DEF IsCall, IsSlot
<1>5. NoteRange(m, p, f) =
        IF added.status # "OK" THEN Returning(m, added.status)
        ELSE IF m.slot.eof /\ m.slot.mode = "ack"
          THEN FinishIfComplete(noted, m.slot.cksum, f, noted)
        ELSE noted
  BY <1>4 DEF NoteRange
<1> HIDE DEF added
<1>6. IsSlot(x) /\ SlotTyped(x)
  <2>1. /\ IsSlot(x) /\ x.active = m.slot.active /\ x.id = m.slot.id /\ x.mode = m.slot.mode
        /\ x.size = m.slot.size /\ x.retry = m.slot.retry
        /\ x.finished = m.slot.finished /\ x.ranges = added.ranges
    BY <1>1 DEF IsSlot
  <2> HIDE DEF x
  <2> QED
    BY <1>1, <1>2, <2>1 DEF SlotTyped
<1> HIDE DEF x
<1>7. CallTyped(noted)
  BY <1>6, SetSlotTyped
<1> HIDE DEF noted
<1> QED
  BY <1>3, <1>5, <1>7, ReturningTyped, FinishIfCompleteTyped

\* A change of the filestore and the status.
LEMMA SetStoreTyped ==
    ASSUME NEW m, CallTyped(m), NEW r, NEW x, NEW st \in Statuses, IsStore(x),
           r = [m EXCEPT !.fs = x, !.st = st]
    PROVE  CallTyped(r)
<1>1. r.slot = m.slot /\ r.events = m.events /\ r.st = st
  BY DEF CallTyped, IsCall
<1>2. IsCall(r)
  BY DEF CallTyped, IsCall
<1> QED
  BY <1>1, <1>2 DEF CallTyped

\* receiver_match_active returns a status.
LEMMA MatchTyped == ASSUME NEW m, NEW id PROVE MatchActive(m, id) \in Statuses
BY DEF MatchActive, Statuses

LEMMA HandleFileDataTyped ==
    ASSUME MaxNakRounds \in Nat, NEW m, CallTyped(m), NEW p, p.off \in Nat, NEW f
    PROVE  CallTyped(HandleFileData(m, p, f))
<1> DEFINE t      == [m.fs.tmp EXCEPT ![p.off] = p.data]
           wrong  == [m.fs EXCEPT !.nullWrite = TRUE]
           stored == [m.fs EXCEPT !.tmp = t]
           failed == [m EXCEPT !.fs = wrong, !.st = "FILESTORE"]
           wrote  == [m EXCEPT !.fs = stored, !.st = m.st]
           match  == MatchActive(m, p.id)
<1>1. IsCall(m) /\ IsStore(m.fs) /\ m.st \in Statuses
  BY DEF CallTyped, IsCall
<1>2. /\ failed = [m EXCEPT !.st = "FILESTORE", !.fs.nullWrite = TRUE]
      /\ wrote = [m EXCEPT !.fs.tmp[p.off] = p.data]
  <2> HIDE DEF t
  <2>1. failed = [m EXCEPT !.st = "FILESTORE", !.fs.nullWrite = TRUE]
    BY <1>1 DEF IsCall, IsStore
  <2>2. wrote = [m EXCEPT !.fs.tmp = t]
    BY <1>1 DEF IsCall, IsStore
  <2> QED
    BY <2>1, <2>2 DEF t
<1>3. HandleFileData(m, p, f) =
        IF match # "OK" THEN Returning(m, match)
        ELSE IF p.off + 1 > m.slot.size THEN Returning(m, "SIZE")
        ELSE IF ~m.slot.handleOpen THEN failed
        ELSE IF "write" \in f THEN Returning(m, "FILESTORE")
        ELSE NoteRange(wrote, p, f)
  BY <1>2, Zenon DEF HandleFileData
<1> HIDE DEF t
<1>4. IsStore(wrong) /\ IsStore(stored)
  BY <1>1 DEF IsStore
<1> HIDE DEF wrong, stored
<1>5. match \in Statuses /\ "SIZE" \in Statuses /\ "FILESTORE" \in Statuses
  BY MatchTyped DEF Statuses
<1>6. CallTyped(failed) /\ CallTyped(wrote)
  BY <1>1, <1>4, <1>5, SetStoreTyped
<1> HIDE DEF failed, wrote, match
<1>7. CallTyped(NoteRange(wrote, p, f))
  BY <1>6, NoteRangeTyped
<1>8. \A st \in Statuses : CallTyped(Returning(m, st))
  BY ReturningTyped
<1> QED
  BY <1>3, <1>5, <1>6, <1>7, <1>8

\* Sending a PDU.
LEMMA SendTyped ==
    ASSUME NEW m, CallTyped(m), NEW q, NEW r, r = [m EXCEPT !.out = @ \cup {q}]
    PROVE  CallTyped(r)
<1>1. r.slot = m.slot /\ r.events = m.events /\ r.st = m.st
  BY DEF CallTyped, IsCall
<1>2. IsCall(r)
  BY DEF CallTyped, IsCall
<1> QED
  BY <1>1, <1>2 DEF CallTyped

LEMMA SendNakTyped ==
    ASSUME NEW m, CallTyped(m), NEW f
    PROVE  CallTyped(SendNak(m, f))
<1> DEFINE missing == RangesMissing(m.slot.ranges, 0, m.slot.size)
           q       == NakPdu(m.slot.id, m.slot.size, missing.ranges)
           asked   == [m EXCEPT !.out = @ \cup {q}]
<1>1. missing.status \in {"OK", "BUFFER", "INVALID"}
  <2>1. /\ m.slot.ranges \in Seq(Range32) /\ Sorted(m.slot.ranges) /\ m.slot.size \in Nat
        /\ 0 \in Nat
    BY DEF CallTyped, SlotTyped
  <2> QED
    BY <2>1, RangesMissingIs
<1>2. SendNak(m, f) =
        IF missing.status = "BUFFER" THEN Returning(m, "NAK_LIMIT")
        ELSE IF missing.status # "OK" THEN Returning(m, missing.status)
        ELSE IF "nak" \in f THEN Returning(m, "INVALID")
        ELSE asked
  BY DEF SendNak
<1> HIDE DEF missing, q
<1>3. CallTyped(asked)
  BY SendTyped
<1> HIDE DEF asked
<1>4. \A st \in Statuses : CallTyped(Returning(m, st))
  BY ReturningTyped
<1>5. "NAK_LIMIT" \in Statuses /\ "INVALID" \in Statuses
  BY DEF Statuses
<1> QED
  BY <1>1, <1>2, <1>3, <1>4, <1>5

LEMMA EofIncompleteTyped ==
    ASSUME MaxNakRounds \in Nat, NEW m, CallTyped(m), NEW f
    PROVE  CallTyped(EofIncomplete(m, f))
<1> DEFINE x    == [m.slot EXCEPT !.eof = TRUE]
           seen == [m EXCEPT !.slot = x]
           nak  == SendNak(seen, f)
           y    == [nak.slot EXCEPT !.recovery = TRUE, !.retry = 0]
           wait == [nak EXCEPT !.slot = y]
<1>1. EofIncomplete(m, f) = IF m.slot.mode # "ack" THEN Finish(Returning(m, "SIZE"), f)
                            ELSE IF nak.st # "OK" THEN Finish(nak, f)
                            ELSE [nak EXCEPT !.slot.recovery = TRUE, !.slot.retry = 0]
  BY Zenon DEF EofIncomplete
<1>2. IsCall(m) /\ IsSlot(m.slot) /\ SlotTyped(m.slot)
  BY DEF CallTyped, IsCall
<1>3. IsSlot(x) /\ SlotTyped(x)
  <2>1. /\ IsSlot(x) /\ x.active = m.slot.active /\ x.id = m.slot.id /\ x.mode = m.slot.mode
        /\ x.size = m.slot.size /\ x.retry = m.slot.retry
        /\ x.finished = m.slot.finished /\ x.ranges = m.slot.ranges
    BY <1>2 DEF IsSlot
  <2> HIDE DEF x
  <2> QED
    BY <1>2, <2>1 DEF SlotTyped
<1> HIDE DEF x
<1>4. CallTyped(seen)
  BY <1>3, SetSlotTyped
<1> HIDE DEF seen
<1>5. CallTyped(nak)
  BY <1>4, SendNakTyped
<1> HIDE DEF nak
<1>6. IsCall(nak) /\ IsSlot(nak.slot) /\ SlotTyped(nak.slot)
  BY <1>5 DEF CallTyped, IsCall
<1>7. IsSlot(y) /\ SlotTyped(y)
  <2>1. /\ IsSlot(y) /\ y.active = nak.slot.active /\ y.id = nak.slot.id
        /\ y.mode = nak.slot.mode /\ y.size = nak.slot.size /\ y.retry = 0
        /\ y.finished = nak.slot.finished /\ y.ranges = nak.slot.ranges
    BY <1>6 DEF IsSlot
  <2> HIDE DEF y
  <2> QED
    BY <1>6, <2>1 DEF SlotTyped
<1>8. wait = [nak EXCEPT !.slot.recovery = TRUE, !.slot.retry = 0]
  BY <1>6 DEF IsCall, IsSlot
<1> HIDE DEF y
<1>9. CallTyped(wait)
  BY <1>5, <1>7, SetSlotTyped
<1> HIDE DEF wait
<1>10. CallTyped(Finish(nak, f)) /\ CallTyped(Finish(Returning(m, "SIZE"), f))
  BY <1>5, ReturningTyped, FinishTyped DEF Statuses
<1> QED
  BY <1>1, <1>8, <1>9, <1>10

LEMMA HandleEofTyped ==
    ASSUME MaxNakRounds \in Nat, NEW m, CallTyped(m), NEW p, NEW f
    PROVE  CallTyped(HandleEof(m, p, f))
<1> DEFINE x     == [m.slot EXCEPT !.cksum = p.cksum]
           noted == [m EXCEPT !.slot = x]
           q     == AckEofPdu(p.id)
           more  == [noted EXCEPT !.out = @ \cup {q}]
           acked == IF m.slot.mode = "ack" /\ "ack" \notin f THEN more ELSE noted
           told  == SendFinished(m, m.slot.finished, f)
           sized == Finish(Returning(acked, "SIZE"), f)
           ended == FinishIfComplete(acked, p.cksum, f, EofIncomplete(acked, f))
           match == MatchActive(m, p.id)
<1>1. IsCall(m) /\ IsSlot(m.slot) /\ SlotTyped(m.slot)
  BY DEF CallTyped, IsCall
<1>2. noted = [m EXCEPT !.slot.cksum = p.cksum]
  BY <1>1 DEF IsCall, IsSlot
<1>3. HandleEof(m, p, f) =
        IF match # "OK" THEN Returning(m, match)
        ELSE IF m.slot.waiting THEN told
        ELSE IF p.size # m.slot.size THEN sized
        ELSE IF m.slot.mode = "ack" /\ "ack" \in f THEN Returning(noted, "INVALID")
        ELSE ended
  BY <1>2, Zenon DEF HandleEof
<1>4. IsSlot(x) /\ SlotTyped(x)
  <2>1. /\ IsSlot(x) /\ x.active = m.slot.active /\ x.id = m.slot.id /\ x.mode = m.slot.mode
        /\ x.size = m.slot.size /\ x.retry = m.slot.retry
        /\ x.finished = m.slot.finished /\ x.ranges = m.slot.ranges
    BY <1>1 DEF IsSlot
  <2> HIDE DEF x
  <2> QED
    BY <1>1, <2>1 DEF SlotTyped
<1> HIDE DEF x
<1>5. CallTyped(noted)
  BY <1>4, SetSlotTyped
<1> HIDE DEF noted, q
<1>6. CallTyped(more)
  BY <1>5, SendTyped
<1> HIDE DEF more
<1>7. CallTyped(acked)
  BY <1>5, <1>6
<1> HIDE DEF acked
<1>8. "SIZE" \in Statuses /\ "INVALID" \in Statuses /\ match \in Statuses
  BY MatchTyped DEF Statuses
<1>9. CallTyped(told)
  BY SendFinishedTyped
<1>10. CallTyped(sized)
  BY <1>7, <1>8, ReturningTyped, FinishTyped
<1>11. CallTyped(ended)
  BY <1>7, EofIncompleteTyped, FinishIfCompleteTyped
<1>12. CallTyped(Returning(m, match)) /\ CallTyped(Returning(noted, "INVALID"))
  BY <1>5, <1>8, ReturningTyped
<1> HIDE DEF told, sized, ended, match
<1> QED
  BY <1>3, <1>9, <1>10, <1>11, <1>12

\* A whole call of ccsds_cfdp_entity_receive_pdu.
LEMMA HandleTyped ==
    ASSUME MaxNakRounds \in Nat, limit.sizes \subseteq Nat, NEW m, CallTyped(m), NEW p,
           PduGood(p, commits), p.to = "receiver", NEW f
    PROVE  CallTyped(EndReceive(Handle(m, p, f), p.id))
<1>1. p.type \in {"METADATA", "FILEDATA", "EOF", "ACK", "GARBLED"}
  BY DEF PduGood
<1>2. CASE p.type = "METADATA"
  BY <1>2, HandleMetadataTyped, EndReceiveTyped DEF Handle
<1>3. CASE p.type = "FILEDATA"
  <2>1. p.off \in Nat
    BY <1>3 DEF PduGood
  <2> QED
    BY <1>3, <2>1, HandleFileDataTyped, EndReceiveTyped DEF Handle
<1>4. CASE p.type = "EOF"
  BY <1>4, HandleEofTyped, EndReceiveTyped DEF Handle
<1>5. CASE p.type = "ACK"
  <2>1. m.slot.finished \in Statuses /\ "INVALID" \in Statuses
    BY DEF CallTyped, SlotTyped, Statuses
  <2>2. CallTyped(HandleAck(m, p))
    BY <2>1, ReturningTyped, ReleaseTyped DEF HandleAck
  <2>3. Handle(m, p, f) = HandleAck(m, p)
    BY <1>5 DEF Handle
  <2> QED
    BY <2>2, <2>3, EndReceiveTyped
<1>6. CASE p.type = "GARBLED"
  <2>1. Handle(m, p, f) = Returning(m, "MALFORMED") /\ "MALFORMED" \in Statuses
    BY <1>6 DEF Handle, Statuses
  <2> QED
    BY <2>1, ReturningTyped, EndReceiveTyped
<1> QED
  BY <1>1, <1>2, <1>3, <1>4, <1>5, <1>6

\* Another round is counted only below the limit.
LEMMA RetryTyped ==
    ASSUME MaxNakRounds \in Nat, NEW n, CallTyped(n), ~(n.slot.retry >= MaxNakRounds)
    PROVE  CallTyped([n EXCEPT !.slot.retry = @ + 1])
<1> DEFINE y == [n.slot EXCEPT !.retry = n.slot.retry + 1]
           r == [n EXCEPT !.slot = y]
<1>1. IsCall(n) /\ IsSlot(n.slot) /\ SlotTyped(n.slot)
  BY DEF CallTyped, IsCall
<1>2. IsSlot(y) /\ SlotTyped(y)
  <2>1. /\ IsSlot(y) /\ y.active = n.slot.active /\ y.id = n.slot.id
        /\ y.mode = n.slot.mode /\ y.size = n.slot.size /\ y.retry = n.slot.retry + 1
        /\ y.finished = n.slot.finished /\ y.ranges = n.slot.ranges
    BY <1>1 DEF IsSlot
  <2>2. n.slot.retry + 1 \in 0..MaxNakRounds
    BY <1>1 DEF SlotTyped
  <2> HIDE DEF y
  <2> QED
    BY <1>1, <2>1, <2>2 DEF SlotTyped
<1>3. [n EXCEPT !.slot.retry = @ + 1] = r
  OBVIOUS
<1> HIDE DEF y
<1>4. CallTyped(r)
  BY <1>2, SetSlotTyped
<1> QED
  BY <1>3, <1>4

\* A whole call of ccsds_cfdp_entity_poll.
LEMMA PollTyped ==
    ASSUME MaxNakRounds \in Nat, NEW m, CallTyped(m), m.slot.id = rx.id, NEW f
    PROVE  CallTyped(PollRecovery(m, f)) /\ CallTyped(PollWaiting(m, f))
<1>1. "INACTIVITY" \in Statuses
  BY DEF Statuses
<1>2. CallTyped(PollRecovery(m, f))
  <2> DEFINE nak == SendNak(m, f)
  <2>1. CallTyped(nak) /\ nak.slot = m.slot
    BY SendNakTyped, SendNakIs DEF CallTyped
  <2>2. PollRecovery(m, f) =
          IF m.slot.retry >= MaxNakRounds THEN ReleaseTerminal(CloseDiscard(m), "INACTIVITY")
          ELSE IF nak.st = "OK" THEN [nak EXCEPT !.slot.retry = @ + 1]
          ELSE ReleaseTerminal(CloseDiscard(m), nak.st)
    BY Zenon DEF PollRecovery
  <2> HIDE DEF nak
  <2>3. nak.st \in Statuses
    BY <2>1 DEF CallTyped
  <2>4. \A st \in Statuses : CallTyped(ReleaseTerminal(CloseDiscard(m), st))
    BY CloseDiscardTyped, ReleaseTyped
  <2>5. ~(m.slot.retry >= MaxNakRounds) => CallTyped([nak EXCEPT !.slot.retry = @ + 1])
    BY <2>1, RetryTyped
  <2> QED
    BY <1>1, <2>2, <2>3, <2>4, <2>5
<1>3. CallTyped(PollWaiting(m, f))
  <2> DEFINE told == SendFinished(m, m.slot.finished, f)
  <2>1. CallTyped(told) /\ told.slot = m.slot
    BY SendFinishedTyped DEF SendFinished, Returning, CallTyped, IsCall
  <2>2. PollWaiting(m, f) =
          IF m.slot.retry >= MaxNakRounds THEN ReleaseTerminal(m, "INACTIVITY")
          ELSE IF told.st = "OK" THEN [told EXCEPT !.slot.retry = @ + 1]
          ELSE ReleaseTerminal(m, told.st)
    BY Zenon DEF PollWaiting
  <2> HIDE DEF told
  <2>3. told.st \in Statuses
    BY <2>1 DEF CallTyped
  <2>4. \A st \in Statuses : CallTyped(ReleaseTerminal(m, st))
    BY ReleaseTyped
  <2>5. ~(m.slot.retry >= MaxNakRounds) => CallTyped([told EXCEPT !.slot.retry = @ + 1])
    BY <2>1, RetryTyped
  <2> QED
    BY <1>1, <2>2, <2>3, <2>4, <2>5
<1> QED
  BY <1>2, <1>3

-------------------------------------------------------------------------------
(* The link *)

\* No PDU is in flight after a step that was neither in flight nor sent in it.
LEMMA ExchangeAdds ==
    ASSUME NEW in, NEW out, Exchange(in, out)
    PROVE  InFlight' \subseteq InFlight \cup out
BY DEF Exchange, InFlight, BagToSet, SetToBag, (+), (-)

-------------------------------------------------------------------------------
(* The inductive invariant *)

\* Every PDU in flight is one of a transfer that was put.
NetInv == \A p \in InFlight : PduGood(p, commits)

TxEvents == [id: Ids, mode: {"ack", "unack"}, status: Statuses]

TxSlots == [active: BOOLEAN, id: Ids, size: limit.sizes \cup {0},
            nakRetry: 0..MaxNakRounds, retry: 0..MaxNakRounds]

\* The sender, and what it has reported.
TxInv ==
    /\ limit \in Scenarios /\ nextSeq \in Ids
    /\ tx \in TxSlots /\ (tx.active => tx.size \in limit.sizes)
    /\ txEvents \in Seq(TxEvents)
    /\ \A i \in 1..Len(txEvents) :
         txEvents[i].status = "OK" /\ txEvents[i].mode = "ack" => Has(commits, txEvents[i].id)

\* What has gone wrong so far.
SpentInv == spent \in [losses: 0..limit.losses, dups: 0..limit.dups,
                      damages: 0..limit.damages, faults: 0..limit.faults]

TransferInv == RxInv /\ NetInv /\ TxInv /\ SpentInv

\* Sequence numbers do not wrap: no more is put than there are numbers.
NoReuse == \A s \in Scenarios : s.puts <= SeqModulus

\* Transactions are numbered in the order they were put: n have been.
Numbered(n) ==
    /\ n = Len(txEvents) + (IF tx.active THEN 1 ELSE 0)
    /\ n <= SeqModulus
    /\ nextSeq = IF n = SeqModulus THEN 0 ELSE n
    /\ tx.active => tx.id = Len(txEvents)
    /\ \A i \in 1..Len(txEvents) : txEvents[i].id = i - 1
    /\ \A p \in InFlight : p.id \in 0..(n - 1)
    /\ rx.active => rx.id \in 0..(n - 1)
    /\ \A i \in 1..Len(rxEvents) : rxEvents[i].id \in 0..(n - 1)

NumberInv == \E n \in Nat : Numbered(n)

\* Finished and its ACK, which follow the verdict of the receiver.
Closing(p) == p.type = "FINISHED" \/ (p.type = "ACK" /\ p.to = "receiver")

\* The receiver has reported transaction id.
Reported(id) == \E i \in 1..Len(rxEvents) : rxEvents[i].id = id

\* Metadata is in flight once, and only before the receiver knows the transaction.
MetadataInv ==
    \A p \in InFlight : p.type = "METADATA" =>
        /\ net[p] = 1
        /\ \A q \in InFlight : q.id = p.id => ~Closing(q) /\ (q.type = "METADATA" => q = p)
        /\ ~(rx.active /\ rx.id = p.id) /\ ~Reported(p.id)

\* An active transaction is not reported, and not closed before its verdict.
ActiveInv ==
    rx.active => /\ ~Reported(rx.id)
                 /\ ~rx.waiting => \A q \in InFlight : q.id = rx.id => ~Closing(q)

\* The receiver reports a transaction once, as a success when it was committed, and an
\* open handle is the one its slot holds.
VerdictInv ==
    /\ Once(rxEvents)
    /\ \A i \in 1..Len(rxEvents) : rxEvents[i].status = "OK" => Has(commits, rxEvents[i].id)
    /\ fs.open => rx.active /\ rx.handleOpen

\* What holds as long as the link has not duplicated a PDU.
OnceInv == NothingRepeated => MetadataInv /\ ActiveInv /\ VerdictInv

\* The scenario is one the assumptions describe.
LEMMA LimitIs ==
    ASSUME TxInv
    PROVE  /\ limit.modes \subseteq {"ack", "unack"} /\ limit.closures \subseteq BOOLEAN
           /\ limit.sizes \subseteq 0..8 /\ limit.puts \in Nat /\ limit.losses \in Nat
           /\ limit.dups \in Nat /\ limit.damages \in Nat /\ limit.faults \in Nat
           /\ MaxNakRounds \in Nat \ {0}
BY LinkAssumption DEF TxInv, MaxNakRounds

\* A fault is counted, and nothing else.
LEMMA SpendFaultKeeps ==
    ASSUME TxInv, SpentInv, limit' = limit, NEW f, SpendFault(f), f = {} \/ \E x : f = {x}
    PROVE  SpentInv' /\ spent'.dups = spent.dups
<1>1. Cardinality(f) \in Nat
  <2>1. CASE f = {}
    BY <2>1, FS_EmptySet
  <2>2. CASE \E x : f = {x}
    <3>1. PICK x : f = {x}
      BY <2>2
    <3>2. Cardinality({x}) = 1
      BY FS_Singleton
    <3> QED
      BY <3>1, <3>2
  <2> QED
    BY <2>1, <2>2
<1> QED
  BY <1>1, LimitIs DEF SpendFault, SpentInv

-------------------------------------------------------------------------------
(* Steps of the receiver *)

\* What was committed stays committed.
HasKept == \A id \in Ids : Has(commits, id) => Has(commits', id)

\* A whole call keeps what holds of the receiver, and sends good PDUs.
LEMMA CallKeeps ==
    ASSUME RxInv, limit' = limit, NEW p, NEW m, Become(m),
           Same(m) \/ (rx.active /\ (Live(m) \/ Ended(m) \/ Acked(m)))
           \/ Opened(m, p) \/ OpenFailed(m, p)
    PROVE  RxInv' /\ HasKept /\ \A q \in m.out : PduGood(q, commits)'
<1>1. rx' = m.slot /\ fs' = m.fs /\ commits' = m.commits /\ rxEvents' = m.events
  BY DEF Become
<1>2. Intact' = Intact
  BY DEF Intact
<1>3. CASE Same(m) \/ OpenFailed(m, p)
  <2>1. rx' = rx /\ fs' = fs /\ commits' = commits /\ m.out = {}
    BY <1>1, <1>3 DEF Same, OpenFailed
  <2> QED
    BY <1>2, <2>1 DEF RxInv, SlotSound, SumGood, HasKept
<1>4. CASE Opened(m, p)
  <2>1. commits' = commits /\ m.out = {} /\ IsStore(fs')
    BY <1>1, <1>4 DEF Opened
  <2>2. SlotSound(rx, commits)' /\ SumGood(rx)'
    BY <1>1, <1>4, <2>1 DEF Opened, SlotSound, SumGood
  <2> QED
    BY <1>2, <2>1, <2>2 DEF RxInv, HasKept
<1>5. CASE rx.active /\ Live(m)
  <2>1. IsStore(fs') /\ commits' \in Seq(Intact') /\ HasKept
    BY <1>1, <1>2, <1>5 DEF Live, Running, IsCall, CommitsGood, HasKept
  <2>2. SlotSound(rx, commits)' /\ SumGood(rx)'
    BY <1>1, <1>5 DEF Live, Running, SlotSound, SumGood
  <2>3. \A q \in m.out : OutGood(q, commits') /\ rx.id \in Ids
    BY <1>1, <1>5 DEF Live, Running, RxInv, SlotSound
  <2> QED
    BY <2>1, <2>2, <2>3 DEF RxInv, PduGood, OutGood
<1>6. CASE rx.active /\ Ended(m)
  <2>1. IsStore(fs') /\ commits' \in Seq(Intact') /\ HasKept /\ rx' = NoRxSlot
    BY <1>1, <1>2, <1>6 DEF Ended, IsCall, CommitsGood, HasKept
  <2>2. SlotSound(rx, commits)' /\ SumGood(rx)'
    BY <2>1, NoRxSlotIs DEF SlotSound, SumGood
  <2>3. \A q \in m.out : OutGood(q, commits') /\ rx.id \in Ids
    BY <1>1, <1>6 DEF Ended, RxInv, SlotSound
  <2> QED
    BY <2>1, <2>2, <2>3 DEF RxInv, PduGood, OutGood
<1>7. CASE rx.active /\ Acked(m)
  <2>1. fs' = fs /\ commits' = commits /\ rx' = NoRxSlot /\ m.out = {}
    BY <1>1, <1>7 DEF Acked
  <2>2. SlotSound(rx, commits)' /\ SumGood(rx)'
    BY <2>1, NoRxSlotIs DEF SlotSound, SumGood
  <2> QED
    BY <1>2, <2>1, <2>2 DEF RxInv, HasKept
<1> QED
  BY <1>3, <1>4, <1>5, <1>6, <1>7

\* The PDUs in flight stay good when good ones are sent.
LEMMA NetKeeps ==
    ASSUME NetInv, limit' = limit, HasKept, NEW in, NEW out, Exchange(in, out),
           \A q \in out : PduGood(q, commits)'
    PROVE  NetInv'
<1>1. ASSUME NEW p \in InFlight PROVE PduGood(p, commits)'
  BY DEF NetInv, PduGood, HasKept
<1> QED
  BY <1>1, ExchangeAdds DEF NetInv

LEMMA TxUnchanged ==
    ASSUME TxInv, HasKept, UNCHANGED << txVars, limit >>
    PROVE  TxInv'
<1>1. ASSUME NEW i \in 1..Len(txEvents) PROVE txEvents[i].id \in Ids
  <2>1. txEvents[i] \in TxEvents
    BY DEF TxInv
  <2> QED
    BY <2>1 DEF TxEvents
<1>2. TxEvents' = TxEvents
  BY DEF TxEvents, Statuses
<1>3. TxSlots' = TxSlots
  BY DEF TxSlots, MaxNakRounds
<1> QED
  BY <1>1, <1>2, <1>3 DEF TxInv, txVars, HasKept

\* The whole state is kept by a call of the receiver; ccsds_cfdp_entity_receive_pdu
\* and ccsds_cfdp_entity_poll make one.
LEMMA ReceiverKeeps ==
    ASSUME TransferInv, UNCHANGED << txVars, limit >>, SpentInv', NEW p, NEW m,
           Become(m), Same(m) \/ (rx.active /\ (Live(m) \/ Ended(m) \/ Acked(m)))
                      \/ Opened(m, p) \/ OpenFailed(m, p),
           NEW in, Exchange(in, m.out)
    PROVE  TransferInv' /\ HasKept
<1>1. RxInv' /\ HasKept /\ \A q \in m.out : PduGood(q, commits)'
  BY CallKeeps DEF TransferInv
<1>2. NetInv'
  BY <1>1, NetKeeps DEF TransferInv
<1>3. TxInv'
  BY <1>1, TxUnchanged DEF TransferInv
<1> QED
  BY <1>1, <1>2, <1>3 DEF TransferInv

-------------------------------------------------------------------------------
(* Steps of the sender *)

\* A function on 1..n is a sequence of length n.
LEMMA FunctionIsSeq ==
    ASSUME NEW n \in Nat, NEW S, NEW g \in [1..n -> S]
    PROVE  g \in Seq(S) /\ Len(g) = n
OBVIOUS

\* A PDU of the file of transaction id: sent by the sender, and neither closes the
\* transaction nor, beyond the given one, opens it.
FilePdu(q, id, first) ==
    /\ PduGood(q, commits) /\ q.id = id /\ q.to = "receiver"
    /\ q.type \in {"METADATA", "FILEDATA", "EOF"} /\ (q.type = "METADATA" => q = first)

LEMMA FileDataIs ==
    ASSUME NEW id \in Ids, NEW off \in Nat, NEW first
    PROVE  LET q == FileDataPdu(id, off, id) IN FilePdu(q, id, first) /\ q.type # "METADATA"
BY DEF FilePdu, PduGood, FileDataPdu

LEMMA EofIs ==
    ASSUME NEW id \in Ids, NEW size, NEW first
    PROVE  LET q == EofPdu(id, size, SourceFile(id, size))
           IN  FilePdu(q, id, first) /\ q.type # "METADATA"
<1> DEFINE c == SourceFile(id, size)
<1>1. c = SourceFile(id, size)
  OBVIOUS
<1> HIDE DEF c
<1> QED
  BY <1>1 DEF FilePdu, PduGood, EofPdu

\* What send_file sends.
LEMMA TransferPdusAre ==
    ASSUME TxInv, NEW id \in Ids, NEW mode \in {"ack", "unack"}, NEW closure,
           NEW size \in limit.sizes
    PROVE  LET pdus == TransferPdus(id, mode, closure, size)
           IN  /\ Len(pdus) \in Nat
               /\ \A k \in 0..Len(pdus) : \A q \in FirstPdus(pdus, k) :
                    FilePdu(q, id, MetadataPdu(id, mode, closure, size))
<1> DEFINE first == MetadataPdu(id, mode, closure, size)
           g     == [u \in 1..size |-> FileDataPdu(id, u - 1, id)]
           eof   == EofPdu(id, size, SourceFile(id, size))
           P     == {q \in {first, eof} \cup {FileDataPdu(id, u - 1, id) : u \in 1..size} :
                       FilePdu(q, id, first)}
           pdus  == TransferPdus(id, mode, closure, size)
<1>1. size \in Nat
  BY LimitIs
<1>2. first \in P
  <2>1. FilePdu(first, id, first)
    BY DEF FilePdu, PduGood, MetadataPdu
  <2> QED
    BY <2>1
<1>3. eof \in P
  BY EofIs
<1>4. g \in Seq(P)
  <2>1. g \in [1..size -> P]
    <3>1. \A u \in 1..size : u - 1 \in Nat
      BY <1>1
    <3> QED
      BY <3>1, FileDataIs
  <2> QED
    BY <1>1, <2>1, FunctionIsSeq
<1>5. pdus = << first >> \o g \o << eof >>
  BY DEF TransferPdus
<1> HIDE DEF first, g, eof, pdus
<1>6. \A q \in P : FilePdu(q, id, first)
  OBVIOUS
<1> HIDE DEF P
<1>7. pdus \in Seq(P)
  <2>1. << first >> \in Seq(P) /\ << eof >> \in Seq(P)
    BY <1>2, <1>3
  <2>2. << first >> \o g \in Seq(P)
    BY <1>4, <2>1
  <2> QED
    BY <1>5, <2>1, <2>2
<1>8. Len(pdus) \in Nat /\ \A i \in 1..Len(pdus) : pdus[i] \in P
  BY <1>7
<1>9. \A k \in 0..Len(pdus) : \A q \in FirstPdus(pdus, k) : FilePdu(q, id, first)
  BY <1>6, <1>8 DEF FirstPdus
<1> QED
  BY <1>8, <1>9 DEF pdus, first

\* Reporting a transaction.
LEMMA TxReleaseKeeps ==
    ASSUME TxInv, UNCHANGED << commits, limit >>, nextSeq' \in Ids,
           NEW id \in Ids, NEW mode \in {"ack", "unack"}, NEW st \in Statuses,
           st = "OK" /\ mode = "ack" => Has(commits, id), TxRelease(id, mode, st)
    PROVE  TxInv'
<1> DEFINE x == [id |-> id, mode |-> mode, status |-> st]
<1>1. x \in TxEvents /\ x.id = id /\ x.mode = mode /\ x.status = st
  BY DEF TxEvents
<1>2. txEvents' = Append(txEvents, x) /\ tx' = NoTxSlot
  BY DEF TxRelease
<1> HIDE DEF x
<1>3. TxEvents' = TxEvents
  BY DEF TxEvents, Statuses
<1>4. /\ txEvents \in Seq(TxEvents) /\ txEvents' \in Seq(TxEvents)
      /\ Len(txEvents') = Len(txEvents) + 1 /\ Len(txEvents) \in Nat
      /\ txEvents'[Len(txEvents) + 1] = x
      /\ \A i \in 1..Len(txEvents) : txEvents'[i] = txEvents[i]
  BY <1>1, <1>2 DEF TxInv
<1>5. ASSUME NEW i \in 1..Len(txEvents'),
             txEvents'[i].status = "OK", txEvents'[i].mode = "ack"
      PROVE  Has(commits', txEvents'[i].id)
  <2>1. CASE i = Len(txEvents) + 1
    BY <1>1, <1>4, <1>5, <2>1
  <2>2. CASE i # Len(txEvents) + 1
    <3>1. i \in 1..Len(txEvents)
      BY <1>4, <2>2
    <3> QED
      BY <1>4, <1>5, <3>1 DEF TxInv
  <2> QED
    BY <2>1, <2>2
<1>6. tx' \in TxSlots' /\ tx'.active = FALSE
  <2>1. 0 \in Ids /\ 0 \in 0..MaxNakRounds /\ MaxNakRounds' = MaxNakRounds
    BY LinkAssumption, LimitIs DEF Ids, MaxNakRounds
  <2> QED
    BY <1>2, <2>1 DEF NoTxSlot, TxSlots
<1> QED
  BY <1>3, <1>4, <1>5, <1>6 DEF TxInv

\* What a step of the sender other than a put does: it retries, or it reports the
\* active transaction, as a success only of a file that was committed.
SenderMoves ==
    /\ nextSeq' = nextSeq
    /\ \/ /\ tx' \in TxSlots /\ tx'.active = tx.active /\ tx'.id = tx.id
          /\ tx'.size = tx.size /\ txEvents' = txEvents
       \/ /\ tx.active
          /\ \E st \in Statuses : /\ TxRelease(tx.id, "ack", st)
                                  /\ st = "OK" => Has(commits, tx.id)

\* What it sends.
SenderSends(q) ==
    /\ PduGood(q, commits) /\ q.type # "METADATA"
    /\ \/ tx.active /\ q.id = tx.id /\ ~Closing(q)
       \/ \E r \in InFlight : Closing(r) /\ r.id = q.id

SenderEffect(in) ==
    /\ SenderMoves /\ SpentInv' /\ spent'.dups = spent.dups
    /\ \E out : Exchange(in, out) /\ \A q \in out : SenderSends(q)

\* File Data and EOF sent again.
LEMMA AgainIs ==
    ASSUME TxInv, tx.active
    PROVE  /\ \A off \in Nat : SenderSends(FileDataPdu(tx.id, off, tx.id))
           /\ SenderSends(EofPdu(tx.id, tx.size, SourceFile(tx.id, tx.size)))
<1>1. tx.id \in Ids
  BY DEF TxInv, TxSlots
<1>2. ASSUME NEW q, FilePdu(q, tx.id, q), q.type # "METADATA" PROVE SenderSends(q)
  BY <1>2 DEF FilePdu, SenderSends, Closing
<1>3. ASSUME NEW off \in Nat PROVE SenderSends(FileDataPdu(tx.id, off, tx.id))
  BY <1>1, <1>2, FileDataIs
<1>4. SenderSends(EofPdu(tx.id, tx.size, SourceFile(tx.id, tx.size)))
  BY <1>1, <1>2, EofIs
<1> QED
  BY <1>3, <1>4

LEMMA SpentKept ==
    ASSUME SpentInv, limit' = limit, UNCHANGED spent
    PROVE  SpentInv' /\ spent'.dups = spent.dups
BY DEF SpentInv

\* ccsds_cfdp_entity_receive_pdu toward the sender.
LEMMA SenderReceiveEffect ==
    ASSUME TxInv, SpentInv, limit' = limit, NEW p \in InFlight, PduGood(p, commits),
           SenderReceive(p)
    PROVE  SenderEffect({p})
<1>1. nextSeq' = nextSeq
  BY DEF SenderReceive
<1>2. tx \in TxSlots
  BY DEF TxInv
<1>3. CASE UNCHANGED << tx, txEvents, spent >> /\ Exchange({p}, {})
  BY <1>1, <1>2, <1>3, SpentKept DEF SenderEffect, SenderMoves
<1>4. ASSUME tx.active, NEW st \in Statuses, st # "OK", TxRelease(tx.id, "ack", st)
      PROVE  SenderMoves
  BY <1>1, <1>4 DEF SenderMoves
<1>5. ASSUME tx.active, NEW x, SpendFault({x}) PROVE SpentInv' /\ spent'.dups = spent.dups
  BY <1>5, SpendFaultKeeps
<1>6. CASE ~TxIgnores(p) /\ p.type = "FINISHED" /\ HandleFinished(p)
  <2>1. tx.active /\ tx.id = p.id
    BY <1>6 DEF TxIgnores
  <2>2. CASE Exchange({p}, {}) /\ TxRelease(tx.id, "ack", "INVALID") /\ SpendFault({"send"})
    <3>1. SenderMoves
      BY <1>4, <2>1, <2>2 DEF Statuses
    <3>2. SpentInv' /\ spent'.dups = spent.dups
      BY <1>5, <2>1, <2>2
    <3> QED
      BY <2>2, <3>1, <3>2 DEF SenderEffect
  <2> DEFINE st == IF p.cond \in {"OK", "CHECKSUM", "SIZE", "FILESTORE"} THEN p.cond
                   ELSE "CANCEL"
             q  == AckFinishedPdu(p.id)
  <2>3. CASE Exchange({p}, {q}) /\ TxRelease(tx.id, "ack", st) /\ UNCHANGED spent
    <3>1. st \in Statuses /\ (st = "OK" => Has(commits, tx.id))
      BY <1>6, <2>1 DEF Statuses, PduGood
    <3> HIDE DEF st
    <3>2. SenderMoves
      BY <1>1, <2>1, <2>3, <3>1 DEF SenderMoves
    <3>3. PduGood(q, commits) /\ q.type = "ACK" /\ q.id = p.id
      BY DEF PduGood, AckFinishedPdu
    <3> HIDE DEF q
    <3>4. SenderSends(q)
      BY <1>6, <3>3 DEF SenderSends, Closing
    <3> QED
      BY <2>3, <3>2, <3>4, SpentKept DEF SenderEffect
  <2> QED
    BY <1>6, <2>2, <2>3 DEF HandleFinished
<1>7. CASE ~TxIgnores(p) /\ p.type = "NAK" /\ HandleNak(p)
  <2>1. tx.active
    BY <1>7 DEF TxIgnores
  <2>2. \A q \in RetransmitPdus(p) : SenderSends(q)
    <3>1. \A u \in 0..(tx.size - 1) : u \in Nat
      BY LimitIs DEF TxInv, TxSlots
    <3> QED
      BY <2>1, <3>1, AgainIs DEF RetransmitPdus
  <2>3. CASE /\ Exchange({p}, {}) /\ UNCHANGED spent
             /\ TxRelease(tx.id, "ack",
                          IF tx.nakRetry + 1 > MaxNakRounds THEN "NAK_LIMIT" ELSE "SIZE")
    <3>1. SenderMoves
      BY <1>4, <2>1, <2>3 DEF Statuses
    <3> QED
      BY <2>3, <3>1, SpentKept DEF SenderEffect
  <2>4. CASE /\ tx.nakRetry + 1 <= MaxNakRounds /\ Exchange({p}, RetransmitPdus(p))
             /\ tx' = [tx EXCEPT !.nakRetry = @ + 1] /\ UNCHANGED << txEvents, spent >>
    <3>1. SenderMoves
      BY <1>1, <1>2, <2>4, LimitIs DEF SenderMoves, TxSlots
    <3> QED
      BY <2>2, <2>4, <3>1, SpentKept DEF SenderEffect
  <2>5. CASE /\ \E cut \in 0..tx.size :
                  Exchange({p}, {q \in RetransmitPdus(p) : q.type = "FILEDATA" /\ q.off < cut})
             /\ \E st \in CallbackErrors : TxRelease(tx.id, "ack", st)
             /\ SpendFault({"callback"})
    <3>1. SenderMoves
      BY <1>4, <2>1, <2>5 DEF Statuses, CallbackErrors
    <3> QED
      BY <1>5, <2>1, <2>2, <2>5, <3>1 DEF SenderEffect
  <2> QED
    BY <1>7, <2>3, <2>4, <2>5 DEF HandleNak
<1>8. CASE /\ ~TxIgnores(p) /\ p.type = "GARBLED" /\ Exchange({p}, {})
           /\ TxRelease(tx.id, "ack", "MALFORMED") /\ UNCHANGED spent
  <2>1. tx.active
    BY <1>8 DEF TxIgnores
  <2>2. SenderMoves
    BY <1>4, <1>8, <2>1 DEF Statuses
  <2> QED
    BY <1>8, <2>2, SpentKept DEF SenderEffect
<1> QED
  BY <1>3, <1>6, <1>7, <1>8 DEF SenderReceive

\* ccsds_cfdp_entity_poll, sender part.
LEMMA PollSenderEffect ==
    ASSUME TxInv, SpentInv, limit' = limit, PollSender
    PROVE  SenderEffect({})
<1>1. nextSeq' = nextSeq /\ tx.active /\ tx \in TxSlots
  BY DEF PollSender, TxInv
<1>2. ASSUME NEW st \in Statuses, st # "OK", TxRelease(tx.id, "ack", st)
      PROVE  SenderMoves
  BY <1>1, <1>2 DEF SenderMoves
<1>3. CASE Exchange({}, {}) /\ TxRelease(tx.id, "ack", "INACTIVITY") /\ UNCHANGED spent
  <2>1. SenderMoves
    BY <1>2, <1>3 DEF Statuses
  <2> QED
    BY <1>3, <2>1, SpentKept DEF SenderEffect
<1>4. CASE /\ tx.retry < MaxNakRounds
           /\ Exchange({}, {EofPdu(tx.id, tx.size, SourceFile(tx.id, tx.size))})
           /\ tx' = [tx EXCEPT !.retry = @ + 1]
           /\ UNCHANGED << txEvents, spent >>
  <2>1. SenderMoves
    <3>1. tx.retry + 1 \in 0..MaxNakRounds
      BY <1>1, <1>4, LimitIs DEF TxSlots
    <3>2. tx' \in TxSlots /\ tx'.active = tx.active /\ tx'.id = tx.id /\ tx'.size = tx.size
      BY <1>1, <1>4, <3>1 DEF TxSlots
    <3> QED
      BY <1>1, <1>4, <3>2 DEF SenderMoves
  <2> DEFINE q == EofPdu(tx.id, tx.size, SourceFile(tx.id, tx.size))
  <2>2. SenderSends(q)
    BY <1>1, AgainIs
  <2> HIDE DEF q
  <2>3. Exchange({}, {q})
    BY <1>4 DEF q
  <2> QED
    BY <1>4, <2>1, <2>2, <2>3, SpentKept DEF SenderEffect
<1>5. CASE Exchange({}, {}) /\ TxRelease(tx.id, "ack", "INVALID") /\ SpendFault({"send"})
  <2>1. SenderMoves
    BY <1>2, <1>5 DEF Statuses
  <2> QED
    BY <1>5, <2>1, SpendFaultKeeps DEF SenderEffect
<1> QED
  BY <1>3, <1>4, <1>5 DEF PollSender

\* ccsds_cfdp_entity_send_file: the transaction is active, or it is reported at once.
PutEffect(mode, closure, size) ==
    /\ ~tx.active /\ Len(txEvents) < limit.puts /\ AdvanceSeq
    /\ SpentInv' /\ spent'.dups = spent.dups
    /\ \E out : /\ Exchange({}, out)
                /\ \A q \in out : FilePdu(q, nextSeq, MetadataPdu(nextSeq, mode, closure, size))
    /\ \/ /\ tx' = [NoTxSlot EXCEPT !.active = TRUE, !.id = nextSeq, !.size = size]
          /\ txEvents' = txEvents
       \/ \E st \in Statuses : /\ TxRelease(nextSeq, mode, st)
                               /\ st = "OK" => mode # "ack"

LEMMA SendEffect ==
    ASSUME TxInv, SpentInv, limit' = limit, NEW mode \in limit.modes,
           NEW closure \in limit.closures, NEW size \in limit.sizes,
           SendFile(mode, closure, size) \/ SendFileFails(mode, closure, size)
    PROVE  PutEffect(mode, closure, size)
<1> DEFINE pdus == TransferPdus(nextSeq, mode, closure, size)
           Good(q) == FilePdu(q, nextSeq, MetadataPdu(nextSeq, mode, closure, size))
<1>1. Len(pdus) \in Nat /\ \A k \in 0..Len(pdus) : \A q \in FirstPdus(pdus, k) : Good(q)
  <2>1. mode \in {"ack", "unack"}
    BY LimitIs
  <2> QED
    BY <2>1, TransferPdusAre DEF TxInv
<1>2. CASE SendFile(mode, closure, size)
  <2>1. /\ ~tx.active /\ Len(txEvents) < limit.puts /\ AdvanceSeq /\ UNCHANGED spent
        /\ Exchange({}, FirstPdus(pdus, Len(pdus)))
    BY <1>2 DEF SendFile
  <2>2. \/ /\ tx' = [NoTxSlot EXCEPT !.active = TRUE, !.id = nextSeq, !.size = size]
           /\ txEvents' = txEvents
        \/ \E st \in Statuses : /\ TxRelease(nextSeq, mode, st)
                                /\ st = "OK" => mode # "ack"
    <3>1. CASE mode = "ack"
      BY <1>2, <3>1 DEF SendFile
    <3>2. CASE mode # "ack"
      <4> DEFINE st == IF closure /\ HasClock THEN "INACTIVITY" ELSE "OK"
      <4>1. TxRelease(nextSeq, mode, st)
        BY <1>2, <3>2 DEF SendFile
      <4>2. st \in Statuses
        BY DEF Statuses
      <4> HIDE DEF st
      <4> QED
        BY <3>2, <4>1, <4>2
    <3> QED
      BY <3>1, <3>2
  <2> HIDE DEF pdus
  <2>3. \A q \in FirstPdus(pdus, Len(pdus)) : Good(q)
    BY <1>1
  <2> HIDE DEF Good
  <2>4. \E out : Exchange({}, out) /\ \A q \in out : Good(q)
    BY <2>1, <2>3
  <2> QED
    BY <2>1, <2>2, <2>4, SpentKept DEF PutEffect, Good
<1>3. CASE SendFileFails(mode, closure, size)
  <2>1. /\ ~tx.active /\ Len(txEvents) < limit.puts /\ AdvanceSeq /\ SpendFault({"callback"})
        /\ \E k \in 0..(Len(pdus) - 1) : Exchange({}, FirstPdus(pdus, k))
        /\ \E st \in CallbackErrors : TxRelease(nextSeq, mode, st)
    BY <1>3 DEF SendFileFails
  <2>2. \E st \in Statuses : TxRelease(nextSeq, mode, st) /\ st # "OK"
    BY <2>1 DEF CallbackErrors, Statuses
  <2>3. SpentInv' /\ spent'.dups = spent.dups
    BY <2>1, SpendFaultKeeps
  <2> HIDE DEF pdus, Good
  <2>4. \E out : Exchange({}, out) /\ \A q \in out : Good(q)
    BY <1>1, <2>1
  <2> QED
    BY <2>1, <2>2, <2>3, <2>4 DEF PutEffect, Good
<1> QED
  BY <1>2, <1>3

\* The next sequence number is one.
LEMMA SeqIsId == TxInv /\ AdvanceSeq => nextSeq' \in Ids
BY LinkAssumption DEF TxInv, AdvanceSeq, Ids

\* A step of the sender keeps the invariant: a put, and any other.
LEMMA PutKeeps ==
    ASSUME TransferInv, UNCHANGED << rxVars, limit >>, NEW mode \in limit.modes,
           NEW closure \in limit.closures, NEW size \in limit.sizes,
           PutEffect(mode, closure, size)
    PROVE  TransferInv'
<1>1. /\ RxInv' /\ HasKept
  BY DEF TransferInv, RxInv, SlotSound, SumGood, Intact, HasKept, rxVars
<1>2. NetInv'
  <2>1. PICK out : /\ Exchange({}, out)
                   /\ \A q \in out : FilePdu(q, nextSeq,
                                             MetadataPdu(nextSeq, mode, closure, size))
    BY DEF PutEffect
  <2>2. \A q \in out : PduGood(q, commits)'
    BY <2>1 DEF FilePdu, PduGood, rxVars
  <2> QED
    BY <1>1, <2>1, <2>2, NetKeeps DEF TransferInv
<1>3. nextSeq' \in Ids /\ nextSeq \in Ids /\ mode \in {"ack", "unack"} /\ TxInv
  BY SeqIsId, LimitIs DEF PutEffect, TransferInv, TxInv
<1>4. TxInv'
  <2>1. CASE \E st \in Statuses : TxRelease(nextSeq, mode, st) /\ (st = "OK" => mode # "ack")
    BY <1>3, <2>1, TxReleaseKeeps DEF rxVars
  <2>2. CASE /\ tx' = [NoTxSlot EXCEPT !.active = TRUE, !.id = nextSeq, !.size = size]
             /\ txEvents' = txEvents
    <3>1. TxEvents' = TxEvents /\ TxSlots' = TxSlots
      BY DEF TxEvents, Statuses, TxSlots, MaxNakRounds
    <3>2. 0 \in 0..MaxNakRounds
      BY <1>3, LimitIs
    <3>3. tx' \in TxSlots /\ tx'.size = size
      BY <1>3, <2>2, <3>2 DEF NoTxSlot, TxSlots
    <3> QED
      BY <1>3, <2>2, <3>1, <3>3 DEF TxInv, rxVars
  <2> QED
    BY <2>1, <2>2 DEF PutEffect
<1> QED
  BY <1>1, <1>2, <1>4 DEF TransferInv, PutEffect

LEMMA SenderKeeps ==
    ASSUME TransferInv, UNCHANGED << rxVars, limit >>, NEW in, SenderEffect(in)
    PROVE  TransferInv'
<1>1. /\ RxInv' /\ HasKept
  BY DEF TransferInv, RxInv, SlotSound, SumGood, Intact, HasKept, rxVars
<1>2. NetInv'
  <2>1. PICK out : Exchange(in, out) /\ \A q \in out : SenderSends(q)
    BY DEF SenderEffect
  <2>2. \A q \in out : PduGood(q, commits)'
    BY <2>1 DEF SenderSends, PduGood, rxVars
  <2> QED
    BY <1>1, <2>1, <2>2, NetKeeps DEF TransferInv
<1>3. TxInv'
  <2>1. TxInv /\ nextSeq' \in Ids /\ tx.id \in Ids
    BY DEF TransferInv, TxInv, SenderEffect, SenderMoves, TxSlots
  <2>2. CASE \E st \in Statuses : TxRelease(tx.id, "ack", st) /\ (st = "OK" => Has(commits, tx.id))
    BY <2>1, <2>2, TxReleaseKeeps DEF rxVars
  <2>3. CASE /\ tx' \in TxSlots /\ tx'.active = tx.active /\ tx'.id = tx.id
             /\ tx'.size = tx.size /\ txEvents' = txEvents
    <3>1. TxEvents' = TxEvents /\ TxSlots' = TxSlots
      BY DEF TxEvents, Statuses, TxSlots, MaxNakRounds
    <3> QED
      BY <2>1, <2>3, <3>1 DEF TxInv, rxVars
  <2> QED
    BY <2>2, <2>3 DEF SenderEffect, SenderMoves
<1> QED
  BY <1>1, <1>2, <1>3 DEF TransferInv, SenderEffect

-------------------------------------------------------------------------------
(* Safety of the transfer *)

\* What the link does to a PDU: unless it duplicates one, nothing that it puts in
\* flight opens or closes a transaction.
LinkEffect(p) ==
    /\ SpentInv'
    /\ \/ spent'.dups # 0 /\ Exchange({}, {p})
       \/ /\ spent'.dups = spent.dups
          /\ \E out : /\ Exchange({p}, out)
                      /\ \A q \in out : /\ PduGood(q, commits) /\ q.id = p.id
                                        /\ q.type \in {"FILEDATA", "GARBLED"}

LEMMA LinkStepEffect ==
    ASSUME TransferInv, limit' = limit, NEW p \in InFlight, LinkStep(p)
    PROVE  LinkEffect(p)
<1>1. TxInv /\ SpentInv /\ PduGood(p, commits)
  BY DEF TransferInv, NetInv
<1>2. CASE Lose(p)
  <2>1. SpentInv' /\ spent'.dups = spent.dups
    BY <1>1, <1>2, LimitIs DEF Lose, SpentInv
  <2> QED
    BY <1>2, <2>1 DEF Lose, LinkEffect
<1>3. CASE Duplicate(p)
  <2>1. SpentInv' /\ spent'.dups # 0
    BY <1>1, <1>3, LimitIs DEF Duplicate, SpentInv
  <2> QED
    BY <1>3, <2>1 DEF Duplicate, LinkEffect
<1>4. CASE Damage(p)
  <2>1. SpentInv' /\ spent'.dups = spent.dups
    BY <1>1, <1>4, LimitIs DEF Damage, SpentInv
  <2> DEFINE q == [p EXCEPT !.data = BadData]
             g == GarbledPdu(p.to, p.id)
  <2>2. CASE p.type = "FILEDATA" /\ Exchange({p}, {q})
    <3>1. PduGood(q, commits) /\ q.id = p.id /\ q.type = "FILEDATA"
      BY <1>1, <2>2 DEF PduGood
    <3> HIDE DEF q
    <3> QED
      BY <2>1, <2>2, <3>1 DEF LinkEffect
  <2>3. CASE Exchange({p}, {g})
    <3>1. PduGood(g, commits) /\ g.id = p.id /\ g.type = "GARBLED"
      BY <1>1 DEF PduGood, GarbledPdu
    <3> HIDE DEF g
    <3> QED
      BY <2>1, <2>3, <3>1 DEF LinkEffect
  <2> QED
    BY <1>4, <2>2, <2>3 DEF Damage
<1> QED
  BY <1>2, <1>3, <1>4 DEF LinkStep

LEMMA LinkKeeps ==
    ASSUME TransferInv, UNCHANGED << rxVars, txVars, limit >>, NEW p \in InFlight, LinkEffect(p)
    PROVE  TransferInv'
<1>1. RxInv' /\ HasKept
  BY DEF TransferInv, RxInv, SlotSound, SumGood, Intact, HasKept, rxVars
<1>2. TxInv'
  BY <1>1, TxUnchanged DEF TransferInv
<1>3. ASSUME NEW q, PduGood(q, commits) PROVE PduGood(q, commits)'
  BY <1>3 DEF PduGood, rxVars
<1>4. PduGood(p, commits)
  BY DEF TransferInv, NetInv
<1>5. NetInv'
  <2>1. CASE Exchange({}, {p})
    BY <1>1, <1>3, <1>4, <2>1, NetKeeps DEF TransferInv
  <2>2. CASE \E out : Exchange({p}, out) /\ \A q \in out : PduGood(q, commits)
    BY <1>1, <1>3, <2>2, NetKeeps DEF TransferInv
  <2> QED
    BY <2>1, <2>2 DEF LinkEffect
<1> QED
  BY <1>1, <1>2, <1>5 DEF TransferInv, LinkEffect

\* A call of the receiver, with what it consumes and sends.
ReceiverEffect(in) ==
    \E m, p : /\ Become(m) /\ Exchange(in, m.out) /\ SpentInv' /\ spent'.dups = spent.dups
              /\ \/ Same(m)
                 \/ rx.active /\ (Live(m) \/ Ended(m))
                 \/ /\ p \in InFlight /\ in = {p}
                    /\ \/ rx.active /\ p.id = rx.id /\ p.type = "ACK" /\ p.to = "receiver"
                          /\ Acked(m)
                       \/ ~rx.active /\ p.type = "METADATA" /\ (Opened(m, p) \/ OpenFailed(m, p))

LEMMA ReceiverReceiveEffect ==
    ASSUME TransferInv, limit' = limit, NEW p \in InFlight, ReceiverReceive(p)
    PROVE  ReceiverEffect({p})
<1>1. PICK f \in OneFaultOf(Callbacks(p)) :
        \E h \in {Handle(Call, p, f)} : \E m \in {EndReceive(h, p.id)} :
           SpendFault(f) /\ Exchange({p}, m.out) /\ Become(m)
  BY DEF ReceiverReceive
<1> DEFINE m == EndReceive(Handle(Call, p, f), p.id)
<1>2. SpendFault(f) /\ Exchange({p}, m.out) /\ Become(m)
  BY <1>1
<1>3. SpentInv' /\ spent'.dups = spent.dups
  <2>1. f = {} \/ \E x : f = {x}
    BY DEF OneFaultOf
  <2> QED
    BY <1>2, <2>1, SpendFaultKeeps DEF TransferInv
<1>4. PduGood(p, commits) /\ p.to = "receiver" /\ RxInv
  BY DEF TransferInv, NetInv, ReceiverReceive
<1>5. \/ Same(m)
      \/ rx.active /\ p.id = rx.id /\ (Live(m) \/ Ended(m))
      \/ rx.active /\ p.id = rx.id /\ p.type = "ACK" /\ Acked(m)
      \/ ~rx.active /\ p.type = "METADATA" /\ (Opened(m, p) \/ OpenFailed(m, p))
  BY <1>4, ReceiveEffect
<1> HIDE DEF m
<1> QED
  BY <1>2, <1>3, <1>4, <1>5 DEF ReceiverEffect

LEMMA PollReceiverEffect ==
    ASSUME TransferInv, limit' = limit, PollReceiver
    PROVE  ReceiverEffect({}) /\ rx.active
<1>1. PICK f \in OneFaultOf({"nak", "finished"}) :
        \E m \in {IF rx.recovery THEN PollRecovery(Call, f) ELSE PollWaiting(Call, f)} :
           SpendFault(f) /\ Exchange({}, m.out) /\ Become(m)
  BY DEF PollReceiver
<1> DEFINE m == IF rx.recovery THEN PollRecovery(Call, f) ELSE PollWaiting(Call, f)
<1>2. SpendFault(f) /\ Exchange({}, m.out) /\ Become(m)
  BY <1>1
<1>3. SpentInv' /\ spent'.dups = spent.dups
  <2>1. f = {} \/ \E x : f = {x}
    BY DEF OneFaultOf
  <2> QED
    BY <1>2, <2>1, SpendFaultKeeps DEF TransferInv
<1>4. rx.active /\ (rx.recovery \/ rx.waiting) /\ RxInv
  BY DEF TransferInv, PollReceiver
<1>5. Live(m) \/ Ended(m)
  BY <1>4, PollEffect
<1> HIDE DEF m
<1> QED
  BY <1>2, <1>3, <1>4, <1>5 DEF ReceiverEffect

\* Every step is one of these.
StepEffect ==
    \/ /\ UNCHANGED << rxVars, limit >>
       /\ \E mode \in limit.modes, closure \in limit.closures, size \in limit.sizes :
            PutEffect(mode, closure, size)
    \/ /\ UNCHANGED << rxVars, limit >>
       /\ \E in : SenderEffect(in)
    \/ /\ UNCHANGED << rxVars, txVars, limit >>
       /\ \E p \in InFlight : LinkEffect(p)
    \/ /\ UNCHANGED << txVars, limit >>
       /\ \E in : ReceiverEffect(in)
    \/ UNCHANGED vars

LEMMA EveryStep == TransferInv /\ [Next]_vars => StepEffect
<1> SUFFICES ASSUME TransferInv, [Next]_vars PROVE StepEffect
  OBVIOUS
<1>1. TxInv /\ SpentInv
  BY DEF TransferInv
<1>2. CASE Put
  <2>1. PICK mode \in limit.modes, closure \in limit.closures, size \in limit.sizes :
          SendFile(mode, closure, size) \/ SendFileFails(mode, closure, size)
    BY <1>2 DEF Put
  <2>2. PutEffect(mode, closure, size)
    BY <1>1, <1>2, <2>1, SendEffect DEF Put
  <2> QED
    BY <1>2, <2>2 DEF Put, StepEffect
<1>3. CASE \E p \in InFlight : Deliver(p)
  <2>1. PICK p \in InFlight : Deliver(p)
    BY <1>3
  <2>2. PduGood(p, commits)
    BY DEF TransferInv, NetInv
  <2>3. CASE ReceiverReceive(p) /\ UNCHANGED << txVars, limit >>
    BY <2>3, ReceiverReceiveEffect DEF StepEffect
  <2>4. CASE SenderReceive(p) /\ UNCHANGED << rxVars, limit >>
    BY <1>1, <2>2, <2>4, SenderReceiveEffect DEF StepEffect
  <2> QED
    BY <2>1, <2>3, <2>4 DEF Deliver
<1>4. CASE \E p \in InFlight : Misbehave(p)
  BY <1>4, LinkStepEffect DEF Misbehave, StepEffect
<1>5. CASE Poll
  <2>1. CASE PollReceiver /\ UNCHANGED << txVars, limit >>
    BY <2>1, PollReceiverEffect DEF StepEffect
  <2>2. CASE PollSender /\ UNCHANGED << rxVars, limit >>
    BY <1>1, <2>2, PollSenderEffect DEF StepEffect
  <2> QED
    BY <1>5, <2>1, <2>2 DEF Poll
<1>6. CASE UNCHANGED vars
  BY <1>6 DEF StepEffect
<1> QED
  BY <1>2, <1>3, <1>4, <1>5, <1>6 DEF Next

LEMMA TransferStep == TransferInv /\ [Next]_vars => TransferInv'
<1> SUFFICES ASSUME TransferInv, StepEffect PROVE TransferInv'
  BY EveryStep
<1>1. CASE /\ UNCHANGED << rxVars, limit >>
           /\ \E mode \in limit.modes, closure \in limit.closures, size \in limit.sizes :
                PutEffect(mode, closure, size)
  BY <1>1, PutKeeps
<1>2. CASE UNCHANGED << rxVars, limit >> /\ \E in : SenderEffect(in)
  BY <1>2, SenderKeeps
<1>3. CASE UNCHANGED << rxVars, txVars, limit >> /\ \E p \in InFlight : LinkEffect(p)
  BY <1>3, LinkKeeps
<1>4. CASE UNCHANGED << txVars, limit >> /\ \E in : ReceiverEffect(in)
  <2>1. PICK in : ReceiverEffect(in)
    BY <1>4
  <2>2. PICK m, p : /\ Become(m) /\ Exchange(in, m.out) /\ SpentInv'
                    /\ \/ Same(m) \/ (rx.active /\ (Live(m) \/ Ended(m) \/ Acked(m)))
                       \/ Opened(m, p) \/ OpenFailed(m, p)
    BY <2>1 DEF ReceiverEffect
  <2> QED
    BY <1>4, <2>2, ReceiverKeeps
<1>5. CASE UNCHANGED vars
  <2>1. UNCHANGED << rxVars, txVars, limit, net, spent >>
    BY <1>5 DEF vars, linkVars, rxVars, txVars
  <2>2. RxInv' /\ HasKept
    BY <2>1 DEF TransferInv, RxInv, SlotSound, SumGood, Intact, HasKept, rxVars
  <2>3. TxInv'
    BY <2>1, <2>2, TxUnchanged DEF TransferInv
  <2>4. NetInv'
    BY <2>1 DEF TransferInv, NetInv, PduGood, InFlight, rxVars
  <2> QED
    BY <2>1, <2>2, <2>3, <2>4 DEF TransferInv, SpentInv
<1> QED
  BY <1>1, <1>2, <1>3, <1>4, <1>5 DEF StepEffect

LEMMA TransferInit == Init => TransferInv
<1> SUFFICES ASSUME Init PROVE TransferInv
  OBVIOUS
<1>1. limit \in Scenarios
  BY DEF Init, LinkInit
<1>2. /\ MaxNakRounds \in Nat \ {0} /\ 0 \in Ids /\ limit.losses \in Nat /\ limit.dups \in Nat
      /\ limit.damages \in Nat /\ limit.faults \in Nat
  BY <1>1, LinkAssumption DEF MaxNakRounds, Ids
<1>3. SpentInv
  BY <1>2 DEF Init, LinkInit, SpentInv
<1>4. TxInv
  <2>1. tx \in TxSlots /\ tx.active = FALSE
    BY <1>2 DEF Init, TxInit, NoTxSlot, TxSlots
  <2> QED
    BY <1>1, <1>2, <2>1 DEF Init, TxInit, TxInv
<1>5. NetInv
  BY DEF Init, LinkInit, NetInv, InFlight, BagToSet, EmptyBag, SetToBag
<1>6. RxInv
  <2>1. IsStore(fs)
    BY DEF Init, RxInit, NoTmp, IsStore
  <2> QED
    BY <2>1, NoRxSlotIs DEF Init, RxInit, RxInv, SlotSound, SumGood
<1> QED
  BY <1>3, <1>4, <1>5, <1>6 DEF TransferInv

LEMMA TransferAlways == Spec => []TransferInv
BY TransferInit, TransferStep, PTL DEF Spec

\* Whatever the link loses, repeats, reorders or damages and whichever callback fails,
\* a file that receiver_finish commits is the file the sender read, whole.
THEOREM TransferCommittedIsIntact == Spec => []CommittedIsIntact
<1>1. TransferInv => CommittedIsIntact
  <2> SUFFICES ASSUME TransferInv, NEW i \in 1..Len(commits)
               PROVE  \E n \in limit.sizes : commits[i][2] = SourceFile(commits[i][1], n)
    BY DEF CommittedIsIntact
  <2>1. commits[i] \in Intact
    BY DEF TransferInv, RxInv
  <2>2. PICK id \in Ids, n \in limit.sizes : commits[i] = << id, SourceFile(id, n) >>
    BY <2>1 DEF Intact
  <2> QED
    BY <2>2
<1> QED
  BY <1>1, TransferAlways, PTL

\* An acknowledged transfer that release_sender_terminal reports COMPLETE is in the
\* receiver's filestore, whatever is duplicated.
THEOREM TransferCompleteIsCommitted == Spec => []CompleteIsCommitted
<1>1. TransferInv => CompleteIsCommitted
  BY DEF TransferInv, TxInv, CompleteIsCommitted, Committed, Has
<1> QED
  BY <1>1, TransferAlways, PTL

\* The receiver slot passes to another transaction only by being released.
THEOREM TransferSlotNotStolen == Spec => SlotNotStolen
<1>1. TransferInv /\ [Next]_vars => [rx.active /\ rx'.active => rx'.id = rx.id]_vars
  <2> SUFFICES ASSUME TransferInv, StepEffect, rx.active, rx'.active PROVE rx'.id = rx.id
    BY EveryStep
  <2>1. CASE UNCHANGED rx
    BY <2>1
  <2>2. CASE \E in : ReceiverEffect(in)
    BY <2>2, NoRxSlotIs DEF ReceiverEffect, Become, Same, Live, Running, Ended, Acked
  <2> QED
    BY <2>1, <2>2 DEF StepEffect, rxVars, vars
<1> QED
  BY <1>1, TransferAlways, PTL DEF Spec, SlotNotStolen

\* The slot of the receiver and its events have their types.
RxTyped == SlotTyped(rx) /\ rxEvents \in Seq(RxEvents)

LEMMA TypedStep == TransferInv /\ RxTyped /\ [Next]_vars => RxTyped'
<1> SUFFICES ASSUME TransferInv, RxTyped, [Next]_vars PROVE RxTyped'
  OBVIOUS
<1>1. MaxNakRounds \in Nat /\ limit.sizes \subseteq Nat /\ RxInv /\ NetInv
  BY LimitIs DEF TransferInv
<1>2. CallTyped(Call) /\ Call.slot.id = rx.id
  <2>1. "OK" \in Statuses
    BY DEF Statuses
  <2> QED
    BY <1>1, <2>1, CallIs DEF CallTyped, RxTyped
<1>3. ASSUME UNCHANGED << rx, rxEvents, limit >> PROVE RxTyped'
  BY <1>3 DEF RxTyped, SlotTyped, RxEvents, MaxNakRounds
<1>4. ASSUME limit' = limit, NEW m, CallTyped(m), Become(m) PROVE RxTyped'
  BY <1>4 DEF RxTyped, SlotTyped, RxEvents, MaxNakRounds, CallTyped, Become
<1>5. ASSUME NEW p \in InFlight, ReceiverReceive(p), limit' = limit PROVE RxTyped'
  <2>1. PICK f : Become(EndReceive(Handle(Call, p, f), p.id))
    BY <1>5 DEF ReceiverReceive
  <2>2. PduGood(p, commits) /\ p.to = "receiver"
    BY <1>1, <1>5 DEF NetInv, ReceiverReceive
  <2>3. CallTyped(EndReceive(Handle(Call, p, f), p.id))
    BY <1>1, <1>2, <2>2, HandleTyped
  <2> QED
    BY <1>4, <1>5, <2>1, <2>3
<1>6. ASSUME PollReceiver, limit' = limit PROVE RxTyped'
  <2>1. PICK f : Become(IF rx.recovery THEN PollRecovery(Call, f) ELSE PollWaiting(Call, f))
    BY <1>6 DEF PollReceiver
  <2>2. CallTyped(PollRecovery(Call, f)) /\ CallTyped(PollWaiting(Call, f))
    BY <1>1, <1>2, PollTyped
  <2>3. CASE rx.recovery
    BY <1>4, <1>6, <2>1, <2>2, <2>3
  <2>4. CASE ~rx.recovery
    BY <1>4, <1>6, <2>1, <2>2, <2>4
  <2> QED
    BY <2>3, <2>4
<1>7. CASE Put
  BY <1>3, <1>7 DEF Put, rxVars
<1>8. CASE \E p \in InFlight : Deliver(p)
  BY <1>3, <1>5, <1>8 DEF Deliver, rxVars
<1>9. CASE \E p \in InFlight : Misbehave(p)
  BY <1>3, <1>9 DEF Misbehave, rxVars
<1>10. CASE Poll
  BY <1>3, <1>6, <1>10 DEF Poll, rxVars
<1>11. CASE UNCHANGED vars
  BY <1>3, <1>11 DEF vars, linkVars
<1> QED
  BY <1>7, <1>8, <1>9, <1>10, <1>11 DEF Next

LEMMA TypedInit == Init => RxTyped
<1>1. Init => MaxNakRounds \in Nat
  BY TransferInit, LimitIs DEF TransferInv
<1>2. Init => rx = NoRxSlot /\ rxEvents = << >>
  BY DEF Init, RxInit
<1> QED
  BY <1>1, <1>2, NoRxSlotTyped DEF RxTyped

LEMMA TransferTyped == Spec => [](TransferInv /\ RxTyped)
BY TransferInit, TransferStep, TypedInit, TypedStep, PTL DEF Spec

-------------------------------------------------------------------------------
(* Transactions are numbered in the order of the put requests *)

\* An event appended.
LEMMA AppendIs ==
    ASSUME NEW S, NEW s \in Seq(S), NEW x
    PROVE  /\ Len(Append(s, x)) = Len(s) + 1 /\ Append(s, x)[Len(s) + 1] = x
           /\ \A i \in 1..Len(s) : Append(s, x)[i] = s[i]
OBVIOUS

\* The numbers of the transactions the sender has reported, when it reports another.
LEMMA NumberRelease ==
    ASSUME TxInv, NEW mode, NEW st, TxRelease(Len(txEvents), mode, st),
           \A i \in 1..Len(txEvents) : txEvents[i].id = i - 1
    PROVE  /\ tx'.active = FALSE /\ Len(txEvents') = Len(txEvents) + 1
           /\ \A i \in 1..Len(txEvents') : txEvents'[i].id = i - 1
<1> DEFINE k == Len(txEvents)
           x == [id |-> k, mode |-> mode, status |-> st]
<1>1. txEvents \in Seq(TxEvents) /\ k \in Nat
  BY DEF TxInv
<1>2. txEvents' = Append(txEvents, x) /\ x.id = k /\ tx'.active = FALSE
  BY DEF TxRelease, NoTxSlot
<1> HIDE DEF x
<1>3. /\ Len(txEvents') = k + 1 /\ txEvents'[k + 1] = x
      /\ \A i \in 1..k : txEvents'[i] = txEvents[i]
  BY <1>1, <1>2, AppendIs
<1>4. \A i \in 1..(k + 1) : i = k + 1 \/ i \in 1..k
  BY <1>1
<1> QED
  BY <1>1, <1>2, <1>3, <1>4

\* What a put does to the numbers: its transaction has the next one.
LEMMA NumberPut ==
    ASSUME NoReuse, TxInv, UNCHANGED << rxVars, limit >>, NEW n \in Nat, Numbered(n),
           NEW mode, NEW closure, NEW size, PutEffect(mode, closure, size)
    PROVE  Numbered(n + 1)' /\ nextSeq = n
<1>1. /\ tx.active = FALSE /\ Len(txEvents) < limit.puts /\ limit \in Scenarios
      /\ limit.puts \in Nat /\ Len(txEvents) \in Nat /\ SeqModulus \in Nat \ {0}
  BY LimitIs, LinkAssumption DEF PutEffect, TxInv, TxSlots
<1>2. n = Len(txEvents) /\ n < SeqModulus /\ nextSeq = n
  BY <1>1 DEF Numbered, NoReuse
<1>3. nextSeq' = IF n + 1 = SeqModulus THEN 0 ELSE n + 1
  <2>1. nextSeq' = (n + 1) % SeqModulus
    BY <1>2 DEF PutEffect, AdvanceSeq
  <2> QED
    BY <1>1, <1>2, <2>1
<1>4. \A i \in 0..(n - 1) : i \in 0..((n + 1) - 1)
  OBVIOUS
<1>5. \A p \in InFlight' : p.id \in 0..((n + 1) - 1)
  <2>1. PICK out : /\ Exchange({}, out)
                   /\ \A q \in out : FilePdu(q, nextSeq,
                                             MetadataPdu(nextSeq, mode, closure, size))
    BY DEF PutEffect
  <2>2. \A q \in out : q.id = n
    BY <1>2, <2>1 DEF FilePdu
  <2>3. \A q \in InFlight : q.id \in 0..(n - 1)
    BY DEF Numbered
  <2> QED
    BY <1>4, <2>1, <2>2, <2>3, ExchangeAdds
<1>6. /\ n + 1 = Len(txEvents') + (IF tx'.active THEN 1 ELSE 0)
      /\ tx'.active => tx'.id = Len(txEvents')
      /\ \A i \in 1..Len(txEvents') : txEvents'[i].id = i - 1
  <2>1. CASE /\ tx' = [NoTxSlot EXCEPT !.active = TRUE, !.id = nextSeq, !.size = size]
             /\ txEvents' = txEvents
    <3>1. tx'.active = TRUE /\ tx'.id = nextSeq
      BY <2>1 DEF NoTxSlot
    <3> QED
      BY <1>2, <2>1, <3>1 DEF Numbered
  <2>2. CASE \E st \in Statuses : TxRelease(nextSeq, mode, st)
    <3>1. PICK st : TxRelease(Len(txEvents), mode, st)
      BY <1>2, <2>2
    <3>2. /\ tx'.active = FALSE /\ Len(txEvents') = Len(txEvents) + 1
          /\ \A i \in 1..Len(txEvents') : txEvents'[i].id = i - 1
      BY <3>1, NumberRelease DEF Numbered
    <3> QED
      BY <1>2, <3>2
  <2> QED
    BY <2>1, <2>2 DEF PutEffect
<1>7. /\ rx'.active => rx'.id \in 0..((n + 1) - 1)
      /\ \A i \in 1..Len(rxEvents') : rxEvents'[i].id \in 0..((n + 1) - 1)
  BY <1>4 DEF Numbered, rxVars
<1>8. n + 1 <= SeqModulus
  BY <1>1, <1>2
<1> QED
  BY <1>2, <1>3, <1>5, <1>6, <1>7, <1>8 DEF Numbered

\* Another step of the sender numbers nothing.
LEMMA NumberSender ==
    ASSUME TxInv, UNCHANGED << rxVars, limit >>, NEW n \in Nat, Numbered(n),
           NEW in, SenderEffect(in)
    PROVE  Numbered(n)'
<1>1. Len(txEvents) \in Nat /\ tx.active \in BOOLEAN
  BY DEF TxInv, TxSlots
<1>2. \A p \in InFlight' : p.id \in 0..(n - 1)
  <2>1. PICK out : Exchange(in, out) /\ \A q \in out : SenderSends(q)
    BY DEF SenderEffect
  <2>2. tx.active => tx.id \in 0..(n - 1)
    BY <1>1 DEF Numbered
  <2>3. \A q \in InFlight : q.id \in 0..(n - 1)
    BY DEF Numbered
  <2>4. \A q \in out : q.id \in 0..(n - 1)
    BY <2>1, <2>2, <2>3 DEF SenderSends
  <2> QED
    BY <2>1, <2>3, <2>4, ExchangeAdds
<1>3. /\ n = Len(txEvents') + (IF tx'.active THEN 1 ELSE 0)
      /\ tx'.active => tx'.id = Len(txEvents')
      /\ \A i \in 1..Len(txEvents') : txEvents'[i].id = i - 1
  <2>1. CASE /\ tx'.active = tx.active /\ tx'.id = tx.id /\ txEvents' = txEvents
    BY <2>1 DEF Numbered
  <2>2. CASE tx.active /\ \E st \in Statuses : TxRelease(tx.id, "ack", st)
    <3>1. PICK st : TxRelease(Len(txEvents), "ack", st)
      BY <2>2 DEF Numbered
    <3>2. /\ tx'.active = FALSE /\ Len(txEvents') = Len(txEvents) + 1
          /\ \A i \in 1..Len(txEvents') : txEvents'[i].id = i - 1
      BY <3>1, NumberRelease DEF Numbered
    <3>3. n = Len(txEvents) + 1
      BY <2>2 DEF Numbered
    <3> QED
      BY <1>1, <3>2, <3>3
  <2> QED
    BY <2>1, <2>2 DEF SenderEffect, SenderMoves
<1>4. nextSeq' = nextSeq
  BY DEF SenderEffect, SenderMoves
<1> QED
  BY <1>2, <1>3, <1>4 DEF Numbered, rxVars

\* Nor does the link.
LEMMA NumberLink ==
    ASSUME UNCHANGED << rxVars, txVars, limit >>, NEW n \in Nat, Numbered(n),
           NEW p \in InFlight, LinkEffect(p)
    PROVE  Numbered(n)'
<1>1. \A q \in InFlight : q.id \in 0..(n - 1)
  BY DEF Numbered
<1>2. PICK in, out : Exchange(in, out) /\ \A q \in out : q.id = p.id
  BY DEF LinkEffect
<1>3. \A q \in InFlight' : q.id \in 0..(n - 1)
  BY <1>1, <1>2, ExchangeAdds
<1> QED
  BY <1>3 DEF Numbered, rxVars, txVars

\* Nor the receiver: it answers, takes and reports transactions it was told of.
LEMMA NumberReceiver ==
    ASSUME RxTyped, UNCHANGED << txVars, limit >>, NEW n \in Nat, Numbered(n),
           NEW in, ReceiverEffect(in)
    PROVE  Numbered(n)'
<1> DEFINE Known(id) == id \in 0..(n - 1)
<1>1. /\ \A q \in InFlight : Known(q.id)
      /\ rx.active => Known(rx.id)
      /\ \A i \in 1..Len(rxEvents) : Known(rxEvents[i].id)
  BY DEF Numbered
<1>2. PICK m, p : /\ Become(m) /\ Exchange(in, m.out)
                  /\ \/ Same(m)
                     \/ rx.active /\ (Live(m) \/ Ended(m))
                     \/ /\ p \in InFlight
                        /\ \/ rx.active /\ Acked(m)
                           \/ ~rx.active /\ (Opened(m, p) \/ OpenFailed(m, p))
  BY DEF ReceiverEffect
<1>3. rx' = m.slot /\ rxEvents' = m.events
  BY <1>2 DEF Become
<1> HIDE DEF Known
<1>4. \A q \in m.out : Known(q.id)
  BY <1>1, <1>2 DEF Same, Live, Running, Ended, OutGood, Acked, Opened, OpenFailed
<1>5. \A q \in InFlight' : Known(q.id)
  BY <1>1, <1>2, <1>4, ExchangeAdds
<1>6. rx'.active => Known(rx'.id)
  BY <1>1, <1>2, <1>3, NoRxSlotIs DEF Same, Live, Running, Ended, Acked, Opened, OpenFailed
<1>7. ASSUME NEW x, Known(x.id), rxEvents' = Append(rxEvents, x)
      PROVE  \A i \in 1..Len(rxEvents') : Known(rxEvents'[i].id)
  <2>1. rxEvents \in Seq(RxEvents) /\ Len(rxEvents) \in Nat
    BY DEF RxTyped
  <2>2. /\ Len(rxEvents') = Len(rxEvents) + 1 /\ rxEvents'[Len(rxEvents) + 1] = x
        /\ \A i \in 1..Len(rxEvents) : rxEvents'[i] = rxEvents[i]
    BY <1>7, <2>1, AppendIs
  <2>3. \A i \in 1..(Len(rxEvents) + 1) : i = Len(rxEvents) + 1 \/ i \in 1..Len(rxEvents)
    BY <2>1
  <2> QED
    BY <1>1, <1>7, <2>2, <2>3
<1>8. \A i \in 1..Len(rxEvents') : Known(rxEvents'[i].id)
  <2>1. CASE Same(m) \/ Live(m) \/ Opened(m, p)
    BY <1>1, <1>3, <2>1 DEF Same, Live, Running, Opened
  <2>2. CASE rx.active /\ (Ended(m) \/ Acked(m))
    <3>1. PICK st : rxEvents' = Append(rxEvents, [id |-> rx.id, status |-> st])
      BY <1>3, <2>2 DEF Ended, Acked
    <3> QED
      BY <1>1, <1>7, <2>2, <3>1
  <2>3. CASE p \in InFlight /\ OpenFailed(m, p)
    <3>1. PICK st : rxEvents' = Append(rxEvents, [id |-> p.id, status |-> st])
      BY <1>3, <2>3 DEF OpenFailed
    <3> QED
      BY <1>1, <1>7, <2>3, <3>1
  <2> QED
    BY <1>2, <2>1, <2>2, <2>3
<1> QED
  BY <1>5, <1>6, <1>8 DEF Numbered, txVars, Known

LEMMA NumberInit == Init => NumberInv
<1> SUFFICES ASSUME Init PROVE Numbered(0)
  BY DEF NumberInv
<1>1. /\ InFlight = {} /\ txEvents = << >> /\ rxEvents = << >> /\ nextSeq = 0
      /\ tx.active = FALSE /\ rx.active = FALSE
  BY NoRxSlotIs DEF Init, LinkInit, TxInit, RxInit, NoTxSlot, InFlight, BagToSet, EmptyBag,
                    SetToBag
<1> QED
  BY <1>1, LinkAssumption DEF Numbered

LEMMA NumberStep ==
    NoReuse /\ TransferInv /\ RxTyped /\ NumberInv /\ [Next]_vars => NumberInv'
<1> SUFFICES ASSUME NoReuse, TransferInv, RxTyped, NumberInv, StepEffect PROVE NumberInv'
  BY EveryStep
<1>1. PICK n \in Nat : Numbered(n)
  BY DEF NumberInv
<1>2. TxInv /\ n + 1 \in Nat
  BY DEF TransferInv
<1>3. CASE /\ UNCHANGED << rxVars, limit >>
           /\ \E mode \in limit.modes, closure \in limit.closures, size \in limit.sizes :
                PutEffect(mode, closure, size)
  <2>1. Numbered(n + 1)'
    BY <1>1, <1>2, <1>3, NumberPut
  <2> QED
    BY <1>2, <2>1 DEF NumberInv
<1>4. CASE UNCHANGED << rxVars, limit >> /\ \E in : SenderEffect(in)
  BY <1>1, <1>2, <1>4, NumberSender DEF NumberInv
<1>5. CASE UNCHANGED << rxVars, txVars, limit >> /\ \E p \in InFlight : LinkEffect(p)
  BY <1>1, <1>5, NumberLink DEF NumberInv
<1>6. CASE UNCHANGED << txVars, limit >> /\ \E in : ReceiverEffect(in)
  BY <1>1, <1>6, NumberReceiver DEF NumberInv
<1>7. CASE UNCHANGED vars
  <2>1. Numbered(n)'
    BY <1>1, <1>7 DEF Numbered, vars, linkVars, InFlight
  <2> QED
    BY <2>1 DEF NumberInv
<1> QED
  BY <1>3, <1>4, <1>5, <1>6, <1>7 DEF StepEffect

-------------------------------------------------------------------------------
(* A link that repeats nothing *)

\* How often a PDU is in flight after a call that consumes `in' and sends `out'.
LEMMA ExchangeCounts ==
    ASSUME IsABag(net), NEW in, NEW out, Exchange(in, out)
    PROVE  /\ IsABag(net')
           /\ \A p \in InFlight' : p \notin out =>
                p \in InFlight /\ (net[p] = 1 => net'[p] = 1 /\ p \notin in)
           /\ \A p \in out : p \notin InFlight => net'[p] = 1
<1> DEFINE D == DOMAIN net
           left(p) == IF p \in in THEN net[p] - 1 ELSE net[p]
           L == {p \in D : left(p) > 0}
           rest == [p \in L |-> left(p)]
<1>1. net \in [D -> Nat] /\ (\A p \in D : net[p] > 0)
  BY DEF IsABag
<1>2. net (-) SetToBag(in) = rest
  BY DEF SetToBag, (-)
<1>3. net' = [p \in L \cup out |-> (IF p \in L THEN left(p) ELSE 0)
                                   + (IF p \in out THEN 1 ELSE 0)]
  BY <1>2 DEF Exchange, SetToBag, (+)
<1>4. \A p \in L : left(p) \in Nat /\ left(p) > 0 /\ p \in D
  BY <1>1
<1>5. \A p \in L \cup out : net'[p] \in Nat /\ net'[p] > 0
  BY <1>3, <1>4
<1>6. IsABag(net')
  BY <1>3, <1>5 DEF IsABag
<1>7. InFlight = D /\ InFlight' = L \cup out
  BY <1>3 DEF InFlight, BagToSet
<1>8. ASSUME NEW p \in L, p \notin out
      PROVE  p \in D /\ (net[p] = 1 => net'[p] = 1 /\ p \notin in)
  BY <1>1, <1>3, <1>4, <1>8
<1>9. ASSUME NEW p \in out, p \notin D PROVE net'[p] = 1
  BY <1>3, <1>9
<1> QED
  BY <1>6, <1>7, <1>8, <1>9

\* What a report adds.
LEMMA ReportedIs ==
    ASSUME RxTyped, NEW x, rxEvents' = Append(rxEvents, x)
    PROVE  /\ \A id : Reported(id)' => Reported(id) \/ id = x.id
           /\ Once(rxEvents) /\ ~Reported(x.id) => Once(rxEvents)'
           /\ \A i \in 1..Len(rxEvents') :
                rxEvents'[i] = x \/ \E j \in 1..Len(rxEvents) : rxEvents'[i] = rxEvents[j]
<1> DEFINE k == Len(rxEvents)
<1>1. rxEvents \in Seq(RxEvents) /\ k \in Nat
  BY DEF RxTyped
<1>2. /\ Len(rxEvents') = k + 1 /\ rxEvents'[k + 1] = x
      /\ \A i \in 1..k : rxEvents'[i] = rxEvents[i]
  BY <1>1, AppendIs
<1>3. \A i \in 1..(k + 1) : i = k + 1 \/ i \in 1..k
  BY <1>1
<1>4. \A id : Reported(id)' => Reported(id) \/ id = x.id
  BY <1>2, <1>3 DEF Reported
<1>5. ASSUME Once(rxEvents), ~Reported(x.id) PROVE Once(rxEvents)'
  <2>1. ASSUME NEW i \in 1..(k + 1), NEW j \in 1..(k + 1), rxEvents'[i].id = rxEvents'[j].id
        PROVE  i = j
    BY <1>2, <1>3, <1>5, <2>1 DEF Once, Reported
  <2> QED
    BY <1>2, <2>1 DEF Once
<1>6. \A i \in 1..Len(rxEvents') :
        rxEvents'[i] = x \/ \E j \in 1..Len(rxEvents) : rxEvents'[i] = rxEvents[j]
  BY <1>2, <1>3
<1> QED
  BY <1>4, <1>5, <1>6

\* A call that opens no transaction keeps what holds of the Metadata in flight, when it
\* neither takes, reports nor closes the transaction of one that stays.
LEMMA MetadataKept ==
    ASSUME IsABag(net), MetadataInv, NEW in, NEW out, Exchange(in, out),
           \A q \in out : q.type # "METADATA",
           \A p \in InFlight : p.type = "METADATA" /\ p \notin in =>
              /\ \A q \in out : q.id = p.id => ~Closing(q)
              /\ ~(rx'.active /\ rx'.id = p.id) /\ ~Reported(p.id)'
    PROVE  MetadataInv'
<1> SUFFICES ASSUME NEW p \in InFlight', p.type = "METADATA"
             PROVE  /\ net'[p] = 1
                    /\ \A q \in InFlight' : q.id = p.id =>
                          ~Closing(q) /\ (q.type = "METADATA" => q = p)
                    /\ ~(rx'.active /\ rx'.id = p.id) /\ ~Reported(p.id)'
  BY DEF MetadataInv, Closing
<1>1. p \in InFlight /\ p \notin out
  BY ExchangeCounts
<1>2. /\ net[p] = 1
      /\ \A q \in InFlight : q.id = p.id => ~Closing(q) /\ (q.type = "METADATA" => q = p)
  BY <1>1 DEF MetadataInv
<1>3. net'[p] = 1 /\ p \notin in
  BY <1>1, <1>2, ExchangeCounts
<1>4. ASSUME NEW q \in InFlight', q.id = p.id
      PROVE  ~Closing(q) /\ (q.type = "METADATA" => q = p)
  <2>1. CASE q \in InFlight
    BY <1>2, <1>4, <2>1
  <2>2. CASE q \in out
    BY <1>1, <1>3, <1>4, <2>2
  <2> QED
    BY <2>1, <2>2, ExchangeAdds
<1> QED
  BY <1>1, <1>3, <1>4

\* What OnceInv says as long as nothing is repeated.
Orderly == MetadataInv /\ ActiveInv /\ VerdictInv

\* A step of the sender or of the link leaves the verdicts alone.
LEMMA VerdictKept == VerdictInv /\ UNCHANGED rxVars => VerdictInv'
BY DEF VerdictInv, Once, rxVars

LEMMA OncePut ==
    ASSUME TransferInv, NoReuse, IsABag(net), Orderly, UNCHANGED << rxVars, limit >>,
           NEW n \in Nat, Numbered(n),
           NEW mode, NEW closure, NEW size, PutEffect(mode, closure, size)
    PROVE  Orderly' /\ IsABag(net')
<1> DEFINE first == MetadataPdu(nextSeq, mode, closure, size)
<1>1. PICK out : Exchange({}, out) /\ \A q \in out : FilePdu(q, nextSeq, first)
  BY DEF PutEffect
<1>2. nextSeq = n
  BY NumberPut DEF TransferInv
<1> HIDE DEF first
<1>3. \A i \in 0..(n - 1) : i # n
  OBVIOUS
<1>4. /\ \A q \in InFlight : q.id # n
      /\ rx.active => rx.id # n
      /\ ~Reported(n)
  BY <1>3 DEF Numbered, Reported
<1>5. \A q \in out : q.id = n /\ ~Closing(q) /\ (q.type = "METADATA" => q = first)
  BY <1>1, <1>2 DEF FilePdu, Closing
<1>6. \A id : Reported(id)' <=> Reported(id)
  BY DEF Reported, rxVars
<1>7. MetadataInv'
  <2> SUFFICES ASSUME NEW p \in InFlight', p.type = "METADATA"
               PROVE  /\ net'[p] = 1
                      /\ \A q \in InFlight' : q.id = p.id =>
                            ~Closing(q) /\ (q.type = "METADATA" => q = p)
                      /\ ~(rx'.active /\ rx'.id = p.id) /\ ~Reported(p.id)'
    BY DEF MetadataInv, Closing
  <2>1. CASE p \in out
    <3>1. p \notin InFlight /\ p.id = n /\ p = first
      BY <1>4, <1>5, <2>1
    <3>2. net'[p] = 1
      BY <1>1, <2>1, <3>1, ExchangeCounts
    <3>3. \A q \in InFlight' : q.id = p.id => q \in out
      BY <1>1, <1>4, <3>1, ExchangeAdds
    <3> QED
      BY <1>4, <1>5, <1>6, <3>1, <3>2, <3>3 DEF rxVars
  <2>2. CASE p \notin out
    <3>1. p \in InFlight /\ (net[p] = 1 => net'[p] = 1)
      BY <1>1, <2>2, ExchangeCounts
    <3>2. \A q \in InFlight' : q.id = p.id => q \in InFlight
      BY <1>1, <1>4, <1>5, <3>1, ExchangeAdds
    <3> QED
      BY <1>6, <3>1, <3>2 DEF Orderly, MetadataInv, rxVars
  <2> QED
    BY <2>1, <2>2
<1>8. ActiveInv'
  <2>1. ASSUME rx.active, ~rx.waiting, NEW q \in InFlight', q.id = rx.id PROVE ~Closing(q)
    <3>1. q \in InFlight
      BY <1>1, <1>4, <1>5, <2>1, ExchangeAdds
    <3> QED
      BY <2>1, <3>1 DEF Orderly, ActiveInv
  <2> QED
    BY <1>6, <2>1 DEF Orderly, ActiveInv, Closing, rxVars
<1>9. VerdictInv' /\ IsABag(net')
  BY <1>1, VerdictKept, ExchangeCounts DEF Orderly
<1> QED
  BY <1>7, <1>8, <1>9 DEF Orderly

\* The answers of the sender and what the link makes of a PDU close no transaction that
\* was not being closed.
LEMMA OnceAnswers ==
    ASSUME IsABag(net), Orderly, UNCHANGED rxVars, NEW in, NEW out, Exchange(in, out),
           \A q \in out : /\ q.type # "METADATA"
                          /\ Closing(q) => \E r \in InFlight : Closing(r) /\ r.id = q.id
    PROVE  Orderly' /\ IsABag(net')
<1>1. \A id : Reported(id)' <=> Reported(id)
  BY DEF Reported, rxVars
<1>2. ASSUME NEW p \in InFlight, p.type = "METADATA"
      PROVE  /\ \A q \in out : q.id = p.id => ~Closing(q)
             /\ ~(rx'.active /\ rx'.id = p.id) /\ ~Reported(p.id)'
  BY <1>1, <1>2 DEF Orderly, MetadataInv, rxVars
<1>3. MetadataInv'
  BY <1>2, MetadataKept DEF Orderly
<1>4. ActiveInv'
  <2>1. ASSUME rx.active, ~rx.waiting, NEW q \in InFlight', q.id = rx.id PROVE ~Closing(q)
    <3>1. \A r \in InFlight : r.id = rx.id => ~Closing(r)
      BY <2>1 DEF Orderly, ActiveInv
    <3> QED
      BY <2>1, <3>1, ExchangeAdds
  <2> QED
    BY <1>1, <2>1 DEF Orderly, ActiveInv, Closing, rxVars
<1>5. VerdictInv' /\ IsABag(net')
  BY VerdictKept, ExchangeCounts DEF Orderly
<1> QED
  BY <1>3, <1>4, <1>5 DEF Orderly

\* A call that goes on with the active transaction.
LEMMA OnceLive ==
    ASSUME TransferInv, IsABag(net), RxTyped, Orderly, rx.active, NEW m, Live(m), Become(m),
           HasKept, NEW in, Exchange(in, m.out)
    PROVE  Orderly'
<1>1. /\ rx' = m.slot /\ fs' = m.fs /\ rxEvents' = rxEvents /\ commits' = m.commits
      /\ rx'.active /\ rx'.id = rx.id /\ (rx.waiting => rx'.waiting)
  BY DEF Become, Live, Running
<1>2. \A q \in m.out : /\ q.to = "sender" /\ q.id = rx.id /\ q.type # "METADATA"
                       /\ q.type = "FINISHED" => rx'.waiting
  BY <1>1 DEF Live, Running, OutGood
<1>3. \A id : Reported(id)' <=> Reported(id)
  BY <1>1 DEF Reported
<1>4. ASSUME NEW p \in InFlight, p.type = "METADATA"
      PROVE  /\ \A q \in m.out : q.id = p.id => ~Closing(q)
             /\ ~(rx'.active /\ rx'.id = p.id) /\ ~Reported(p.id)'
  BY <1>1, <1>2, <1>3, <1>4 DEF Orderly, MetadataInv
<1>5. MetadataInv'
  BY <1>2, <1>4, MetadataKept DEF Orderly
<1>6. ActiveInv'
  <2>1. ASSUME ~rx'.waiting, NEW q \in InFlight', q.id = rx.id PROVE ~Closing(q)
    <3>1. CASE q \in InFlight
      BY <1>1, <2>1, <3>1 DEF Orderly, ActiveInv
    <3>2. CASE q \in m.out
      BY <1>2, <2>1, <3>2 DEF Closing
    <3> QED
      BY <3>1, <3>2, ExchangeAdds
  <2> QED
    BY <1>1, <1>3, <2>1 DEF Orderly, ActiveInv, Closing
<1>7. VerdictInv'
  <2>1. \A i \in 1..Len(rxEvents) : rxEvents[i].id \in Ids
    <3>1. \A i \in 1..Len(rxEvents) : rxEvents[i] \in RxEvents
      BY DEF RxTyped
    <3> QED
      BY <3>1 DEF RxEvents
  <2>2. \A i \in 1..Len(rxEvents') : rxEvents'[i].status = "OK" => Has(commits', rxEvents'[i].id)
    BY <1>1, <2>1 DEF Orderly, VerdictInv, HasKept
  <2>3. fs'.open => rx'.active /\ rx'.handleOpen
    BY <1>1 DEF Live, Running, HandleKept, Orderly, VerdictInv
  <2>4. Once(rxEvents)'
    BY <1>1 DEF Orderly, VerdictInv, Once
  <2> QED
    BY <2>2, <2>3, <2>4 DEF VerdictInv
<1> QED
  BY <1>5, <1>6, <1>7 DEF Orderly

\* A call that reports the transaction x.id, which is the active one or one that could
\* not be opened, and leaves the slot free.
LEMMA OnceReports ==
    ASSUME IsABag(net), RxTyped, Orderly, HasKept, NEW in, NEW out, Exchange(in, out), NEW x,
           rxEvents' = Append(rxEvents, x), ~rx'.active, ~fs'.open, ~Reported(x.id),
           x.status = "OK" => Has(commits', x.id),
           \A q \in out : q.type # "METADATA" /\ q.id = x.id,
           \A p \in InFlight : p.type = "METADATA" /\ p \notin in => p.id # x.id
    PROVE  Orderly'
<1>1. ASSUME NEW p \in InFlight, p.type = "METADATA", p \notin in
      PROVE  /\ \A q \in out : q.id = p.id => ~Closing(q)
             /\ ~(rx'.active /\ rx'.id = p.id) /\ ~Reported(p.id)'
  <2>1. p.id # x.id /\ ~Reported(p.id)
    BY <1>1 DEF Orderly, MetadataInv
  <2> QED
    BY <2>1, ReportedIs
<1>2. MetadataInv'
  BY <1>1, MetadataKept DEF Orderly
<1>3. ActiveInv'
  BY DEF ActiveInv
<1>4. \A i \in 1..Len(rxEvents') : rxEvents'[i].status = "OK" => Has(commits', rxEvents'[i].id)
  <2>1. ASSUME NEW j \in 1..Len(rxEvents), rxEvents[j].status = "OK"
        PROVE  Has(commits', rxEvents[j].id)
    <3>1. rxEvents[j] \in RxEvents
      BY DEF RxTyped
    <3>2. rxEvents[j].id \in Ids
      BY <3>1 DEF RxEvents
    <3> QED
      BY <2>1, <3>2 DEF Orderly, VerdictInv, HasKept
  <2> QED
    BY <2>1, ReportedIs
<1>5. VerdictInv'
  BY <1>4, ReportedIs DEF Orderly, VerdictInv
<1> QED
  BY <1>2, <1>3, <1>5 DEF Orderly

\* A call that takes the free slot for the transaction of the Metadata p.
LEMMA OnceOpened ==
    ASSUME IsABag(net), Orderly, NEW p \in InFlight, p.type = "METADATA", NEW m,
           Opened(m, p), Become(m), Exchange({p}, m.out)
    PROVE  Orderly'
<1>1. /\ rx' = m.slot /\ rxEvents' = rxEvents /\ commits' = commits /\ m.out = {}
      /\ rx'.active /\ rx'.id = p.id /\ rx'.handleOpen
  BY DEF Become, Opened
<1>2. \A id : Reported(id)' <=> Reported(id)
  BY <1>1 DEF Reported
<1>3. /\ ~Reported(p.id)
      /\ \A q \in InFlight : q.id = p.id => ~Closing(q) /\ (q.type = "METADATA" => q = p)
  BY DEF Orderly, MetadataInv
<1>4. ASSUME NEW q \in InFlight, q.type = "METADATA", q \notin {p}
      PROVE  ~(rx'.active /\ rx'.id = q.id) /\ ~Reported(q.id)'
  BY <1>1, <1>2, <1>3, <1>4 DEF Orderly, MetadataInv
<1>5. MetadataInv'
  BY <1>1, <1>4, MetadataKept DEF Orderly
<1>6. ActiveInv'
  <2>1. InFlight' \subseteq InFlight
    BY <1>1, ExchangeAdds
  <2> QED
    BY <1>1, <1>2, <1>3, <2>1 DEF ActiveInv, Closing
<1>7. VerdictInv'
  BY <1>1 DEF Orderly, VerdictInv, Once
<1> QED
  BY <1>5, <1>6, <1>7 DEF Orderly

\* Every call of the receiver.
LEMMA OnceReceiver ==
    ASSUME TransferInv, IsABag(net), RxTyped, Orderly, UNCHANGED << txVars, limit >>,
           HasKept, NEW in, ReceiverEffect(in)
    PROVE  Orderly' /\ IsABag(net')
<1>1. PICK m, p : /\ Become(m) /\ Exchange(in, m.out)
                  /\ \/ Same(m)
                     \/ rx.active /\ (Live(m) \/ Ended(m))
                     \/ /\ p \in InFlight /\ in = {p}
                        /\ \/ rx.active /\ p.id = rx.id /\ p.type = "ACK" /\ p.to = "receiver"
                              /\ Acked(m)
                           \/ /\ ~rx.active /\ p.type = "METADATA"
                              /\ Opened(m, p) \/ OpenFailed(m, p)
  BY DEF ReceiverEffect
<1>2. IsABag(net')
  BY <1>1, ExchangeCounts
<1>3. /\ rx' = m.slot /\ fs' = m.fs /\ rxEvents' = m.events /\ commits' = m.commits
  BY <1>1 DEF Become
<1>4. rx.active => /\ ~Reported(rx.id)
                   /\ \A q \in InFlight : q.type = "METADATA" => q.id # rx.id
  BY DEF Orderly, ActiveInv, MetadataInv
<1>5. CASE Same(m)
  <2>1. UNCHANGED rxVars /\ m.out = {}
    BY <1>3, <1>5 DEF Same, rxVars
  <2> QED
    BY <1>1, <2>1, OnceAnswers
<1>6. CASE rx.active /\ Live(m)
  BY <1>1, <1>2, <1>6, OnceLive
<1>7. CASE rx.active /\ Ended(m)
  <2>1. PICK st : /\ m.events = Append(rxEvents, [id |-> rx.id, status |-> st])
                  /\ st = "OK" => Has(m.commits, rx.id)
    BY <1>7 DEF Ended
  <2> DEFINE x == [id |-> rx.id, status |-> st]
  <2>2. x.id = rx.id /\ (x.status = "OK" => Has(commits', x.id)) /\ rxEvents' = Append(rxEvents, x)
    BY <1>3, <2>1
  <2> HIDE DEF x
  <2>3. ~rx'.active /\ ~fs'.open
    BY <1>3, <1>7, NoRxSlotIs DEF Ended, HandleKept, Orderly, VerdictInv
  <2>4. \A q \in m.out : q.type # "METADATA" /\ q.id = x.id
    BY <1>7, <2>2 DEF Ended, OutGood
  <2> QED
    BY <1>1, <1>2, <1>4, <1>7, <2>2, <2>3, <2>4, OnceReports
<1>8. CASE /\ p \in InFlight /\ rx.active /\ p.id = rx.id /\ p.type = "ACK"
           /\ p.to = "receiver" /\ Acked(m)
  <2>1. rx.waiting
    BY <1>8 DEF Orderly, ActiveInv, Closing
  <2>2. ~rx.handleOpen /\ (rx.finished = "OK" => Has(commits, rx.id))
    BY <1>8, <2>1 DEF TransferInv, RxInv, SlotSound
  <2> DEFINE x == [id |-> rx.id, status |-> rx.finished]
  <2>3. x.id = rx.id /\ x.status = rx.finished /\ rxEvents' = Append(rxEvents, x)
    BY <1>3, <1>8 DEF Acked
  <2> HIDE DEF x
  <2>4. ~rx'.active /\ ~fs'.open /\ commits' = commits /\ m.out = {}
    BY <1>3, <1>8, <2>2, NoRxSlotIs DEF Acked, Orderly, VerdictInv
  <2> QED
    BY <1>1, <1>2, <1>4, <1>8, <2>2, <2>3, <2>4, OnceReports
<1>9. CASE p \in InFlight /\ in = {p} /\ ~rx.active /\ p.type = "METADATA" /\ Opened(m, p)
  BY <1>1, <1>2, <1>9, OnceOpened
<1>10. CASE p \in InFlight /\ in = {p} /\ ~rx.active /\ p.type = "METADATA" /\ OpenFailed(m, p)
  <2> DEFINE x == [id |-> p.id, status |-> "FILESTORE"]
  <2>1. x.id = p.id /\ x.status # "OK" /\ rxEvents' = Append(rxEvents, x)
    BY <1>3, <1>10 DEF OpenFailed
  <2> HIDE DEF x
  <2>2. ~rx'.active /\ ~fs'.open /\ m.out = {}
    BY <1>3, <1>10 DEF OpenFailed, Orderly, VerdictInv
  <2>3. /\ ~Reported(p.id)
        /\ \A q \in InFlight : q.type = "METADATA" /\ q \notin in => q.id # p.id
    BY <1>10 DEF Orderly, MetadataInv
  <2> QED
    BY <1>1, <1>2, <2>1, <2>2, <2>3, OnceReports
<1> QED
  BY <1>1, <1>5, <1>6, <1>7, <1>8, <1>9, <1>10

-------------------------------------------------------------------------------
(* One verdict for each transaction *)

\* The inductive invariant of a transfer whose numbers are not used twice.
OrderInv == TransferInv /\ RxTyped /\ NumberInv /\ IsABag(net) /\ OnceInv

LEMMA OrderInit == Init => OrderInv
<1> SUFFICES ASSUME Init PROVE OrderInv
  OBVIOUS
<1>1. InFlight = {} /\ IsABag(net)
  BY DEF Init, LinkInit, InFlight, BagToSet, EmptyBag, SetToBag, IsABag
<1>2. rxEvents = << >> /\ rx.active = FALSE /\ fs.open = FALSE
  BY NoRxSlotIs DEF Init, RxInit, NoTmp
<1>3. OnceInv
  BY <1>1, <1>2 DEF OnceInv, MetadataInv, ActiveInv, VerdictInv, Once
<1> QED
  BY <1>1, <1>3, TransferInit, TypedInit, NumberInit DEF OrderInv

\* A step repeats a PDU, or it keeps the transactions in order.
LEMMA OnceStep ==
    ASSUME NoReuse, OrderInv, TransferInv', StepEffect
    PROVE  IsABag(net') /\ (spent'.dups = 0 => Orderly')
<1>1. /\ TransferInv /\ RxTyped /\ IsABag(net) /\ (spent.dups = 0 => Orderly)
  BY DEF OrderInv, OnceInv, Orderly, NothingRepeated
<1>2. PICK n \in Nat : Numbered(n)
  BY DEF OrderInv, NumberInv
<1>3. CASE /\ UNCHANGED << rxVars, limit >>
           /\ \E mode \in limit.modes, closure \in limit.closures, size \in limit.sizes :
                PutEffect(mode, closure, size)
  <2>1. PICK mode, closure, size : PutEffect(mode, closure, size)
    BY <1>3
  <2>2. spent'.dups = spent.dups /\ \E out : Exchange({}, out)
    BY <2>1 DEF PutEffect
  <2> QED
    BY <1>1, <1>2, <1>3, <2>1, <2>2, OncePut, ExchangeCounts
<1>4. CASE UNCHANGED << rxVars, limit >> /\ \E in : SenderEffect(in)
  <2>1. PICK in : SenderEffect(in)
    BY <1>4
  <2>2. spent'.dups = spent.dups
    BY <2>1 DEF SenderEffect
  <2>3. PICK out : Exchange(in, out) /\ \A q \in out : SenderSends(q)
    BY <2>1 DEF SenderEffect
  <2>4. \A q \in out : /\ q.type # "METADATA"
                       /\ Closing(q) => \E r \in InFlight : Closing(r) /\ r.id = q.id
    BY <2>3 DEF SenderSends
  <2> QED
    BY <1>1, <1>4, <2>2, <2>3, <2>4, OnceAnswers, ExchangeCounts
<1>5. CASE UNCHANGED << rxVars, txVars, limit >> /\ \E p \in InFlight : LinkEffect(p)
  <2>1. PICK p \in InFlight : LinkEffect(p)
    BY <1>5
  <2>2. CASE spent'.dups # 0 /\ Exchange({}, {p})
    BY <1>1, <2>2, ExchangeCounts
  <2>3. CASE /\ spent'.dups = spent.dups
             /\ \E out : /\ Exchange({p}, out)
                         /\ \A q \in out : q.type \in {"FILEDATA", "GARBLED"}
    <3>1. PICK out : Exchange({p}, out) /\ \A q \in out : q.type \in {"FILEDATA", "GARBLED"}
      BY <2>3
    <3>2. \A q \in out : q.type # "METADATA" /\ ~Closing(q)
      BY <3>1 DEF Closing
    <3> QED
      BY <1>1, <1>5, <2>3, <3>1, <3>2, OnceAnswers, ExchangeCounts
  <2> QED
    BY <2>1, <2>2, <2>3 DEF LinkEffect
<1>6. CASE UNCHANGED << txVars, limit >> /\ \E in : ReceiverEffect(in)
  <2>1. PICK in : ReceiverEffect(in)
    BY <1>6
  <2>2. PICK m, p : /\ Become(m) /\ Exchange(in, m.out) /\ SpentInv'
                    /\ spent'.dups = spent.dups
                    /\ \/ Same(m) \/ (rx.active /\ (Live(m) \/ Ended(m) \/ Acked(m)))
                       \/ Opened(m, p) \/ OpenFailed(m, p)
    BY <2>1 DEF ReceiverEffect
  <2>3. HasKept
    BY <1>1, <1>6, <2>2, ReceiverKeeps
  <2>4. Orderly => Orderly'
    BY <1>1, <1>6, <2>1, <2>3, OnceReceiver
  <2> QED
    BY <1>1, <2>2, <2>4, ExchangeCounts
<1>7. CASE UNCHANGED vars
  <2>1. UNCHANGED << rxVars, net, spent >> /\ InFlight' = InFlight
    BY <1>7 DEF vars, linkVars, rxVars, InFlight
  <2>2. Orderly => Orderly'
    BY <2>1 DEF Orderly, MetadataInv, ActiveInv, VerdictInv, Once, Reported, Closing, rxVars
  <2> QED
    BY <1>1, <2>1, <2>2
<1> QED
  BY <1>3, <1>4, <1>5, <1>6, <1>7 DEF StepEffect

LEMMA OrderStep == NoReuse /\ OrderInv /\ [Next]_vars => OrderInv'
<1> SUFFICES ASSUME NoReuse, OrderInv, [Next]_vars PROVE OrderInv'
  OBVIOUS
<1>1. TransferInv' /\ RxTyped' /\ NumberInv' /\ StepEffect
  BY TransferStep, TypedStep, NumberStep, EveryStep DEF OrderInv
<1>2. IsABag(net') /\ (spent'.dups = 0 => Orderly')
  BY <1>1, OnceStep
<1> QED
  BY <1>1, <1>2 DEF OrderInv, OnceInv, Orderly, NothingRepeated

LEMMA OrderAlways ==
    ASSUME NoReuse
    PROVE  Spec => []OrderInv
<1>1. OrderInv /\ [Next]_vars => OrderInv'
  BY OrderStep
<1> QED
  BY <1>1, OrderInit, PTL DEF Spec

\* The type invariant: the counters and arrays of both slots keep their limits, whatever
\* the link and the callbacks do and however long the entities run.
THEOREM TransferTypeOK == Spec => []TypeOK
<1>1. TransferInv /\ RxTyped => TypeOK
  <2> SUFFICES ASSUME TransferInv, RxTyped PROVE TypeOK
    OBVIOUS
  <2>1. \A i \in 1..Len(txEvents) : txEvents[i].status \in Statuses
    <3>1. \A i \in 1..Len(txEvents) : txEvents[i] \in TxEvents
      BY DEF TransferInv, TxInv
    <3> QED
      BY <3>1 DEF TxEvents
  <2>2. \A i \in 1..Len(rxEvents) : rxEvents[i].status \in Statuses
    <3>1. \A i \in 1..Len(rxEvents) : rxEvents[i] \in RxEvents
      BY DEF RxTyped
    <3> QED
      BY <3>1 DEF RxEvents
  <2> QED
    BY <2>1, <2>2 DEF TransferInv, TxInv, TxSlots, SpentInv, RxTyped, SlotTyped, TypeOK
<1> QED
  BY <1>1, TransferTyped, PTL

\* The slots are sound: the type invariant, and no path that releases the receiver slot
\* leaves the handle of the temporary file open, on a link that repeats no PDU and with
\* no more put requests than there are sequence numbers.
THEOREM TransferSlotInv ==
    ASSUME NoReuse
    PROVE  Spec => []SlotInv
<1>1. OrderInv => NoHandleLeak
  BY DEF OrderInv, OnceInv, VerdictInv, NoHandleLeak
<1>2. TypeOK /\ NoHandleLeak => SlotInv
  BY DEF SlotInv
<1> QED
  BY <1>1, <1>2, OrderAlways, TransferTypeOK, PTL

\* A transfer that release_receiver_terminal reports COMPLETE was committed, on such a
\* link.
THEOREM TransferReceiverComplete ==
    ASSUME NoReuse
    PROVE  Spec => []ReceiverCompleteIsCommitted
<1>1. OrderInv => ReceiverCompleteIsCommitted
  BY DEF OrderInv, OnceInv, VerdictInv, ReceiverCompleteIsCommitted, Committed, Has
<1> QED
  BY <1>1, OrderAlways, PTL

\* Each side reports a transaction at most once: the sender whatever the link does, the
\* receiver on a link that repeats no PDU.
THEOREM TransferOneVerdictEach ==
    ASSUME NoReuse
    PROVE  Spec => []OneVerdictEach
<1>1. OrderInv => OneVerdictEach
  <2> SUFFICES ASSUME OrderInv PROVE OneVerdictEach
    OBVIOUS
  <2>1. PICK n \in Nat : Numbered(n)
    BY DEF OrderInv, NumberInv
  <2>2. Once(txEvents)
    <3>1. \A i \in 1..Len(txEvents) : txEvents[i].id = i - 1
      BY <2>1 DEF Numbered
    <3> QED
      BY <3>1 DEF Once
  <2> QED
    BY <2>2 DEF OrderInv, OnceInv, VerdictInv, OneVerdictEach
<1> QED
  BY <1>1, OrderAlways, PTL

-------------------------------------------------------------------------------
(* The service of FileDelivery *)

\* The transactions the user of the sender has put.
Known(id) == (tx.active /\ tx.id = id) \/ \E i \in 1..Len(txEvents) : txEvents[i].id = id

\* What travels, and what the receiver works on, was put.
PutInv == (\A p \in InFlight : Known(p.id)) /\ (rx.active => Known(rx.id))

\* A transaction was put if and only if its user has been told something of it.
LEMMA KnownIs == ASSUME NEW id PROVE Known(id) <=> Verdict(id) # "none"
BY DEF Known, Verdict

\* The greatest of some numbers up to n is one of them.
LEMMA MaxIsIn ==
    ASSUME NEW n \in Nat, NEW T, T \subseteq 1..n, T # {}
    PROVE  Max(T) \in T
<1> DEFINE D == {n - y : y \in T}
<1>1. D \subseteq Nat /\ D # {}
  <2>1. \A y \in T : n - y \in Nat
    OBVIOUS
  <2> QED
    BY <2>1
<1>2. PICK d \in D : \A e \in D : d <= e
  BY <1>1, LeastExists
<1>3. PICK z \in T : d = n - z
  OBVIOUS
<1>4. \A y \in T : n - z <= n - y
  BY <1>2, <1>3
<1>5. \A y \in T : z >= y
  BY <1>4
<1> QED
  BY <1>5 DEF Max

\* The verdicts after release_sender_terminal: that of the transaction it reports is
\* the status of the event, the others are what they were.
LEMMA VerdictRelease ==
    ASSUME TxInv, NEW id \in Ids, tx.active => tx.id = id, NEW mode, NEW st,
           TxRelease(id, mode, st)
    PROVE  /\ Verdict(id)' = IF st # "OK" THEN "failed"
                             ELSE IF mode = "ack" THEN "complete" ELSE "sent"
           /\ \A j \in Ids : j # id => Verdict(j)' = Verdict(j)
           /\ \A j : Known(j) => Known(j)'
<1> DEFINE x       == [id |-> id, mode |-> mode, status |-> st]
           n       == Len(txEvents)
           told(j) == {i \in 1..Len(txEvents) : txEvents[i].id = j}
<1>1. txEvents \in Seq(TxEvents) /\ n \in Nat
  BY DEF TxInv
<1>2. txEvents' = Append(txEvents, x) /\ x.id = id /\ x.mode = mode /\ x.status = st
      /\ tx'.active = FALSE
  BY DEF TxRelease, NoTxSlot
<1> HIDE DEF x
<1>3. /\ Len(txEvents') = n + 1 /\ txEvents'[n + 1] = x
      /\ \A i \in 1..n : txEvents'[i] = txEvents[i]
  BY <1>1, <1>2, AppendIs
<1>4. Verdict(id)' = IF st # "OK" THEN "failed"
                     ELSE IF mode = "ack" THEN "complete" ELSE "sent"
  <2>1. n + 1 \in told(id)' /\ told(id)' \subseteq Nat /\ \A y \in told(id)' : y <= n + 1
    BY <1>1, <1>2, <1>3
  <2>2. Max(told(id)') = n + 1
    BY <2>1, MaxIsGreatest
  <2>3. told(id)' # {}
    BY <2>1
  <2> HIDE DEF told
  <2>4. Verdict(id)' = IF tx'.active /\ tx'.id = id THEN "pending"
                       ELSE IF told(id)' = {} THEN "none"
                       ELSE IF txEvents'[Max(told(id)')].status # "OK" THEN "failed"
                       ELSE IF txEvents'[Max(told(id)')].mode = "ack" THEN "complete" ELSE "sent"
    BY DEF Verdict, told
  <2> QED
    BY <1>2, <1>3, <2>2, <2>3, <2>4
<1>5. ASSUME NEW j \in Ids, j # id PROVE Verdict(j)' = Verdict(j)
  <2>1. \A i \in 1..(n + 1) : i \in 1..n \/ i = n + 1
    BY <1>1
  <2>2. told(j)' = told(j)
    BY <1>1, <1>2, <1>3, <1>5, <2>1
  <2>3. told(j) # {} => Max(told(j)) \in 1..n
    BY <1>1, MaxIsIn
  <2> QED
    BY <1>2, <1>3, <1>5, <2>2, <2>3 DEF Verdict
<1>6. ASSUME NEW j, Known(j) PROVE Known(j)'
  BY <1>1, <1>2, <1>3, <1>6 DEF Known
<1> QED
  BY <1>4, <1>5, <1>6

\* A put request is one of the service: the verdict of its transaction is pending, or
\* final at once, and a COMPLETE is not among them.
LEMMA PutVerdict ==
    ASSUME TxInv, NEW id \in Ids, id = nextSeq, NEW mode \in limit.modes, NEW closure, NEW size,
           PutEffect(mode, closure, size)
    PROVE  /\ \A j \in Ids : Verdict(j) # "pending"
           /\ Verdict(id)' \in {"pending", "failed", "sent"}
           /\ \A j \in Ids : j # id => Verdict(j)' = Verdict(j)
           /\ (\A j : Known(j) => Known(j)') /\ Known(id)'
<1>1. tx.active = FALSE
  BY DEF TxInv, TxSlots, PutEffect
<1>2. \A j \in Ids : Verdict(j) # "pending"
  BY <1>1 DEF Verdict
<1>3. CASE /\ tx' = [NoTxSlot EXCEPT !.active = TRUE, !.id = nextSeq, !.size = size]
           /\ txEvents' = txEvents
  <2>1. tx'.active = TRUE /\ tx'.id = id
    BY <1>3 DEF NoTxSlot
  <2>2. Verdict(id)' = "pending"
    BY <2>1 DEF Verdict
  <2>3. \A j \in Ids : j # id => Verdict(j)' = Verdict(j)
    BY <1>1, <1>3, <2>1 DEF Verdict
  <2>4. (\A j : Known(j) => Known(j)') /\ Known(id)'
    BY <1>1, <1>3, <2>1 DEF Known
  <2> QED
    BY <1>1, <1>2, <2>2, <2>3, <2>4
<1>4. CASE \E st \in Statuses : TxRelease(id, mode, st) /\ (st = "OK" => mode # "ack")
  <2>1. PICK st \in Statuses : TxRelease(id, mode, st) /\ (st = "OK" => mode # "ack")
    BY <1>4
  <2>2. /\ Verdict(id)' = IF st # "OK" THEN "failed"
                               ELSE IF mode = "ack" THEN "complete" ELSE "sent"
        /\ \A j \in Ids : j # id => Verdict(j)' = Verdict(j)
        /\ \A j : Known(j) => Known(j)'
    BY <1>1, <2>1, VerdictRelease
  <2>3. Verdict(id)' \in {"failed", "sent"}
    BY <2>1, <2>2
  <2>4. Known(id)'
    <3>2. txEvents' = Append(txEvents, [id |-> id, mode |-> mode, status |-> st])
      BY <2>1 DEF TxRelease
    <3>3. txEvents \in Seq(TxEvents) /\ Len(txEvents) \in Nat
      BY DEF TxInv
    <3>4. /\ Len(txEvents') = Len(txEvents) + 1
          /\ txEvents'[Len(txEvents) + 1]
               = [id |-> id, mode |-> mode, status |-> st]
      BY <3>2, <3>3, AppendIs
    <3> QED
      BY <3>3, <3>4 DEF Known
  <2> QED
    BY <1>1, <1>2, <2>2, <2>3, <2>4
<1> QED
  BY <1>3, <1>4 DEF PutEffect

\* Another step of the sender changes no verdict, or that of the active transaction, to
\* COMPLETE only if its file has been committed.
LEMMA SenderVerdict ==
    ASSUME TxInv, NEW id \in Ids, id = tx.id, SenderMoves
    PROVE  /\ \A j : Known(j) => Known(j)'
           /\ \/ \A j \in Ids : Verdict(j)' = Verdict(j)
              \/ /\ Verdict(id) = "pending"
                 /\ \A j \in Ids : j # id => Verdict(j)' = Verdict(j)
                 /\ \/ Verdict(id)' = "failed"
                    \/ Verdict(id)' = "complete" /\ Has(commits, id)
<1>1. CASE tx'.active = tx.active /\ tx'.id = tx.id /\ txEvents' = txEvents
  BY <1>1 DEF Known, Verdict
<1>2. CASE tx.active /\ \E st \in Statuses : /\ TxRelease(id, "ack", st)
                                             /\ st = "OK" => Has(commits, id)
  <2>1. PICK st \in Statuses : TxRelease(id, "ack", st) /\ (st = "OK" => Has(commits, id))
    BY <1>2
  <2>2. Verdict(id) = "pending"
    BY <1>2 DEF Verdict
  <2>3. /\ Verdict(id)' = IF st # "OK" THEN "failed" ELSE "complete"
        /\ \A j \in Ids : j # id => Verdict(j)' = Verdict(j)
        /\ \A j : Known(j) => Known(j)'
    BY <2>1, <2>2, VerdictRelease
  <2> QED
    BY <2>1, <2>2, <2>3
<1> QED
  BY <1>1, <1>2 DEF SenderMoves

-------------------------------------------------------------------------------
(* Every step is a step of the service *)

\* What is put, and who put it, is not forgotten; what is sent was put.
LEMMA PutInvStep ==
    ASSUME TransferInv, PutInv, StepEffect
    PROVE  PutInv'
<1>1. TxInv
  BY DEF TransferInv
<1>2. ASSUME \A j : Known(j) => Known(j)', UNCHANGED rxVars,
             NEW in, NEW out, Exchange(in, out), \A q \in out : Known(q.id)'
      PROVE  PutInv'
  BY <1>2, ExchangeAdds DEF PutInv, rxVars
<1>3. CASE /\ UNCHANGED << rxVars, limit >>
           /\ \E mode \in limit.modes, closure \in limit.closures, size \in limit.sizes :
                PutEffect(mode, closure, size)
  <2>1. PICK mode \in limit.modes, closure \in limit.closures, size \in limit.sizes :
          PutEffect(mode, closure, size)
    BY <1>3
  <2>2. PICK out : /\ Exchange({}, out)
                   /\ \A q \in out : FilePdu(q, nextSeq,
                                             MetadataPdu(nextSeq, mode, closure, size))
    BY <2>1 DEF PutEffect
  <2>3. \A q \in out : q.id = nextSeq
    BY <2>2 DEF FilePdu
  <2>4. PICK id \in Ids : id = nextSeq
    BY <1>1 DEF TxInv
  <2>5. (\A j : Known(j) => Known(j)') /\ Known(id)'
    BY <1>1, <2>1, <2>4, PutVerdict
  <2> QED
    BY <1>2, <1>3, <2>2, <2>3, <2>4, <2>5
<1>4. CASE UNCHANGED << rxVars, limit >> /\ \E in : SenderEffect(in)
  <2>1. PICK in : SenderEffect(in)
    BY <1>4
  <2>2. PICK out : Exchange(in, out) /\ \A q \in out : SenderSends(q)
    BY <2>1 DEF SenderEffect
  <2>3. \A q \in out : Known(q.id)
    BY <2>2 DEF SenderSends, Known, PutInv
  <2>4. PICK id \in Ids : id = tx.id
    BY <1>1 DEF TxInv, TxSlots
  <2>5. \A j : Known(j) => Known(j)'
    BY <1>1, <2>1, <2>4, SenderVerdict DEF SenderEffect
  <2> QED
    BY <1>2, <1>4, <2>2, <2>3, <2>5
<1>5. CASE UNCHANGED << rxVars, txVars, limit >> /\ \E p \in InFlight : LinkEffect(p)
  <2>1. PICK p \in InFlight : LinkEffect(p)
    BY <1>5
  <2>2. PICK in, out : Exchange(in, out) /\ \A q \in out : q.id = p.id
    BY <2>1 DEF LinkEffect
  <2>3. \A j : Known(j) => Known(j)'
    BY <1>5 DEF Known, txVars
  <2>4. \A q \in out : Known(q.id)'
    BY <2>2, <2>3 DEF PutInv
  <2> QED
    BY <1>2, <1>5, <2>2, <2>3, <2>4
<1>6. CASE UNCHANGED << txVars, limit >> /\ \E in : ReceiverEffect(in)
  <2>1. PICK in : ReceiverEffect(in)
    BY <1>6
  <2>2. PICK m, p : /\ Become(m) /\ Exchange(in, m.out)
                    /\ \/ Same(m)
                       \/ rx.active /\ (Live(m) \/ Ended(m))
                       \/ /\ p \in InFlight
                          /\ \/ rx.active /\ Acked(m)
                             \/ ~rx.active /\ (Opened(m, p) \/ OpenFailed(m, p))
    BY <2>1 DEF ReceiverEffect
  <2>3. \A j : Known(j) <=> Known(j)'
    BY <1>6 DEF Known, txVars
  <2>4. (\A q \in InFlight : Known(q.id)) /\ (rx.active => Known(rx.id)) /\ rx' = m.slot
    BY <2>2 DEF PutInv, Become
  <2> HIDE DEF Known
  <2>5. \A q \in m.out : Known(q.id)
    BY <2>2, <2>4 DEF Same, Live, Running, Ended, OutGood, Acked, Opened, OpenFailed
  <2>6. rx'.active => Known(rx'.id)
    BY <2>2, <2>4, NoRxSlotIs DEF Same, Live, Running, Ended, Acked, Opened, OpenFailed
  <2>7. \A q \in InFlight' : Known(q.id)
    BY <2>2, <2>4, <2>5, ExchangeAdds
  <2> QED
    BY <2>3, <2>6, <2>7 DEF PutInv
<1>7. CASE UNCHANGED vars
  BY <1>7 DEF PutInv, Known, InFlight, vars, linkVars
<1> QED
  BY <1>3, <1>4, <1>5, <1>6, <1>7 DEF StepEffect

\* The state of the service, as CfdpTransfer maps it.
Verdicts == [id \in Ids |-> Verdict(id)]
Stored   == {commits[i][1] : i \in 1..Len(commits)}

\* One verdict changes, or none.
LEMMA VerdictsChange ==
    ASSUME NEW id \in Ids, \A j \in Ids : j # id => Verdict(j)' = Verdict(j)
    PROVE  Verdicts' = [Verdicts EXCEPT ![id] = Verdict(id)']
BY DEF Verdicts

LEMMA VerdictsKept ==
    ASSUME \A j \in Ids : Verdict(j)' = Verdict(j)
    PROVE  Verdicts' = Verdicts
BY DEF Verdicts

\* What a call of the receiver adds to the files stored: none, or that of its transaction.
LEMMA ReceiverStores ==
    ASSUME TransferInv, NEW in, ReceiverEffect(in)
    PROVE  Stored' = Stored \/ (rx.active /\ rx.id \in Ids /\ Stored' = Stored \cup {rx.id})
<1>1. PICK m, p : /\ Become(m)
                  /\ \/ Same(m) \/ (rx.active /\ (Live(m) \/ Ended(m)))
                     \/ Acked(m) \/ Opened(m, p) \/ OpenFailed(m, p)
  BY DEF ReceiverEffect
<1>2. commits' = m.commits
  BY <1>1 DEF Become
<1>3. CASE Same(m) \/ Acked(m) \/ Opened(m, p) \/ OpenFailed(m, p)
  BY <1>2, <1>3 DEF Same, Acked, Opened, OpenFailed, Stored
<1>4. CASE rx.active /\ (Live(m) \/ Ended(m))
  <2>1. CommitsGood(commits') /\ rx.id \in Ids
    BY <1>2, <1>4 DEF Live, Running, Ended, TransferInv, RxInv, SlotSound
  <2>2. \A c \in Seq(Intact) : \A i \in 1..Len(c) : c[i][1] \in Ids
    BY DEF Intact
  <2>3. Stored \subseteq Ids /\ Stored' \subseteq Ids
    BY <2>1, <2>2 DEF CommitsGood, TransferInv, RxInv, Stored
  <2>4. \A id \in Ids : (id \in Stored <=> Has(commits, id)) /\ (id \in Stored' <=> Has(commits', id))
    BY DEF Stored, Has
  <2>5. Stored \subseteq Stored' /\ Stored' \subseteq Stored \cup {rx.id}
    BY <2>1, <2>3, <2>4 DEF CommitsGood
  <2> QED
    BY <1>4, <2>1, <2>5
<1> QED
  BY <1>1, <1>3, <1>4

\* Every step of the two entities and the link is one of the service, or changes nothing
\* its user sees.
LEMMA ServiceStep ==
    ASSUME TransferInv, PutInv, StepEffect
    PROVE  [Delivery!Next]_(Delivery!vars)
<1>1. TxInv
  BY DEF TransferInv
<1>2. ASSUME Verdicts' = Verdicts, Stored' = Stored PROVE UNCHANGED Delivery!vars
  BY <1>2 DEF Verdicts, Stored, Delivery!vars
<1>3. ASSUME UNCHANGED rxVars PROVE Stored' = Stored
  BY <1>3 DEF rxVars, Stored
<1>4. CASE /\ UNCHANGED << rxVars, limit >>
           /\ \E mode \in limit.modes, closure \in limit.closures, size \in limit.sizes :
                PutEffect(mode, closure, size)
  <2>1. PICK mode \in limit.modes, closure \in limit.closures, size \in limit.sizes :
          PutEffect(mode, closure, size)
    BY <1>4
  <2>2. PICK id \in Ids : id = nextSeq
    BY <1>1 DEF TxInv
  <2>3. /\ Verdict(id) # "pending" /\ Verdict(id)' \in {"pending", "failed", "sent"}
        /\ \A j \in Ids : j # id => Verdict(j)' = Verdict(j)
    BY <1>1, <2>1, <2>2, PutVerdict
  <2>4. Verdicts' = [Verdicts EXCEPT ![id] = Verdict(id)'] /\ Verdicts[id] # "pending"
    BY <2>3, VerdictsChange DEF Verdicts
  <2>5. PICK v \in {"pending", "failed", "sent"} : v = Verdict(id)'
    BY <2>3
  <2>6. Delivery!Put(id, v)
    BY <1>3, <1>4, <2>4, <2>5 DEF Delivery!Put, Verdicts, Stored
  <2> QED
    BY <2>6 DEF Delivery!Next
<1>5. CASE UNCHANGED << rxVars, limit >> /\ \E in : SenderEffect(in)
  <2>1. SenderMoves
    BY <1>5 DEF SenderEffect
  <2>2. PICK id \in Ids : id = tx.id
    BY <1>1 DEF TxInv, TxSlots
  <2>3. CASE \A j \in Ids : Verdict(j)' = Verdict(j)
    BY <1>2, <1>3, <1>5, <2>3, VerdictsKept
  <2>4. CASE /\ Verdict(id) = "pending"
             /\ \A j \in Ids : j # id => Verdict(j)' = Verdict(j)
             /\ \/ Verdict(id)' = "failed"
                \/ Verdict(id)' = "complete" /\ Has(commits, id)
    <3>1. Verdicts' = [Verdicts EXCEPT ![id] = Verdict(id)'] /\ Verdicts[id] = "pending"
      BY <2>4, VerdictsChange DEF Verdicts
    <3>2. Has(commits, id) => id \in Stored
      BY DEF Has, Stored
    <3>3. CASE Verdict(id)' = "failed"
      <4>1. Delivery!Fail(id)
        BY <1>3, <1>5, <3>1, <3>3 DEF Delivery!Fail, Verdicts, Stored
      <4> QED
        BY <4>1 DEF Delivery!Next
    <3>4. CASE Verdict(id)' = "complete" /\ Has(commits, id)
      <4>1. Delivery!Complete(id)
        BY <1>3, <1>5, <3>1, <3>2, <3>4 DEF Delivery!Complete, Verdicts, Stored
      <4> QED
        BY <4>1 DEF Delivery!Next
    <3> QED
      BY <2>4, <3>3, <3>4
  <2> QED
    BY <1>1, <2>1, <2>2, <2>3, <2>4, SenderVerdict
<1>6. CASE UNCHANGED << rxVars, txVars, limit >>
  <2>1. \A j \in Ids : Verdict(j)' = Verdict(j)
    BY <1>6 DEF Verdict, txVars
  <2> QED
    BY <1>2, <1>3, <1>6, <2>1, VerdictsKept
<1>7. CASE UNCHANGED << txVars, limit >> /\ \E in : ReceiverEffect(in)
  <2>1. \A j \in Ids : Verdict(j)' = Verdict(j)
    BY <1>7 DEF Verdict, txVars
  <2>2. Verdicts' = Verdicts
    BY <2>1, VerdictsKept
  <2>3. CASE Stored' = Stored
    BY <1>2, <2>2, <2>3
  <2>4. CASE rx.active /\ rx.id \in Ids /\ Stored' = Stored \cup {rx.id}
    <3>1. PICK id \in Ids : id = rx.id
      BY <2>4
    <3>2. Verdicts[id] # "none"
      BY <2>4, <3>1, KnownIs DEF PutInv, Verdicts
    <3>3. Delivery!Store(id)
      BY <2>2, <2>4, <3>1, <3>2 DEF Delivery!Store, Verdicts, Stored
    <3> QED
      BY <3>3 DEF Delivery!Next
  <2> QED
    BY <1>7, <2>3, <2>4, ReceiverStores
<1>8. CASE UNCHANGED vars
  BY <1>6, <1>8 DEF vars, rxVars, txVars, linkVars
<1> QED
  BY <1>4, <1>5, <1>6, <1>7, <1>8 DEF StepEffect

\* The entities implement the safety of FileDelivery, for any number of transfers and
\* whatever the link and the callbacks do: a put request has one answer, COMPLETE is
\* reported only of a file the receiver has committed, and receiver_finish commits
\* nothing that was not put.
THEOREM TransferDeliversSafely == Spec => Delivery!Safety
<1>1. Init => PutInv /\ Delivery!Init
  <2> SUFFICES ASSUME Init PROVE PutInv /\ Delivery!Init
    OBVIOUS
  <2>1. /\ InFlight = {} /\ txEvents = << >> /\ commits = << >>
        /\ tx.active = FALSE /\ rx.active = FALSE
    BY NoRxSlotIs DEF Init, LinkInit, TxInit, RxInit, NoTxSlot, InFlight, BagToSet, EmptyBag,
                      SetToBag
  <2>2. \A id \in Ids : Verdict(id) = "none"
    BY <2>1 DEF Verdict
  <2> QED
    BY <2>1, <2>2 DEF PutInv, Delivery!Init
<1>2. TransferInv /\ PutInv /\ [Next]_vars => PutInv' /\ [Delivery!Next]_(Delivery!vars)
  BY EveryStep, PutInvStep, ServiceStep
<1> QED
  BY <1>1, <1>2, TransferAlways, PTL DEF Spec, Delivery!Safety

================================================================================

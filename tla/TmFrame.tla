-------------------------------- MODULE TmFrame --------------------------------
(***************************************************************************)
(* The telemetry frame generator, src/ccsds_tm_frame.c: threads that call      *)
(* ccsds_tm_frame_add, the work item that cuts the queued packets of a virtual *)
(* channel (VC) into frames, and the threads that start and stop it.           *)
(*                                                                         *)
(* The queue of a VC is a Zephyr pipe of QueueDepth bytes, written and read    *)
(* under the VC's write_lock, which a writer keeps while it waits for room.    *)
(* (pending_len is the length of the pipe for whoever holds the lock, and is   *)
(* not kept apart.)                                                            *)
(*                                                                         *)
(* A byte is a record: packet p it belongs to, position i, length len of that  *)
(* packet.  The header takes the first HdrLen bytes and gives the length.      *)
(***************************************************************************)
EXTENDS Naturals, Sequences, SequencesExt, FiniteSetsExt

CONSTANTS MaxVc,               \* CCSDS_TM_MAX_VC_ID, the VC of idle frames too
          QueueDepth,          \* CONFIG_CCSDS_TM_QUEUE_DEPTH
          HdrLen,              \* CCSDS_SPACE_PACKET_PRIMARY_HDR_LEN
          DataLen,             \* data field of a frame
          FcModulus,           \* 256: the frame counters are uint8_t
          Writers, Controllers,   \* threads calling add; start and stop
          PacketLens,          \* lengths of the packets added
          Scenarios            \* what the threads do, and how often: see Scenario

\* Who adds which packets with which timeouts, "forever" (K_FOREVER) or "finite"
\* (anything else), whether SDLS is on and apply_security may fail, and the bounds of
\* the model: calls of add, and of start and stop.
Scenario == [writers: SUBSET Writers, lens: SUBSET PacketLens,
             timeouts: SUBSET {"forever", "finite"}, mayFail: BOOLEAN,
             packets: Nat, toggles: Nat]

\* ccsds_tm_frame_add refuses other packets at once.
ASSUME TmAssumption ==
    /\ {MaxVc, HdrLen, DataLen, QueueDepth} \subseteq Nat
    /\ HdrLen > 0 /\ DataLen > 0 /\ FcModulus \in {2 * k : k \in 1..128}
    /\ PacketLens \subseteq (HdrLen + 1)..QueueDepth
    /\ Scenarios \subseteq Scenario
    /\ Writers \cap {"free", "gen"} = {}

VARIABLES pipe,                \* vcs[].pending
          rem,                 \* vcs[].packet_rem
          lock,                \* vcs[].write_lock: its owner, or "free"
          vcfc, mcfc,          \* frame counters
          fsrNext,             \* sdls_ctx->fsr_next (fsr_enabled is set)
          wr,                  \* the call of add each writer is in
          running,             \* generator_running
          work,                \* generator_work is scheduled or queued
          canceling,           \* it was cancelled while the handler ran (K_WORK_CANCELING)
          gen,                 \* generator_work_handler: where it is, VC and frame
          ctl,                 \* the call each controller is in
          admitted,            \* history: bytes of the packets accepted by add
          sent,                \* history: packet bytes in the frames routed
          frame,               \* history: the last frame routed
          clean,               \* history: VCs that have lost no part of a packet
          swallowed,           \* history: the last start came while the item was cancelled
          limit,               \* the scenario
          calls, toggles       \* calls of add, of start and stop so far

vars == << pipe, rem, lock, vcfc, mcfc, fsrNext, wr, running, work, canceling, gen, ctl,
           admitted, sent, frame, clean, swallowed, limit, calls, toggles >>

queueVars == << pipe, rem, lock >>
counterVars == << vcfc, mcfc, fsrNext >>
workVars == << running, work, canceling, ctl, swallowed, limit, toggles >>

Vcs == 0..MaxVc

Bytes(p, len) == [i \in 1..len |-> [p |-> p, i |-> i, len |-> len]]

NoCall == [pc |-> "idle", vc |-> 0, timeout |-> "forever", left |-> << >>, packet |-> << >>]

NoStart == DataLen             \* CCSDS_TM_NO_FIRST_HEADER_POINTER
OnlyIdle == DataLen + 1        \* CCSDS_TM_IDLE_FIRST_HEADER_POINTER

NoFrame == [vc |-> MaxVc, data |-> << >>, fhp |-> OnlyIdle]

\* The handler at pc, about to look at or working on VC v.
GenAt(pc, v) == [pc |-> pc, vc |-> v, data |-> << >>, fhp |-> NoStart]

\* ccsds_tm_frame_init
Init ==
    /\ pipe = [v \in Vcs |-> << >>] /\ rem = [v \in Vcs |-> 0]
    /\ lock = [v \in Vcs |-> "free"]
    /\ vcfc = [v \in Vcs |-> 0] /\ mcfc = 0 /\ fsrNext = FALSE
    /\ wr = [w \in Writers |-> NoCall]
    /\ running = FALSE /\ work = FALSE /\ canceling = FALSE /\ swallowed = FALSE
    /\ gen = GenAt("idle", 0)
    /\ ctl = [c \in Controllers |-> "idle"]
    /\ admitted = [v \in Vcs |-> << >>] /\ sent = [v \in Vcs |-> << >>]
    /\ frame = NoFrame /\ clean = Vcs /\ limit \in Scenarios /\ calls = 0 /\ toggles = 0

-------------------------------------------------------------------------------
(* ccsds_tm_frame_add *)

Add(w) ==
    /\ wr[w].pc = "idle" /\ w \in limit.writers /\ calls < limit.packets
    /\ calls' = calls + 1
    /\ \E v \in Vcs, len \in limit.lens, t \in limit.timeouts :
         wr' = [wr EXCEPT ![w] = [pc |-> "lock", vc |-> v, timeout |-> t,
                                  left |-> Bytes(calls, len), packet |-> Bytes(calls, len)]]
    /\ UNCHANGED << queueVars, counterVars, gen, workVars, admitted, sent, frame, clean >>

\* Mutant: the lock is not taken.
AddLockNot(w) ==
    /\ wr[w].pc = "lock"
    /\ wr' = [wr EXCEPT ![w].pc = "write"]
    /\ UNCHANGED << queueVars, counterVars, gen, workVars, admitted, sent, frame, clean, calls >>

AddLock(w) ==
    /\ wr[w].pc = "lock" /\ lock[wr[w].vc] = "free"
    /\ lock' = [lock EXCEPT ![wr[w].vc] = w]
    /\ wr' = [wr EXCEPT ![w].pc = "write"]
    /\ UNCHANGED << pipe, rem, counterVars, gen, workVars, admitted, sent, frame, clean, calls >>

\* k_pipe_write: as much as there is room for; the loop ends with the packet.
AddWrite(w) ==
    /\ wr[w].pc = "write"
    /\ LET v == wr[w].vc
           n == Min({Len(wr[w].left), QueueDepth - Len(pipe[v])})
           left == SubSeq(wr[w].left, n + 1, Len(wr[w].left))
       IN  /\ n > 0
           /\ pipe' = [pipe EXCEPT ![v] = @ \o SubSeq(wr[w].left, 1, n)]
           /\ \/ /\ left # << >>
                 /\ wr' = [wr EXCEPT ![w].left = left]
                 /\ UNCHANGED << lock, admitted >>
              \/ /\ left = << >>
                 /\ wr' = [wr EXCEPT ![w] = NoCall]
                 /\ lock' = [lock EXCEPT ![v] = "free"]
                 /\ admitted' = [admitted EXCEPT ![v] = @ \o wr[w].packet]
    /\ UNCHANGED << rem, counterVars, gen, workVars, sent, frame, clean, calls >>

\* The timeout expires: on the lock, or in a pipe that has no room. What is already
\* in the pipe stays there.
AddTimeout(w) ==
    /\ wr[w].timeout = "finite"
    /\ \/ /\ wr[w].pc = "lock" /\ lock[wr[w].vc] # "free"
          /\ UNCHANGED << lock, clean >>
       \/ /\ wr[w].pc = "write" /\ Len(pipe[wr[w].vc]) = QueueDepth
          /\ lock' = [lock EXCEPT ![wr[w].vc] = "free"]
          /\ clean' = IF wr[w].left = wr[w].packet THEN clean ELSE clean \ {wr[w].vc}
    /\ wr' = [wr EXCEPT ![w] = NoCall]
    /\ UNCHANGED << pipe, rem, counterVars, gen, workVars, admitted, sent, frame, calls >>

-------------------------------------------------------------------------------
(* generator_work_handler, which runs as the work item of the system work queue *)

\* The work queue takes the item, and the handler reads generator_running.
GenBegin ==
    /\ gen.pc = "idle" /\ work
    /\ work' = FALSE
    /\ gen' = GenAt(IF running THEN "select" ELSE "returning", 0)
    /\ UNCHANGED << queueVars, counterVars, wr, running, canceling, ctl, swallowed, limit,
                    toggles, admitted, sent, frame, clean, calls >>

\* Mutant: the last VC is never looked at.
GenSelectShort ==
    /\ gen.pc = "select" /\ lock[gen.vc] = "free"
    /\ gen' = IF pipe[gen.vc] # << >> \/ rem[gen.vc] > 0 THEN GenAt("build", gen.vc)
              ELSE IF gen.vc + 1 < MaxVc THEN GenAt("select", gen.vc + 1)
              ELSE GenAt("idle frame", MaxVc)
    /\ UNCHANGED << queueVars, counterVars, wr, workVars, admitted, sent, frame, clean, calls >>

\* generator_select_active_vc: the lowest VC with something pending
GenSelect ==
    /\ gen.pc = "select" /\ lock[gen.vc] = "free"
    /\ gen' = IF pipe[gen.vc] # << >> \/ rem[gen.vc] > 0 THEN GenAt("build", gen.vc)
              ELSE IF gen.vc < MaxVc THEN GenAt("select", gen.vc + 1)
              ELSE GenAt("idle frame", MaxVc)
    /\ UNCHANGED << queueVars, counterVars, wr, workVars, admitted, sent, frame, clean, calls >>

-------------------------------------------------------------------------------
(* build_packet_transfer_frame: under the lock of the VC, the handler fills the *)
(* data field of the frame, gen.data, from the pipe.                           *)

GenLock ==
    /\ gen.pc = "build" /\ lock[gen.vc] = "free"
    /\ lock' = [lock EXCEPT ![gen.vc] = "gen"]
    /\ gen' = GenAt("fill", gen.vc)
    /\ UNCHANGED << pipe, rem, counterVars, wr, workVars, admitted, sent, frame, clean, calls >>

Space == DataLen - Len(gen.data)

\* complete_ocf and increment_frame_counters
CountFrames(v) ==
    /\ mcfc' = (mcfc + 1) % FcModulus
    /\ vcfc' = [vcfc EXCEPT ![v] = (@ + 1) % FcModulus]
    /\ fsrNext' = ~fsrNext

\* Mutant: the phase of the OCF advances with every frame built.
FrameAbortedToggles ==
    /\ fsrNext' = ~fsrNext /\ clean' = clean \ {gen.vc}
    /\ UNCHANGED << vcfc, mcfc, sent, frame >>

\* apply_security fails, or the pipe holds less than the packet: no frame, and
\* what was read for it is gone.
FrameAborted ==
    /\ clean' = IF gen.pc = "fill" THEN clean \ {gen.vc} ELSE clean
    /\ UNCHANGED << counterVars, sent, frame >>

\* The lock is released and the cycle is over.
GenUnlock ==
    /\ lock' = [lock EXCEPT ![gen.vc] = "free"]
    /\ gen' = GenAt("cycled", gen.vc)

\* read_pending_bytes finds n bytes: they go into the frame.
Read(n, fhp) ==
    /\ Len(pipe[gen.vc]) >= n
    /\ pipe' = [pipe EXCEPT ![gen.vc] = SubSeq(@, n + 1, Len(@))]
    /\ gen' = [gen EXCEPT !.data = @ \o SubSeq(pipe[gen.vc], 1, n), !.fhp = fhp]
    /\ UNCHANGED << lock, counterVars, sent, frame, clean >>

\* The rest of a packet already started; a read that fails half way has
\* emptied the pipe.
GenContinue ==
    /\ gen.pc = "fill" /\ Space > 0 /\ rem[gen.vc] > 0
    /\ LET n == Min({rem[gen.vc], Space})
       IN  \/ /\ Read(n, gen.fhp)
              /\ rem' = [rem EXCEPT ![gen.vc] = @ - n]
           \/ /\ Len(pipe[gen.vc]) < n
              /\ pipe' = [pipe EXCEPT ![gen.vc] = << >>]
              /\ GenUnlock /\ FrameAborted /\ UNCHANGED rem
    /\ UNCHANGED << wr, workVars, admitted, calls >>

\* packet_total_len: the length in the packet header at the head of the pipe,
\* or, if the bytes there are no header, whatever they happen to say
TotalLens ==
    LET q == pipe[gen.vc]
    IN  IF q[1].i = 1 /\ q[HdrLen].p = q[1].p THEN {q[1].len} ELSE PacketLens

\* Mutant: the pointer is moved to every packet start.
FirstHeaderPointerLast == Len(gen.data)

\* The first packet start in a frame sets the pointer.
FirstHeaderPointer == IF gen.fhp = NoStart THEN Len(gen.data) ELSE gen.fhp

\* A queued packet is started: its header goes into the frame.
GenStartPacket ==
    /\ gen.pc = "fill" /\ Space >= HdrLen
    /\ rem[gen.vc] = 0 /\ pipe[gen.vc] # << >>
    /\ \/ /\ Read(HdrLen, FirstHeaderPointer)
          /\ \E total \in TotalLens : rem' = [rem EXCEPT ![gen.vc] = total - HdrLen]
       \/ /\ Len(pipe[gen.vc]) < HdrLen
          /\ GenUnlock /\ FrameAborted /\ UNCHANGED << pipe, rem >>
    /\ UNCHANGED << wr, workVars, admitted, calls >>

\* The loop is over: the tail is filled, with an idle packet if there is room
\* for one, and the frame is secured, counted, unlocked and routed.
GenEmit ==
    /\ gen.pc = "fill"
    /\ Space = 0 \/ (rem[gen.vc] = 0 /\ (pipe[gen.vc] = << >> \/ Space < HdrLen))
    /\ \/ /\ CountFrames(gen.vc)
          /\ sent' = [sent EXCEPT ![gen.vc] = @ \o gen.data]
          /\ frame' = [vc |-> gen.vc, data |-> gen.data,
                       fhp |-> IF Space > HdrLen THEN FirstHeaderPointer ELSE gen.fhp]
          /\ UNCHANGED clean
       \/ limit.mayFail /\ FrameAborted
    /\ GenUnlock
    /\ UNCHANGED << pipe, rem, wr, workVars, admitted, calls >>

\* build_idle_transfer_frame
GenIdleFrame ==
    /\ gen.pc = "idle frame"
    /\ \/ CountFrames(MaxVc) /\ frame' = NoFrame /\ UNCHANGED << sent, clean >>
       \/ limit.mayFail /\ FrameAborted
    /\ gen' = GenAt("cycled", MaxVc)
    /\ UNCHANGED << queueVars, wr, workVars, admitted, calls >>

\* After the cycle: generator_running is read again ...
GenCheck ==
    /\ gen.pc = "cycled"
    /\ gen' = GenAt(IF running THEN "reschedule" ELSE "returning", 0)
    /\ UNCHANGED << queueVars, counterVars, wr, workVars, admitted, sent, frame, clean, calls >>

\* k_work_schedule: nothing happens if the item is scheduled or queued already, or
\* if it was cancelled and its handler has not returned yet.
Schedule == work' = (work \/ ~canceling)

\* Mutant: the work item is not scheduled again.
GenRescheduleNot ==
    /\ gen.pc = "reschedule" /\ gen' = GenAt("returning", 0)
    /\ UNCHANGED << queueVars, counterVars, wr, workVars, admitted, sent, frame, clean, calls >>

\* ... and the work item scheduled.
GenReschedule ==
    /\ gen.pc = "reschedule" /\ Schedule
    /\ gen' = GenAt("returning", 0)
    /\ UNCHANGED << queueVars, counterVars, wr, running, canceling, ctl, swallowed, limit,
                    toggles, admitted, sent, frame, clean, calls >>

\* The handler returns to the work queue, which ends the cancellation.
GenReturn ==
    /\ gen.pc = "returning" /\ gen' = GenAt("idle", 0)
    /\ canceling' = FALSE
    /\ UNCHANGED << queueVars, counterVars, wr, running, work, ctl, swallowed, limit,
                    toggles, admitted, sent, frame, clean, calls >>

Generator == \/ GenBegin \/ GenSelect \/ GenLock \/ GenContinue \/ GenStartPacket \/ GenEmit
             \/ GenIdleFrame \/ GenCheck \/ GenReschedule \/ GenReturn

-------------------------------------------------------------------------------
(* ccsds_tm_frame_start and ccsds_tm_frame_stop *)

Toggle(c, to) ==
    /\ ctl[c] = "idle" /\ toggles < limit.toggles
    /\ ctl' = [ctl EXCEPT ![c] = to] /\ toggles' = toggles + 1
    /\ UNCHANGED << queueVars, counterVars, wr, work, canceling, gen, swallowed, limit,
                    admitted, sent, frame, clean, calls >>

ToggleWork(c, from) ==
    /\ ctl[c] = from /\ ctl' = [ctl EXCEPT ![c] = "idle"]
    /\ UNCHANGED << queueVars, counterVars, wr, running, gen, limit, toggles, admitted,
                    sent, frame, clean, calls >>

Start(c) == Toggle(c, "starting") /\ running' = TRUE
StartWork(c) == /\ ToggleWork(c, "starting") /\ Schedule
                /\ swallowed' = canceling /\ UNCHANGED canceling

\* k_work_cancel_delayable: the item is taken out of the timer or the queue, and
\* marked if the handler is running.
Stop(c) == Toggle(c, "stopping") /\ running' = FALSE
StopWork(c) == /\ ToggleWork(c, "stopping") /\ work' = FALSE
               /\ canceling' = (gen.pc # "idle") /\ UNCHANGED swallowed

Writer(w) == AddLock(w) \/ AddWrite(w) \/ AddTimeout(w)

Controller(c) == StartWork(c) \/ StopWork(c)

Next == \/ \E w \in Writers : Add(w) \/ Writer(w)
        \/ Generator
        \/ \E c \in Controllers : Start(c) \/ Stop(c) \/ Controller(c)

Spec == Init /\ [][Next]_vars

\* Every thread that can run does so in the end, every delay ends, and a thread
\* waiting for a mutex gets it if it is free again and again.
FairSpec == /\ Spec
            /\ \A w \in Writers : SF_vars(Writer(w))
            /\ SF_vars(Generator)
            /\ \A c \in Controllers : WF_vars(Controller(c))

-------------------------------------------------------------------------------
(* Properties *)

\* The variables have their types, the pipe is not overrun, and the lock of a
\* VC is held by the one thread that reads or writes its queue.
TypeOK ==
    /\ \A v \in Vcs : Len(pipe[v]) <= QueueDepth /\ rem[v] \in Nat
    /\ vcfc \in [Vcs -> 0..(FcModulus - 1)] /\ mcfc \in 0..(FcModulus - 1)
    /\ \A v \in Vcs, w \in Writers : lock[v] = w <=> wr[w].pc = "write" /\ wr[w].vc = v
    /\ \A v \in Vcs : lock[v] = "gen" <=> gen.pc = "fill" /\ gen.vc = v
    /\ running \in BOOLEAN /\ work \in BOOLEAN /\ fsrNext \in BOOLEAN
    /\ swallowed \in BOOLEAN /\ canceling \in BOOLEAN
    /\ canceling => gen.pc # "idle" /\ ~work
    /\ limit \in Scenarios /\ gen.vc \in Vcs /\ Len(frame.data) <= DataLen /\ clean \subseteq Vcs

\* What ccsds_tm_frame_add has admitted to a VC comes out of its frames byte by
\* byte, packets whole and in order, with nothing but fill in between: however several
\* threads add at once and wherever the frames cut the packets. The stream of a VC
\* is broken only by an addition that times out half way, which leaves its bytes in
\* the pipe, or by a frame given up after its bytes were read; that of the other
\* VCs is not.
StreamIsPackets == \A v \in clean : IsPrefix(sent[v], admitted[v])

\* The first header pointer of a frame is the offset of the first packet start
\* in it, that of the fill included, and NoStart if no packet starts in it.
PacketStarts(f) ==
    {k - 1 : k \in {j \in DOMAIN f.data : f.data[j].i = 1}}
    \cup (IF DataLen - Len(f.data) > HdrLen THEN {Len(f.data)} ELSE {})
PointerExact ==
    frame.fhp # OnlyIdle /\ frame.vc \in clean =>
      frame.fhp = IF PacketStarts(frame) = {} THEN NoStart ELSE Min(PacketStarts(frame))

\* The OCF phase advances with the frames emitted, master counter and phase in
\* step, although a frame may be given up after it was built.
PhaseInStep == fsrNext <=> mcfc % 2 = 1

\* Queues, locks and counters of the generator are sound.
GeneratorInv == TypeOK /\ PhaseInStep

\* A generator that has been started keeps producing frames until it is stopped.
GeneratorKeepsCycling == []<>(~running \/ gen.pc = "cycled")

\* An addition that may wait for ever waits for room, with the lock of its VC held.
WriterStuck == \E w \in Writers : /\ wr[w].pc = "write" /\ wr[w].timeout = "forever"
                                  /\ Len(pipe[wr[w].vc]) = QueueDepth

\* Only two things end the cycles of a generator that has been started, whatever
\* locks it meets, whichever additions time out and whichever frames fail: an addition
\* stuck in a full queue, and a start that k_work_schedule ignored because the handler
\* of the stop before it had not returned; the next stop and start revive it.
CyclesUnlessCutOff == []<>(~running \/ swallowed \/ WriterStuck \/ gen.pc = "cycled")

\* Everything admitted is sent in the end if the generator is left running, is not
\* cut off in one of those two ways, and no packet was torn.
AllSent == <>[](running /\ ~swallowed /\ ~WriterStuck) /\ [](clean = Vcs)
               => <>[](sent = admitted)

===============================================================================

# TLA+ verification of zephyr-ccsds

This directory holds TLA+ models of the protocol logic of zephyr-ccsds, the TLC
configurations that check them on small instances, and TLAPS proofs for every
value of the constants. `PROJECT.json` lists runs, mutants, findings, hazards,
theorems and, for every definition that models code, the lines it models.

Check a run with `tlc -config TcUplink.cfg TcUplink`, proofs with
`tlapm TcUplinkProofs.tla`. Definitions that begin with "Mutant:" are deliberate
mistakes: replacing the definition they are named after must violate the property
`PROJECT.json` pairs them with. No specification uses them.

## 1. Inventory

The library implements the space end of CCSDS links for Zephyr: telecommands come
up, telemetry goes down, and files move both ways.

| Component | State | Operations | Interacts with |
|---|---|---|---|
| CFDP entity `ccsds_cfdp_entity.c` | one sender and one receiver slot, transaction counter, received ranges, retry deadlines and rounds, open file handle | init, send_file, receive_pdu, poll, release | filestore, transport, clock and event callbacks; ranges |
| CFDP ranges `ccsds_cfdp_ranges.c` | bounded ordered array of received ranges | init, add, is_complete, missing | the receiver slot |
| TC profile `ccsds_profile.c` | COP-1 state of a VC (V(R), lockout, retransmit, FARM-B), one reassembly buffer, provenance of the authenticated frame | CLTU dispatch, control frames, CLCW, set_clear_map | SDLS, segment walk, packet handlers, TM generator (CLCW provider) |
| TC segments `ccsds_tc_segment.c` | none | walk a segment into parts | called by the profile |
| SDLS `ccsds_sdls.c`, `ccsds_sdls_ep.c` | tables of security associations (SAs) and keys, sender IV, security report, event ring, context of the authenticated frame | process security (receive thread), apply security (work queue), extended procedures of key management, SA management and monitoring | TC profile, TM generator, PSA key store |
| TM generator `ccsds_tm_frame.c` | a byte queue, lock, packet remainder and counter per VC; master counter; OCF phase; work item | add (any thread), work handler (work queue), start, stop, routes | SDLS, CLCW provider, route callbacks |
| Packet input (`ccsds_profile.c`) | none of its own | init, dispatch_unit | UDP callback, Space Packet decoding, router |
| APID router `ccsds_router.c` | array of entries | register, unregister, dispatch | Space Packet decoding, handlers |
| UDP adapter `ccsds_udp.c` | two sockets, receive thread, running flags, statistics, all under a mutex | start, stop, send (any thread), receive loop (own thread) | Zephyr sockets, the application's callback |
| CFDP service, Space Packet adapter | the binding; a sequence counter | submit, receive | router, entity |
| Codecs and coding (PDU, Space Packet, TC frame, CLTU, BCH, RS, CRC, randomiser, checksums) | none | encode, decode | everything above |

Hard behaviours, each at its line under "hazards" in `PROJECT.json`:

* delivery: CFDP PDUs are lost, repeated, reordered and damaged; commands are lost
  and resent, CLCWs are read late;
* failure: every filestore and transport callback may fail between two steps;
  frame security may fail after a frame was filled; a pipe write may time out; a key
  import may fail after others have succeeded;
* ordering: V(R) is acknowledged before the packet is handed over; anti-replay runs
  before the FARM; segments of several MAPs meet in one buffer;
* concurrency: several threads add telemetry while the work queue drains it; start
  and stop race with the work handler; the CLCW is built and frames are protected on
  the work queue while the receive thread changes what they read; the UDP receive
  thread outlives stop;
* limits: 8-bit frame numbers, bounded range array, retry rounds, queue depth, the
  ring of security events, reused socket numbers;
* progress: recovery from losses, release of slots, lockout and UNLOCK, a generator
  that must keep cycling.

What makes each part correct: a committed file is the file that was sent, and
COMPLETE is reported for nothing else; commands are accepted once and in order, and
an acknowledged one is delivered; telemetry frames carry the packets added, whole and
in order; the router is a function; no protected frame is accepted twice, no nonce is
used twice and no key in two directions; one thread receives and no socket leaks.

## 2. Modules

| Module | Models | Used by |
|---|---|---|
| `CfdpRanges` | the array of received ranges as operators | `CfdpRangeTracker`, `CfdpReceiver` |
| `CfdpRangeTracker` | one array under every sequence of additions, against the set of bytes added | run `ranges` |
| `CfdpRangeLemmas` | lemmas on those operators, for every array | `CfdpRangeProofs`, `CfdpProofs` |
| `CfdpRangeProofs` | proofs about `CfdpRangeTracker` | |
| `CfdpLink` | PDUs, the transport (loss, duplication, damage, any order), the scenario that bounds them | sender and receiver |
| `CfdpReceiver`, `CfdpSender` | the two slots of an entity: one action per PDU handler, `send_file`, `poll` | `CfdpTransfer` |
| `CfdpTransfer`, `MCCfdpTransfer` | composition of the two and the link; the scenarios checked | runs `cfdp_safety`, `cfdp_late_data` |
| `CfdpOrderedTransfer`, `MCCfdpOrderedTransfer` | the same with a second kind of transport, one that keeps order | run `cfdp_live` |
| `FileDelivery` | what `send_file` promises, abstractly: `Safety`, and that it answers | refined by `CfdpTransfer` |
| `CfdpProofs` | proofs about `CfdpTransfer` | |
| `TcFarm` | COP-1 receive state and the functions that advance it | `TcUplink`, `TcProfile` |
| `TcUplink` | sequence-controlled commanding: ground, uplink, FARM, CLCW | run `tc_uplink` |
| `TcUplinkProofs` | proofs about `TcUplink` | |
| `TcProfile`, `MCTcProfile` | the whole CLTU dispatch with SDLS hook, segments, reassembly and hand-over; the command plans checked | runs `tc_profile`, `tc_provenance` |
| `TcProfileProofs` | proofs about `TcProfile` | |
| `TmFrame`, `MCTmFrame` | TM generator: adding threads, work handler, controlling threads; the scenarios checked | runs `tm_*` |
| `TmFrameProofs` | proofs about `TmFrame` | |
| `Sdls` | SA and key tables, anti-replay, nonces, security report, event ring | `SdlsEp` |
| `SdlsEp`, `MCSdls` | the extended procedures on that state; the tables, frames and PDUs checked | run `sdls` |
| `AntiReplay` | what anti-replay promises, abstractly | refined by `SdlsEp` |
| `SdlsProofs` | proofs about `SdlsEp` | |
| `Router`, `ApidRoutes` | the table of the router, and the partial function it stands for | `UdpInput` |
| `Udp` | the UDP adapter: application, receive threads, senders, socket numbers | `UdpInput` |
| `UdpInput`, `MCUdpInput` | adapter, packet input and router composed; the scenarios checked | run `udp_input` |
| `InputProofs` | proofs about `Router` and `UdpInput` | |

How state and actions correspond to the code:

* **CFDP.** `rx` and `tx` are the two slots of `struct ccsds_cfdp_entity`; `fs` is what
  the filestore callbacks have done; `net` is a bag of PDUs. A file is a number of
  segments; its checksum is the content it was computed from, so a damaged segment
  changes it. Handlers are one action each (`HandleMetadata`, `HandleFileData`,
  `HandleEof`, `HandleAck`, `HandleFinished`, `HandleNak`), taken whole: closing,
  committing, sending Finished and the event are part of the action, and a callback
  may fail at each of them. `send_file` sends all its PDUs in one step because the
  transport only queues them.
* **TC.** `farm` is `struct ccsds_profile_tc_vc_state`. `SequenceCheck` is
  `update_tc_sequence_state` with its unsigned 8-bit differences as differences modulo
  `Modulus`. In `TcUplink` a frame carries its number modulo `Modulus` and, as a ghost no
  action of the spacecraft looks at, its real number. `TcProfile` adds the rest of the
  dispatch; a frame is a record of MAP, segment kind, piece and lengths, and one that
  the segment walk refuses (an empty segment, a first segment that ends within the packet
  header, a tail that is no packet) is refused after V(R) has advanced. The ground in
  both is external, modelled as a go-back-n sender. A CLCW is built without a lock
  while the dispatch goes on, so `SendReport` and `SendFlags` replace the report value
  and the flags of the last CLCW independently of each other.
* **TM.** A byte is a record of packet, position and length, so that a frame cut at the
  wrong place shows. `write_lock` has an owner; a writer keeps it over its waits for
  room, the generator over the loop that fills one frame (`GenContinue`,
  `GenStartPacket`, `GenEmit` are the branches of that loop). `running` and `work` are
  changed in two steps by start and stop, as in the code. The work item has the states
  that matter to the kernel's k_work_schedule: `work` (delayed or queued), running (the
  handler is not at "idle") and `canceling`, set by a cancel that finds the handler running
  and cleared when it returns (`GenReturn`). `Schedule`, used by start and by the handler,
  does nothing to an item that is cancelled, delayed or queued.
* **SDLS.** `sas`, `keys`, `txIv`, `fsr`, `log` and `auth` are the fields of
  `struct ccsds_sdls_ctx`; `objects` is the PSA key store. A key object is a number and a
  frame names the object it was protected with. `ProcessSecurity` and each procedure are
  one action of the receive thread, with the checks in the order of the code, the
  event a failure leaves, and `fault` the number of the PSA call that fails.
  `BeginDispatch` and `Withdraw` are what the profile does to the indication.
  `ApplySecurity` runs on the work queue and may come between the two halves of a Key
  Verification, the one procedure that reads the counters, works, and writes them back
  (`BeginKeyVerification`, `EndKeyVerification`). The other procedures change nothing
  `ApplySecurity` reads in more than one piece. A PDU is its header, its length and its
  fields; `Layout` has the wire lengths, so limits and remainders are those of the code.
* **UDP.** Every section under the mutex is a step. `fds` says what each socket number
  stands for, the lowest free one is given out next, and a thread holds the number it
  was started with. `call` is the start or stop in progress: between its steps the
  receive thread and senders run.
* **Router.** `entries` is the array; `First` is the search from the front. A dispatch
  is made by the receive thread when the callback gets a datagram (`DispatchUnit`).

## 3. Runs

Every passing run has a mutant for each of its properties. "V" marks a run that is
expected to find a violation; each has a finding (section 6).

`ArrayInv`, `SlotInv`, `DispatchInv`, `GeneratorInv` and `MonitoringInv` join the type invariant
of their module to the property about the same state; the types of `TcUplink`, `Router`
and `UdpInput` are proved.

The plans of `tc_profile` satisfy `PlanAssumption`: the ground sends a packet whole, its
segments in order on one MAP, which carries those of one packet at a time. The packets
of different MAPs may be interleaved, and a plan may be malformed: segments may be empty,
a first segment may end within the packet header, a packet may exceed the buffer and a
tail that is no packet follow the last one. A ground that mixes the segments of packets on
one MAP is outside the model.

| Run | Question and answer |
|---|---|
| `ranges` | Does the bounded array stand for exactly the accepted bytes, ordered and disjoint, and are completeness and NAK ranges derived from it exact? Yes, and a gap retransmitted in one piece is always accepted. |
| `cfdp_safety` | Five scenarios (`MCCfdpTransfer`): a transfer with a damaged PDU, a failing callback or both; two unacknowledged transfers that compete for the receiver slot; duplicates and empty files in both modes. PDUs come in any order or never. Only the sent file is committed, an acknowledged COMPLETE means committed, the slot is not stolen, the sender reports once; and while nothing was duplicated no handle leaks, the receiver reports once and its COMPLETE means committed (observation 2 says why only then). |
| `cfdp_live` | Does the composition implement `FileDelivery`, liveness included, and is the receiver released from recovery? Yes, with up to three losses in any order. Do four rounds repair any four losses on an ordered link? Yes, for files of up to four segments. |
| `cfdp_late_data` V | Is every write made through an open handle? Not for data that arrives after the commit. |
| `tc_uplink` | Are commands accepted once, in order and never acknowledged too early, and do all of them get through? Yes, although a CLCW may mix values of different moments: with a ground window below half the COP-1 window without lockout, with a larger one by way of UNLOCK. |
| `tc_profile` | The whole dispatch, with SDLS and without, with replays, forgeries and failing callbacks: packets are handed over whole and in order, and no handler is shown the provenance of a frame other than its own or the one `authenticated_rx_fn` has just refused. An acknowledged packet has been handed over unless it exceeds the buffer, its first segment ends within its header (the walk refuses it and V(R) has advanced), or the handler of an earlier packet in its frame failed; this on plans that do not interleave packets. |
| `tc_provenance` V | Is the provenance withdrawn on every exit? Not when `authenticated_rx_fn` fails. |
| `tm_generator` | Three scenarios (`MCTmFrame`): two threads and a packet that fills the queue, with timeouts; failing security and a thread that waits for ever; stop and restart at every step of the handler. The frames of a VC carry its packets whole and in order until one is cut there, first header pointers are exact, and the OCF phase advances only with emitted frames. The generator cycles until stopped unless what one of the next two runs shows has happened; otherwise everything is sent. |
| `tm_blocked` V | A full queue and K_FOREVER: the adding thread and the generator wait for each other. |
| `tm_restart` V | Does a start get the generator going? Not if the handler of the stop before it has not returned. |
| `sdls` | Five scenarios (`MCSdls`): old, new and forged frames of an SA that is stopped, rekeyed and has its numbers set; all SAs starting, stopping and changing keys; keys replaced, activated, deactivated and verified while frames are sent; verifications that race with sending; every monitoring procedure and malformed PDUs with a ring that wraps. The ARSNs accepted between two Rekeys grow (`NoReplay`, a refinement of `AntiReplay`), no nonce leaves twice (except in the case of observation 6), a running SA shares its key with no SA of another direction or mode, a retired object is never active again, no OTAR leaves objects behind, the ring holds the newest events, an alarm has its cause in it, events name accepted frames, and every reply is one its decoder accepts. |
| `udp_input` | However start, stop, send, a slow callback and network errors overlap, one thread receives, no socket leaks or is closed twice, datagrams are counted for their own start and a stopped adapter may be started again (except in the case of observation 10); and the router, fed by that thread while APIDs come and go, implements the partial function of its interface, result codes included. |

### Bounds

* CFDP: a file has up to two segments in the safety runs (a hole, a tail and a
  touching pair all exist with two), four in `cfdp_live`, eight in `ranges`, which
  checks the range arithmetic alone with three ranges. One round (four where recovery
  is the question), two NAK ranges in the safety runs: every counter reaches its limit. In the unordered bag a PDU that is never delivered is a
  lost one, so the safety scenarios need no explicit losses; those of the liveness runs
  have them, because there the link must deliver what it does not lose. A scenario,
  chosen in the initial state, says what may be put and bounds the losses, duplicates,
  damages and faults of one behaviour. With `SeqModulus = 3` transaction numbers do not
  wrap in these runs; the proofs say what depends on that.
* TC: `Modulus` 16 or 8 instead of 256 keeps the relation of window and modulus that the
  BUILD_ASSERTs demand; `tc_uplink` starts from V(R) = 14, so that the numbers wrap within
  the five commands (the proofs start from any). `GroundWindows` has one window below and
  one above `HalfWindow`: a behaviour is of one of them. Two frames in flight allow a resent frame to follow an old one.
  `HdrLen = 2` and `MaxPacketLen = 4` make a first segment of one byte too short and a
  packet of five too long. The proofs remove these bounds.
* TM: a header of two bytes, a data field of five and packets of three and seven
  produce a packet that ends with its frame, one cut in its body, one that needs two
  frames, and a header that does not fit. Two writers and a queue of seven make one wait
  for room with part of its packet written. `FcModulus = 2` wraps the counters at once.
  Five calls of start and stop let a generator be stopped, started without effect, stopped
  and started again. What the threads of a behaviour do is its scenario, `limit`.
* SDLS: five to eight steps of a scenario reach every branch of every procedure its PDUs
  name; one or two PSA calls fail. Two entries make the ring wrap on the third event;
  `IvModulus = 8` with stride 5 wraps at once, from a seed of 7. The transmit ARSN of a
  key cannot wrap within the steps of a scenario (`NoWrap`, section 4).
* UDP and router: two starts, so that the thread of the first meets the second; three
  socket numbers, one more than can be open, so that a number is reused and start can
  also find one free; two datagrams, one counted before and one after the restart. Two
  entries, three valid APIDs and one invalid: the table fills, and has a hole in front of
  an entry in use. `InputProofs` removes these bounds.

Deadlock checking is off in the CFDP, TM, SDLS and UDP runs, which may stop: the
transfers are done, the generator was never started, the scenario is over.

### Fairness

* `CfdpTransfer!Fairness`: the application polls both entities often enough to serve
  the deadlines, which doc/user-guide/cfdp.md asks of it, and the transport delivers
  what it does not lose. Nothing is assumed of `send_file`.
* `TcUplink!FairSpec`: the receiver processes arriving frames and CLCWs are sent for
  ever, report value and flags (the TM generator repeats them in every frame); the ground reads them and keeps
  sending, going back and unlocking while it has reason to. Strong fairness of the
  ground's actions stands for its timers: they are disabled now and then by a full link.
* `TmFrame!FairSpec`: threads that can run do so in the end, delays end, and a thread that
  waits for a mutex gets it if it is free again and again (Zephyr hands a mutex over by
  priority, then in order of arrival). Nobody is obliged to call add, start or stop.
* `UdpInput!InputFairSpec`: a start or stop that was called goes on, a receive thread that
  can run does, and callbacks return (`DispatchUnit`). Nothing is assumed of the network:
  a thread waits in recv until its socket is closed. Nobody is obliged to call start,
  stop or send.
* `SdlsEp!Spec` has no fairness: nothing in it must happen.

## 4. Proofs

TLAPS checks these for all values of the constants that satisfy the named assumptions.

**`TcUplinkProofs`** (assumptions `WindowAssumption`, the two BUILD_ASSERTs on the COP-1
window, and `UplinkAssumption`: no window in `GroundWindows` exceeds `Modulus - HalfWindow`).
`AcceptedInOrder` is not inductive: that the next frame accepted is the right command
depends on every number in flight standing for the command beside it. `UplinkInv` adds
`Window` (base, reported, accepted and high are in this order and within one ground
window), `Reports` (CLCW and ground hold V(R) as it was) and `FramesInWindow` (a frame was
sent within the window open then; the order of the uplink keeps these windows
monotone). Since no two counters are more than `window` apart and a frame's
distance from V(R) is below `Modulus`, the 8-bit differences computed by the code are the
real ones (lemmas `FsnAddAdd`, `FsnDistance`), so each branch of the sequence check is
taken for the reason it was meant for. Theorems: `UplinkInvariant`, `UplinkTypeOK`,
`UplinkAcceptsInOrder`, `UplinkNeverLocksOut`, `UplinkRetransmitIsTrue`,
`UplinkAcknowledgesAccepted`.

**`TcProfileProofs`** (assumptions `ProfileAssumption`, `PlanAssumption`, and those of
`TcFarm`). `PlanAssumption` is what the ground owes the segmentation layer (section 3); it
says nothing about the order of packets of different MAPs, of retransmissions, or
of replayed and forged frames. `ProfileProvenanceOwnOrRefused` follows from `ContextInv`: between
dispatches the authenticated context is withdrawn, or it is that of the one frame
`authenticated_rx_fn` refused. The other theorems need what the buffer holds:
`ReassemblyInv` says it is empty or holds the pieces of one packet, up to and including
those of an accepted frame `j` whose successor has not been accepted. Because a MAP
carries one packet at a time, that successor is the only frame whose segment the walk can
append, and `DeliveredWhole` follows; nor can a first segment that the walk refuses belong
to the MAP of an open packet (`FirstElsewhere`). `OrderInv` ties every packet handed over to the frame
that completed it; frames complete packets in the order of their numbers.
`AcceptedIsDelivered` needs the converse, `NoneLost`: on a plan without interleaving,
whenever a packet is open that fits the buffer and has its header in its first segment
(`Fits`), the buffer does hold it. Theorems: `ProfileProvenanceOwnOrRefused`, `ProfileDispatchInv`, `ProfileDeliveredInOrder`, `ProfileAcceptedIsDelivered`.

**`TmFrameProofs`** (assumption `TmAssumption`: types, a packet is longer than its header
and fits the queue, the frame count modulus is even, and no thread is called "free" or
"gen"). `StreamIsPackets` looks only at what was sent and admitted; neither is inductive.
`VcInv` closes the account of a VC that has lost nothing: what was sent, what is in the
frame being filled and what is in the queue are together the packets admitted and the
part already written of the one being added. For this a packet must not be cut short by
another thread, which is `LockInv`, and a writer that waits must hold the rest of its own
packet, `WriterInv`. `packet_rem` is then what is missing of the last packet taken
(`Remainder`), whose bytes are consecutive (`Framed`), so that the generator finds a
packet start exactly where one is: `FillInv`, hence `PointerExact`. Theorems:
`TmStreamIsPackets`, `TmPointerExact`, `TmGeneratorInv`.

**`CfdpRangeLemmas`** and **`CfdpRangeProofs`** (assumptions `MaxNakRangesAssumption`,
`FileLenAssumption`). The lemmas say what `ccsds_cfdp_ranges_add` and `_missing` compute for
every array in canonical form (`Sorted`): an addition replaces the ranges it touches by
their hull (`Located`, `Spliced`), so it covers the old bytes and the new ones and nothing
else, and the array grows by one exactly when it touches none; the scan for missing ranges,
a recursive function over the array, holds after k ranges the gaps up to its cursor
(`ScanInv`). `RangesInv` joins the canonical form to `CoverageExact` and is inductive.
`GapsListed` and `GapsCounted` give `ReportsExact`; `WholeGapAccepted` holds because a gap
ends at a range or at an end of the file. Theorems: `RangesArrayInv`,
`RangesCoverageExact`, `RangesReportsExact`, `RangesWholeGapAccepted`. Sums over the
prefix of an array are proved by least counterexample (`LeastExists`), since the induction
theorems of the library cannot be instantiated.

**`CfdpProofs`** (assumptions `LinkAssumption`, `SenderAssumption`, `MaxNakRangesAssumption`).
A call of the receiver is a chain of operators on the record `m`. `Live(m)` and `Ended(m)`
say what may be true of that record while the transaction goes on and once it is
released; a lemma for each operator leads from one to the other, and `ReceiveEffect`
and `PollEffect` sum up a whole call. `CommittedIsIntact` is inductive only with
`TransferInv`: the checksum noted by the slot is that of the file of its own transaction
as long as it may still be compared (`SumGood`), every EOF in flight carries the checksum
of its transaction, and a Finished(no error) in flight, or a slot that has sent one,
implies a commit (`NetInv`, `SlotSound`), from which `CompleteIsCommitted` follows.
`EveryStep` reduces each step to one of four effects. The types of the slot go through the
same chain of operators (`CallTyped`) and rest on `CfdpRangeLemmas`.

`SlotInv`, `ReceiverCompleteIsCommitted` and `OneVerdictEach` speak of a link that repeats
nothing (observation 2), and are proved under `NoReuse`: no more is put than there are
sequence numbers, 256^`transaction_sequence_number_len` in the code. Once numbers wrap, an
ACK(Finished) delayed from the earlier transaction is as good as a duplicate for the
later one, and the code has nothing to tell them apart (with `SeqModulus = 1` and two puts TLC finds
the handle left open). `Numbered` says that transactions
have the numbers 0, 1, 2, ... in the order they were put. `OnceInv` then says: Metadata is
in flight once and only before the receiver knows its transaction (`MetadataInv`, which
counts the PDU in the bag), an active transaction has not been reported and nothing that
closes it is in flight before it waits for it (`ActiveInv`), and the verdicts are those of
commits (`VerdictInv`). Theorems: `TransferCommittedIsIntact`,
`TransferCompleteIsCommitted`, `TransferSlotNotStolen`, `TransferTypeOK` without
`NoReuse`; `TransferSlotInv`, `TransferReceiverComplete`, `TransferOneVerdictEach` with it.
The scenarios of `cfdp_safety` satisfy `NoReuse`.

`TransferDeliversSafely` proves `FileDelivery!Safety`, every step of the composition a step
of the service or a stutter, without `NoReuse`. Beside `TransferInv` it
needs that whatever is in flight or in the receiver slot belongs to a transaction that
was put (`PutInv`). What a step does to the verdicts is then put, complete or fail (`SenderVerdict`, where COMPLETE
needs the commit that `CompleteIsCommitted` gives), and what it does to the filestore is
to store a known file (`ReceiverStores`); `ServiceStep` joins them.

**`SdlsProofs`** (assumptions `SdlsAssumption`, the BUILD_ASSERTs and what
`ccsds_sdls_init` asserts of roles and modes, and `ScenarioAssumption`, what it asserts of
the tables and, named there, what it leaves to the application; of a PDU it says that
the keys listed are as many as the body the decoder accepts has entries, `EntriesMatch`).
`KeySeparationHolds`: separation is inductive only together with the fact that SAs in
clear mode have no key and that only configured SAs run (`SaInv`); the interesting
steps are Start and Rekey, where `validate_sa_key` has looked at every configured SA and
not only at those that run.
`NoReplayHolds`: every step is a step of `AntiReplay` or leaves it alone, because the
last ARSN accepted since a Rekey is at most `rxArsn` once that is initialised, and Set
ARSN cannot lower it.
`RetiredStaysRetiredHolds` needs `KeyInv`: every object in a slot is older than the next
import (`ObjectsOld`), an empty slot is pre-active (`AbsentIsPreactive`), no object is in
two slots (`SlotsDistinct`), and no usable slot refers to a retired object, active or
pre-active (`UsableNotRetired`), without which activation would bring one back.
`EventsAttributedHolds`: the indication names an accepted frame, therefore so does
every event recorded under it (`EventInv`).
`ObjectsBalancedHolds`: `StoreInv` says that the objects of the table exist and that the
volatile ones are in the table or could not be destroyed. An OTAR is the only step that
changes the store; the lemmas about it follow a failed import (`RollbackKeepsStore`) and a
complete one (`InstallKeepsStore`), which needs that no two slots share an object.
`MonitoringHolds`: `RingInv` relates the ring to the history: the write index is `count`
places after the read index, and the i-th oldest event is the i-th of the history. Its
proof is the arithmetic of the two indices modulo the capacity (`Place`, `PlaceAfter`),
for a ring that is full and one that is not (`RecordKeepsRing`). `Explained` says that the
cause of an alarm is lost only to a counted overwrite or to Erase Log; it needs that
the overwrite counter saturates above zero (`OverwriteMax` is at least 1).
`NonceUniqueHolds` assumes `NoWrap`, that no key allocates as many nonces as its ARSN has
values (2^32 in the code). `NonceInv` then says that every nonce that has left under the
object of a slot has an ARSN below the slot's counter, and that a verification under way
holds the counters as they are unless it was raced. The ARSN alone keeps the nonces
apart: nothing is assumed of the IV, which wraps, and which a verification sets back when
a frame under another key is sent meanwhile.
`RepliesAcceptedHolds` assumes `BothWays`, that an object the application allows to
encrypt may decrypt too: process_key_verification asks for the first, the check of the
reply for the second, and the property is about a peer with the same keys. `ReplyInv`
adds to the replies what a verification under way has established (`VerifyReady`): its
keys are distinct session keys, its nonces name the objects the table still holds. The
lengths of replies are those the decoders accept (`ReplyLength`); that a Key Inventory is
in ascending order and no longer than the table is a fact about the ranks of a finite
set (`BelowGrows`, `RankedExists`, `PresentAscends`).
The scenarios of run `sdls` satisfy `NoWrap` and `BothWays`.

**`InputProofs`** (assumptions `RouterAssumption`, `UdpAssumption`, `InputAssumption`: types
of the constants).
`RouterInv` adds to `OneEntryEach` that active entries hold valid APIDs.
`RouterRefinesRoutes` proves that each operation has the effect and the result of
`ApidRoutes`. The interesting part is -ENOSPC: by `OneEntryEach` the active entries are in
bijection with the registered APIDs, so "no free entry" is "as many APIDs as entries"
(`RoomIsFree`). `InputRefinesRoutes` lifts this to the composition: only registrations and
`DispatchUnit` change the router, and each is a step of it.
`UdpOneReceiver` and `UdpSocketsOwned` follow from `UdpInv`: types, `LoopInv` (a thread is
in the loop only if it is that of the last start and `thread_started` is set), `CallInv`
(what the flags and sockets are at each step of start), `ClosingInv` (the sockets stop
has taken out of the instance are distinct, open and nobody else's), `SocketsOwned` and
`UnitInv` (what a callback is given is a unit). Each is needed for the others: that
the thread's exit closes its own socket and no other is `SocketsOwned` before the step.
`UdpCountsOwnUnits` needs nothing but that `LoopInv` makes the thread that counts the
one of the last start.

Only model-checked: liveness, which is out of the prover's reach with ENABLED and fairness
(`AllAccepted`, `AllSent`, `CyclesUnlessCutOff`, `RecoveryReleased`, `LossesRecovered`,
`StopReleases`, and the part of `FileDelivery` that says a put request is answered); and
what the four runs marked V refute.

## 5. Not modelled

* Byte-level codecs, checksums and channel coding: pure functions, covered by unit
  tests; the models have their rejections as outcomes.
* CFDP service and packet adapter: bindings, and a conversion with a sequence counter
  (which is advanced before the send, so that a failed send leaves a gap).
* A CFDP transport that delivers inside `send_pdu`; reconfiguration of the profile and of
  TM routes while running; two threads that call `ccsds_udp_start` at once; router calls
  that race with each other (the router has no lock; the application must serialise
  registration and dispatch, and each call is one step here).
* Reset: SDLS state is not persistent, and doc/design/sdls/wire-profile.md:98 says nonces
  are not unique across one.

## 6. Findings and observations

Four runs show the code in disagreement with what its interface, its documents or its
tests say:

* `cfdp_late_data`: File Data that arrives while Finished awaits its ACK is written
  through a NULL handle.
* `tm_blocked`: `ccsds_tm_frame_add` waits for room with the lock the generator needs to
  make room; the generator stops, for the other VCs too.
* `tm_restart`: `ccsds_tm_frame_stop` does not wait for the handler of the work item it
  cancels. A start that comes before the handler returns finds the item
  K_WORK_CANCELING: its k_work_schedule does nothing, nor does the handler's own, and
  `generator_running` is set with nothing left to run. include/ccsds/ccsds_tm_frame.h:141
  says that start schedules the generator immediately. `CyclesUnlessCutOff` says that
  nothing but this and `tm_blocked` ends the cycles; the next stop and start revive it.
* `tc_provenance`: the dispatch exit taken when `authenticated_rx_fn` fails does not clear
  the provenance (doc/design/sdls/monitoring-control.md:114-117 says every exit does); a
  frame on the clear MAP that follows is handed over with it. `ProvenanceOwnOrRefused`
  says that nothing else is ever shown.

Ten more were met while modelling. Properties of passing runs state what holds
beside them:

1. `CONFIG_CCSDS_CFDP_MAX_NAK_RANGES` is documented as a bound on missing ranges
   (doc/reference/configuration.md:34) and used as the capacity of the array of received
   ones (`ccsds_cfdp_ranges.c:53`). With a full array the first retransmitted segment of
   a requested gap is refused if it touches no range; `WholeGapAccepted` says a gap that
   arrives in one piece never is.
2. `receiver_handle_ack` releases the slot of any active transaction whose number an
   ACK(Finished) carries. After a duplicated Metadata it leaves the temporary file open,
   neither committed nor discarded, and reports COMPLETE. `NothingRepeated` in
   `CfdpTransfer` marks the three properties this touches.
3. Whatever the segment walk refuses (`ccsds_tc_segment.c:86`, `:100`, `:118`) has been
   acknowledged: V(R) advances first, and the ground does not send it again. `Fits` in
   `AcceptedIsDelivered` names the packets lost in this way.
4. An addition that times out half way leaves the first bytes of its packet in the queue,
   and a frame given up loses what was read for it. `clean` in `TmFrame` marks the VCs
   where neither has happened.
5. `ccsds_tm_frame_start` and `_stop` change the flag and the schedule in two steps. With
   two controlling threads a stop can cancel what a later start has scheduled; the runs
   have one.
6. `ccsds_sdls_ep_process_key_verification` reads `tx_iv` (line 1319) and the keys'
   `tx_arsn` on the receive thread and writes them back last, without a lock. A frame the
   TM generator protects in between under a key being verified uses the same nonce, and
   the IV is set back behind it. `NonceUnique` holds unless that happened (`raced`).
7. doc/design/sdls/sa-management.md:76 says that "the packet-service transaction API
   rejects a management command that would mutate the same SA protecting its carrying
   frame". The procedures themselves check the carrying SA only for Start of a clear SA;
   Stop, Set ARSN and Set ARSN Window of the carrying SA are accepted.
8. Rekey may give an SA the key it had and any ARSN: replay protection is between two
   Rekeys, as `AntiReplay` states it.
9. `ccsds_sdls_init` asserts neither that every key refers to an object of its own nor
   that SAs operational from the start are separated; `ScenarioAssumption` does.
10. `ccsds_udp_stop` does not wait for the receive thread: its callback may run after stop
   has returned, and `thread_started` is cleared (line 94) before the thread has ended, so
   that a quick start reuses its stack. `ccsds_udp_send` called between stop and the
   thread's next recv can be given the number of the closed socket; the thread then waits
   on the transmit socket and start is refused until that is closed (`Stranded` in
   `StopReleases`). Two threads that start at once are kept apart only by the bind.

## 7. Plan

Done: the modules above. Next, in this order:

1. TM routes and masks, with the assignment of SDLS to VCs, which joins `TmFrame` and
   `Sdls`; the CFDP service and packet adapter over `UdpInput`; CFDP with a re-entrant
   transport.

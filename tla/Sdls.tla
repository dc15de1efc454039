--------------------------------- MODULE Sdls ---------------------------------
(***************************************************************************)
(* Frame security, src/ccsds_sdls.c: a table of predefined security            *)
(* associations (SAs), a table of keys that refer to objects of the PSA key     *)
(* store, the anti-replay check of received frames, the allocation of nonces    *)
(* for sent ones, the Frame Security Report and the ring of security events.    *)
(* Module SdlsEp adds the extended procedures that manage this state.           *)
(*                                                                         *)
(* Cryptography is abstract: a key object is a number, and a received frame     *)
(* names the object it was protected with.  It authenticates under that object  *)
(* and no other; object 0 stands for a forged or damaged frame.                *)
(***************************************************************************)
EXTENDS Integers, Sequences, FiniteSets, Bags

CONSTANTS MaxSa,               \* CONFIG_CCSDS_SDLS_MAX_SA
          MaxKeys,             \* CONFIG_CCSDS_SDLS_MAX_KEYS
          SessionKeyBase,      \* CONFIG_CCSDS_SDLS_SESSION_KEY_BASE
          ArsnWindow,          \* CONFIG_CCSDS_SDLS_ARSN_WINDOW
          ArsnModulus,         \* 2^32 in the code
          IvModulus,           \* 2^64
          IvStride,            \* CCSDS_SDLS_IV_STRIDE
          LogCapacity,         \* CONFIG_CCSDS_SDLS_EVENT_LOG_CAPACITY
          OverwriteMax,        \* UINT8_MAX
          SaRole, SaMode,      \* sa_roles and sa_modes, fixed by ccsds_sdls_init
          Scenarios            \* the tables a behaviour starts from, what may
                               \* arrive and be sent, and the model's bounds

\* The BUILD_ASSERTs of ccsds_sdls.h, and what ccsds_sdls_init asserts of roles
\* and modes.  An SPI whose role is NONE is not configured.
ASSUME SdlsAssumption ==
    /\ MaxSa \in Nat \ {0} /\ MaxKeys \in Nat /\ SessionKeyBase \in 1 .. MaxKeys - 1
    /\ ArsnWindow \in Nat \ {0} /\ ArsnModulus \in Nat \ {0} /\ LogCapacity \in Nat \ {0}
    /\ IvModulus \in Nat \ {0} /\ IvStride \in Nat /\ OverwriteMax \in Nat \ {0}
    /\ SaRole \in [1 .. MaxSa -> {"NONE", "EP_COMMAND_RX", "OPERATIONAL_TC_RX",
                                  "EP_REPLY_TX", "OPERATIONAL_TM_TX"}]
    /\ SaMode \in [1 .. MaxSa -> {"GMAC", "GCM", "CLEAR"}]
    /\ \A s \in 1 .. MaxSa : SaMode[s] = "CLEAR" =>
          SaRole[s] \in {"NONE", "OPERATIONAL_TC_RX", "OPERATIONAL_TM_TX"}

VARIABLES sas,                 \* ctx->sas
          keys,                \* ctx->keys
          txIv,                \* ctx->tx_iv
          fsr,                 \* ctx->fsr
          log,                 \* ctx->events and its indices
          auth,                \* ctx->authenticated_rx_*
          objects,             \* the PSA key store: live objects
          nextObject,          \* the object the next import creates
          verify,              \* the receive thread's frame of process_key_verification
          reply,               \* the reply PDU of the procedure that ran last
          scenario, steps, faults    \* the scenario and what is left of its bounds

VARIABLES emitted,             \* history: bag of nonces that left, with their objects
          raced,               \* history: a frame was sent under a key while it
                               \* was being verified
          accepted,            \* history: ARSNs accepted by each SA since its last Rekey
          carriers,            \* history: SPI and ARSN of every frame accepted
          retired,             \* history: objects deactivated or replaced
          stuck,               \* history: objects whose destruction failed
          history,             \* history: last LogCapacity events since Erase Log
          erased               \* history: the log was erased since the last alarm

Spis == 1 .. MaxSa
KeySlots == 0 .. MaxKeys - 1
KeyNone == MaxKeys             \* CCSDS_SDLS_KEY_SLOT_NONE: not a slot
NullKey == 0                   \* PSA_KEY_ID_NULL; also the object of a forged frame
Arsns == 0 .. ArsnModulus - 1

\* struct ccsds_sdls_sa and struct ccsds_sdls_key
Sa == [state: {"STOPPED", "OPERATIONAL", "EXPIRED"}, key: 0 .. MaxKeys, rxArsn: Arsns,
       rxInit: BOOLEAN, window: Nat, last: STRING]
Key == [psa: Nat, state: {"PREACTIVE", "ACTIVE", "DEACTIVATED"}, txArsn: Arsns]

\* struct ccsds_sdls_event.  The code of a failed key check is KEY.
Event == [tag: STRING, code: STRING, spi: Nat, arsn: Nat]
NoEvent == [tag |-> "", code |-> "", spi |-> 0, arsn |-> 0]

NoAuth == [valid |-> FALSE, spi |-> 0, arsn |-> 0, dispatching |-> FALSE]
NoReply == [proc |-> "NONE"]
NoVerify == [proc |-> "NONE"]

EmptyLog == [events |-> [i \in 0 .. LogCapacity - 1 |-> NoEvent], read |-> 0,
             write |-> 0, count |-> 0, overwrites |-> 0]

keyVars == << keys, txIv, objects, nextObject, emitted, raced, retired, stuck >>
saVars == << sas, accepted, carriers >>
logVars == << log, history, erased >>
boundVars == << scenario, steps, faults >>

\* ccsds_sdls_init: the tables come from the application, the rest is cleared.
\* Every key refers to an object of its own.
InitFrom(s) ==
    /\ scenario = s /\ steps = s.steps /\ faults = s.faults
    /\ sas = s.sas /\ keys = s.keys /\ objects = s.objects /\ nextObject = s.nextObject
    /\ txIv = s.seed
    /\ fsr = [alarm |-> FALSE, badSequence |-> FALSE, badMac |-> FALSE, badSa |-> FALSE,
              spi |-> 0, arsn |-> 0]
    /\ log = EmptyLog /\ auth = NoAuth /\ verify = NoVerify /\ reply = NoReply
    /\ emitted = EmptyBag /\ raced = FALSE /\ accepted = [i \in Spis |-> << >>]
    /\ carriers = {} /\ history = << >> /\ erased = FALSE /\ stuck = {}
    /\ retired = {s.keys[k].psa : k \in {j \in KeySlots : s.keys[j].state = "DEACTIVATED"}}

Tick == steps > 0 /\ steps' = steps - 1 /\ UNCHANGED scenario

\* A step in which a PSA call fails uses up one of the scenario's faults.
MayFail(failing) ==
    /\ failing => faults > 0
    /\ faults' = IF failing THEN faults - 1 ELSE faults

-------------------------------------------------------------------------------
(* Lookups and the PSA key store *)

\* ccsds_sdls_sa_lookup
Configured(s) == s \in Spis /\ SaRole[s] # "NONE"

RxRole(s) == SaRole[s] \in {"EP_COMMAND_RX", "OPERATIONAL_TC_RX"}
TxRole(s) == SaRole[s] \in {"EP_REPLY_TX", "OPERATIONAL_TM_TX"}

\* ccsds_sdls_key_lookup
KeyPresent(k) == k \in KeySlots /\ keys[k].psa # NullKey

\* A PSA operation is refused for an object that is gone or lacks the usage.
PsaAllows(p, usage) == p \in DOMAIN objects /\ usage \in objects[p].usage

\* operational_key.  Of the expected role only the direction matters.
OperationalKey(s, transmitting) ==
    IF TxRole(s) # transmitting \/ sas[s].state # "OPERATIONAL" THEN "SA_STATE"
    ELSE IF sas[s].key = 0 \/ ~KeyPresent(sas[s].key) THEN "KEY"
    ELSE IF keys[sas[s].key].state # "ACTIVE" THEN "KEY"
    ELSE "OK"

-------------------------------------------------------------------------------
(* The event ring *)

\* Mutant: the oldest index stays behind when the ring is full.
EventRecordReadKept(l, e) ==
    [l EXCEPT !.events[l.write] = e, !.write = (l.write + 1) % LogCapacity,
              !.count = IF l.count < LogCapacity THEN l.count + 1 ELSE l.count]

\* ccsds_sdls_event_record
EventRecord(l, e) ==
    LET full == l.count = LogCapacity
    IN  [l EXCEPT !.events[l.write] = e,
                  !.write = (l.write + 1) % LogCapacity,
                  !.count = IF full THEN l.count ELSE l.count + 1,
                  !.read = IF full THEN (l.read + 1) % LogCapacity ELSE l.read,
                  !.overwrites = IF full /\ l.overwrites # OverwriteMax
                                   THEN l.overwrites + 1 ELSE l.overwrites]

Newest(h) == IF Len(h) <= LogCapacity THEN h ELSE Tail(h)

RecordEvent(e) ==
    /\ log' = EventRecord(log, e)
    /\ history' = Newest(Append(history, e))

\* The loop of ccsds_sdls_ep_dump_log_reply_encode over the ring
Dump(l) == [i \in 1 .. l.count |-> l.events[(l.read + i - 1) % LogCapacity]]

-------------------------------------------------------------------------------
(* Received frames: [spi, arsn, psa], spi 0 if the frame is too short or its    *)
(* SPI is reserved, so that security_header_decode refuses it                  *)

\* The anti-replay check, with the event code it reports
ReplayError(s, arsn) ==
    IF ~sas[s].rxInit THEN "OK"
    ELSE IF arsn <= sas[s].rxArsn THEN "STALE_ARSN"
    ELSE IF arsn - sas[s].rxArsn > sas[s].window THEN "ARSN_GAP"
    ELSE "OK"

\* The result of ccsds_sdls_process_security, with STALE_ARSN and ARSN_GAP for
\* CCSDS_SDLS_ERR_REPLAY.  Checks come in the order of the code: nothing is
\* decrypted before the anti-replay check.
FrameError(f, fault) ==
    IF f.spi = 0 THEN "FORMAT"
    ELSE IF ~Configured(f.spi) THEN "UNKNOWN_SA"
    ELSE IF OperationalKey(f.spi, FALSE) # "OK" THEN OperationalKey(f.spi, FALSE)
    ELSE IF ReplayError(f.spi, f.arsn) # "OK" THEN ReplayError(f.spi, f.arsn)
    ELSE IF fault \/ ~PsaAllows(keys[sas[f.spi].key].psa, "DECRYPT") THEN "PSA"
    ELSE IF f.psa # keys[sas[f.spi].key].psa THEN "AUTHENTICATION"
    ELSE "OK"

\* Mutant: the indication is set before the frame is authenticated.
AuthAfterRefusalEarly(f) ==
    [valid |-> TRUE, spi |-> f.spi, arsn |-> f.arsn, dispatching |-> FALSE]

\* process_security clears the indication before it looks at the frame.
AuthAfterRefusal(f) == NoAuth

FailureEvent(f, err) ==
    RecordEvent([tag |-> "FRAME", code |-> err, spi |-> f.spi, arsn |-> f.arsn])

\* fsr_process_failure: a PSA failure is not monitored, and a malformed frame is
\* logged without an alarm.
RefuseFrame(f, err) ==
    /\ UNCHANGED saVars
    /\ auth' = AuthAfterRefusal(f)
    /\ \/ err = "PSA" /\ UNCHANGED << fsr, logVars >>
       \/ err = "FORMAT" /\ RecordEvent([NoEvent EXCEPT !.tag = "FRAME", !.code = err])
            /\ UNCHANGED << fsr, erased >>
       \/ /\ err \notin {"PSA", "FORMAT"}
          /\ FailureEvent(f, err)
          /\ fsr' = [fsr EXCEPT
                       !.alarm = TRUE, !.spi = f.spi,
                       !.badSequence = @ \/ err \in {"STALE_ARSN", "ARSN_GAP"},
                       !.badMac = @ \/ err = "AUTHENTICATION",
                       !.badSa = @ \/ err \in {"UNKNOWN_SA", "SA_STATE", "KEY"}]
          /\ erased' = FALSE

\* The end of process_security, with fsr_process_success
AcceptFrame(f) ==
    /\ sas' = [sas EXCEPT ![f.spi].rxArsn = f.arsn, ![f.spi].rxInit = TRUE]
    /\ auth' = [valid |-> TRUE, spi |-> f.spi, arsn |-> f.arsn, dispatching |-> FALSE]
    /\ fsr' = [fsr EXCEPT !.badSequence = FALSE, !.badMac = FALSE, !.badSa = FALSE,
                          !.spi = f.spi, !.arsn = f.arsn % 256]
    /\ accepted' = [accepted EXCEPT ![f.spi] = Append(@, f.arsn)]
    /\ carriers' = carriers \cup {<< f.spi, f.arsn >>}
    /\ UNCHANGED logVars

\* ccsds_sdls_process_security, on the receive thread
ProcessSecurity(f, fault) ==
    /\ Tick /\ verify = NoVerify /\ ~auth.dispatching
    /\ \E err \in {FrameError(f, fault)} :
          /\ fault => err = "PSA"
          /\ IF err = "OK" THEN AcceptFrame(f) ELSE RefuseFrame(f, err)
    /\ MayFail(fault)
    /\ reply' = NoReply
    /\ UNCHANGED << keyVars, verify >>

-------------------------------------------------------------------------------
(* The dispatch in the TC profile, as far as SDLS takes part *)

\* The frame passed the FARM and its packets are handed over.
BeginDispatch ==
    /\ Tick /\ verify = NoVerify /\ auth.valid /\ ~auth.dispatching
    /\ auth' = [auth EXCEPT !.dispatching = TRUE]
    /\ reply' = NoReply
    /\ UNCHANGED << saVars, keyVars, logVars, fsr, verify, faults >>

\* The dispatch ends, or the FARM or the segment decoder refused the frame.
Withdraw ==
    /\ Tick /\ verify = NoVerify /\ auth.valid
    /\ auth' = NoAuth
    /\ reply' = NoReply
    /\ UNCHANGED << saVars, keyVars, logVars, fsr, verify, faults >>

-------------------------------------------------------------------------------
(* Sent frames *)

Nonce(k, iv) == [psa |-> keys[k].psa, iv |-> iv, arsn |-> keys[k].txArsn]

\* ctx->tx_iv += CCSDS_SDLS_IV_STRIDE
AdvanceIv(iv) == (iv + IvStride) % IvModulus

\* Mutant: the counters are copied, not advanced.
AllocateCopy(k, fault) == UNCHANGED << keys, txIv >>

\* Both parts of the nonce are consumed before the encryption is tried.
Allocate(k, fault) ==
    /\ keys' = [keys EXCEPT ![k].txArsn = (@ + 1) % ArsnModulus]
    /\ txIv' = AdvanceIv(txIv)

\* ccsds_sdls_apply_security, called by the TM generator on the system work
\* queue: it may run between two steps of the receive thread.  When it fails
\* before the allocation it changes nothing.
ApplySecurity(s, fault) ==
    /\ Tick /\ Configured(s) /\ OperationalKey(s, TRUE) = "OK"
    /\ Allocate(sas[s].key, fault)
    /\ emitted' = IF fault \/ ~PsaAllows(keys[sas[s].key].psa, "ENCRYPT") THEN emitted
                  ELSE emitted (+) SetToBag({Nonce(sas[s].key, txIv)})
    /\ raced' = (raced \/ (verify # NoVerify
                             /\ \E i \in DOMAIN verify.ids : verify.ids[i] = sas[s].key))
    /\ MayFail(fault)
    /\ UNCHANGED << saVars, logVars, fsr, auth, objects, nextObject, retired, stuck,
                    verify, reply >>

===============================================================================

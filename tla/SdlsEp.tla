-------------------------------- MODULE SdlsEp --------------------------------
(***************************************************************************)
(* The extended procedures of src/ccsds_sdls_ep.c: key management, management   *)
(* of the predefined SAs, and security monitoring.  One action per procedure,   *)
(* from the PDU's header to the event that a failure leaves in the log.         *)
(*                                                                         *)
(* A PDU is a record of its header (type, proc, user; declared is the bit       *)
(* length it gives, octets the length it has) and of the fields of its body:    *)
(*   spi    the SA it manages                                                *)
(*   ids    the keys it lists; first and last one of a Key Inventory            *)
(*   key    the new key of Rekey SA, the master key of OTAR                     *)
(*   value  the ARSN or the window it sets                                     *)
(*   good   the key blocks of an OTAR authenticate under the master key         *)
(* What a decoder makes of a body depends on its length only; the lengths are   *)
(* those of the code, so a decoder's division and limits are the code's.        *)
(***************************************************************************)
EXTENDS Sdls

vars == << saVars, keyVars, logVars, boundVars, fsr, auth, verify, reply >>

KeyProcs == {"OTAR", "KEY_ACTIVATION", "KEY_DEACTIVATION", "KEY_VERIFICATION",
             "KEY_INVENTORY"}
SaProcs == {"START_SA", "STOP_SA", "EXPIRE_SA", "REKEY_SA", "SET_ARSN",
            "SET_ARSN_WINDOW", "READ_ARSN", "SA_STATUS"}
MonitoringProcs == {"PING", "LOG_STATUS", "DUMP_LOG", "ERASE_LOG", "SELF_TEST",
                    "ALARM_FLAG_RESET"}
RepliedProcs == {"KEY_VERIFICATION", "KEY_INVENTORY", "READ_ARSN", "SA_STATUS"}
                  \cup (MonitoringProcs \ {"ALARM_FLAG_RESET"})

Max(a, b) == IF a >= b THEN a ELSE b
First(errs) ==                 \* the first failure of a loop that stops at it
    IF \A i \in DOMAIN errs : errs[i] = "OK" THEN "OK"
    ELSE errs[CHOOSE i \in DOMAIN errs :
                 errs[i] # "OK" /\ \A j \in DOMAIN errs : j < i => errs[j] = "OK"]

-------------------------------------------------------------------------------
(* Wire forms *)

HeaderLen == 3
IvLen == 12
TagLen == 16
ChallengeLen == 16
EventLen == 10

\* Fixed octets of a body, octets of one entry, and how many entries there may be
Layout(proc) ==
    CASE proc = "OTAR" -> [fixed |-> 2 + IvLen + TagLen, entry |-> 34, min |-> 1,
                           max |-> MaxKeys - SessionKeyBase]
      [] proc \in {"KEY_ACTIVATION", "KEY_DEACTIVATION"} ->
           [fixed |-> 0, entry |-> 2, min |-> 1, max |-> MaxKeys]
      [] proc = "KEY_VERIFICATION" ->
           [fixed |-> 0, entry |-> 2 + ChallengeLen, min |-> 1, max |-> MaxKeys]
      [] proc = "START_SA" -> [fixed |-> 2, entry |-> 4, min |-> 0, max |-> MaxSa]
      [] proc = "REKEY_SA" -> [fixed |-> 4, entry |-> 4, min |-> 0, max |-> 1]
      [] proc = "KEY_INVENTORY" -> [fixed |-> 4, entry |-> 0, min |-> 0, max |-> 0]
      [] proc \in {"SET_ARSN", "SET_ARSN_WINDOW"} ->
           [fixed |-> 6, entry |-> 0, min |-> 0, max |-> 0]
      [] proc \in {"STOP_SA", "EXPIRE_SA", "READ_ARSN", "SA_STATUS"} ->
           [fixed |-> 2, entry |-> 0, min |-> 0, max |-> 0]
      [] OTHER -> [fixed |-> 0, entry |-> 0, min |-> 0, max |-> 0]

\* The same for the replies.  The count of a Key Inventory is one of its fields.
ReplyLayout(proc) ==
    CASE proc = "KEY_VERIFICATION" ->
           [fixed |-> 0, entry |-> 2 + IvLen + ChallengeLen + TagLen, min |-> 1,
            max |-> MaxKeys]
      [] proc = "KEY_INVENTORY" -> [fixed |-> 2, entry |-> 3, min |-> 0, max |-> MaxKeys]
      [] proc = "DUMP_LOG" ->
           [fixed |-> 0, entry |-> EventLen, min |-> 0, max |-> LogCapacity]
      [] proc = "READ_ARSN" -> [fixed |-> 6, entry |-> 0, min |-> 0, max |-> 0]
      [] proc = "SA_STATUS" -> [fixed |-> 3, entry |-> 0, min |-> 0, max |-> 0]
      [] proc \in {"LOG_STATUS", "ERASE_LOG"} ->
           [fixed |-> 4, entry |-> 0, min |-> 0, max |-> 0]
      [] proc = "SELF_TEST" -> [fixed |-> 1, entry |-> 0, min |-> 0, max |-> 0]
      [] OTHER -> [fixed |-> 0, entry |-> 0, min |-> 0, max |-> 0]

\* What the encoders write for n entries
BodyLen(layout, n) == layout.fixed + n * layout.entry

\* What the decoders say of a body of len octets.  Rekey SA knows two lengths and
\* no capacity.
BodyError(proc, layout, len) ==
    IF len < BodyLen(layout, layout.min) THEN "FORMAT"
    ELSE IF layout.entry = 0 THEN IF len = layout.fixed THEN "OK" ELSE "FORMAT"
    ELSE IF (len - layout.fixed) % layout.entry # 0 THEN "FORMAT"
    ELSE IF (len - layout.fixed) \div layout.entry <= layout.max THEN "OK"
    ELSE IF proc = "REKEY_SA" THEN "FORMAT"
    ELSE "CAPACITY"

\* CCSDS_SDLS_EP_REPLY_PDU_MAX or CCSDS_SDLS_EP_OTAR_PDU_MAX, whichever is larger
PduMax ==
    HeaderLen + Max(BodyLen(Layout("OTAR"), Layout("OTAR").max),
                    Max(BodyLen(ReplyLayout("KEY_VERIFICATION"), MaxKeys),
                        Max(BodyLen(ReplyLayout("KEY_INVENTORY"), MaxKeys),
                            BodyLen(ReplyLayout("DUMP_LOG"), LogCapacity))))

\* procedure_supported
Supported(type, proc) ==
    /\ proc \in KeyProcs \cup SaProcs \cup MonitoringProcs
    /\ type = "COMMAND" \/ proc \in RepliedProcs

\* ccsds_sdls_ep_pdu_decode
HeaderError(c) ==
    IF c.octets < HeaderLen THEN "FORMAT"
    ELSE IF c.user \/ ~Supported(c.type, c.proc) THEN "UNSUPPORTED"
    ELSE IF c.declared % 8 # 0 \/ c.octets # HeaderLen + c.declared \div 8 THEN "FORMAT"
    ELSE IF c.octets > PduMax THEN "CAPACITY"
    ELSE "OK"

\* The decoders of the commands, after the header
DecodeError(c) ==
    IF c.type # "COMMAND" THEN "UNSUPPORTED"
    ELSE BodyError(c.proc, Layout(c.proc), c.declared \div 8)

-------------------------------------------------------------------------------
(* The end of ccsds_sdls_ep_process_pdu *)

\* ep_event_code and event_code_from_error
EpEventCode(c, err) ==
    IF HeaderError(c) # "OK" THEN err
    ELSE IF c.proc = "OTAR" /\ err = "AUTHENTICATION" THEN "OTAR_AUTHENTICATION"
    ELSE IF c.proc \in {"KEY_ACTIVATION", "KEY_DEACTIVATION"} THEN "KEY_TRANSITION"
    ELSE IF c.proc \in SaProcs THEN "SA_TRANSITION"
    ELSE IF c.proc = "SELF_TEST" THEN "SELF_TEST"
    ELSE err

\* An event names the frame that carried the PDU, if there was one.
PduEvent(c, code) ==
    [tag |-> IF auth.valid /\ c.octets # 0 THEN c.proc ELSE "LOCAL", code |-> code,
     spi |-> IF auth.valid THEN auth.spi ELSE 0,
     arsn |-> IF auth.valid THEN auth.arsn ELSE 0]

\* Every failure is logged, except that a valid PDU exceeds a capacity.
LogResult(c, err) ==
    IF err = "OK" \/ (HeaderError(c) = "OK" /\ err = "CAPACITY")
      THEN UNCHANGED << log, history >>
      ELSE RecordEvent(PduEvent(c, EpEventCode(c, err)))

\* Outside a dispatch the indication is good for one PDU.
ConsumeAuth == auth' = IF auth.dispatching THEN auth ELSE NoAuth

\* fault is the number of the PSA call that fails, 0 if none does.
Result(err, fault, answer) ==
    /\ fault # 0 => err = "PSA"
    /\ MayFail(fault # 0)
    /\ reply' = IF err = "OK" THEN answer ELSE NoReply
    /\ ConsumeAuth

EndPdu(c, err, fault, answer) == Result(err, fault, answer) /\ LogResult(c, err)

\* A reply of n entries fits the caller's buffer.
Fits(proc, n, room) == HeaderLen + BodyLen(ReplyLayout(proc), n) <= room

Answer(c, entries) ==
    [proc |-> c.proc, ids |-> c.ids, entries |-> entries,
     len |-> BodyLen(ReplyLayout(c.proc), Len(entries))]

RejectPdu(c) ==
    /\ HeaderError(c) # "OK"
    /\ EndPdu(c, HeaderError(c), 0, NoReply)
    /\ UNCHANGED << saVars, keyVars, fsr, erased, verify >>

-------------------------------------------------------------------------------
(* Key management *)

SessionSlots == SessionKeyBase .. MaxKeys - 1
Listed(ids, i) == \E j \in 1 .. i - 1 : ids[j] = ids[i]        \* seen[key_id]

\* validate_key
ValidateKey(p, usage, failing) ==
    IF failing \/ p \notin DOMAIN objects THEN "PSA"
    ELSE IF usage \subseteq objects[p].usage THEN "OK"
    ELSE "KEY"

OtarEntry(ids, i) ==
    IF ids[i] \notin SessionSlots THEN "KEY"
    ELSE IF Listed(ids, i) THEN "FORMAT"
    ELSE IF KeyPresent(ids[i]) /\ keys[ids[i]].state = "ACTIVE" THEN "KEY_STATE"
    ELSE "OK"

\* ccsds_sdls_ep_process_otar up to the imports.  PSA call 1 reads the
\* attributes of the master key, call 2 decrypts, call 2 + i is import i.
OtarError(c, fault) ==
    IF DecodeError(c) # "OK" THEN DecodeError(c)
    ELSE IF c.key >= SessionKeyBase \/ ~KeyPresent(c.key) THEN "KEY"
    ELSE IF keys[c.key].state # "ACTIVE" THEN "KEY"
    ELSE IF ValidateKey(keys[c.key].psa, {"DECRYPT"}, fault = 1) # "OK"
      THEN ValidateKey(keys[c.key].psa, {"DECRYPT"}, fault = 1)
    ELSE IF fault = 2 THEN "PSA"
    ELSE IF ~c.good THEN "AUTHENTICATION"
    ELSE IF First([i \in DOMAIN c.ids |-> OtarEntry(c.ids, i)]) # "OK"
      THEN First([i \in DOMAIN c.ids |-> OtarEntry(c.ids, i)])
    ELSE IF fault > 2 THEN "PSA"
    ELSE "OK"

Imported(n) == nextObject .. nextObject + n - 1
NewObject == [volatile |-> TRUE, usage |-> {"ENCRYPT", "DECRYPT"}]

\* destroy_replaced_volatile_key and the clean-up after a failed import ignore a
\* failure to destroy: the objects in `kept' stay.
Store(imported, doomed, kept) ==
    /\ objects' = [p \in (DOMAIN objects \cup imported) \ (doomed \ kept) |->
                      IF p \in imported THEN NewObject ELSE objects[p]]
    /\ nextObject' = nextObject + Cardinality(imported)
    /\ stuck' = stuck \cup kept

\* Mutant: objects imported before a failing import stay.
RollbackNothing(n, kept) == Store(Imported(n), {}, kept)

\* Import n + 1 failed.
Rollback(n, kept) == Store(Imported(n), Imported(n), kept)

\* Entry i of the table refers to the object of import i.
Install(ids) ==
    [k \in KeySlots |->
        IF \E i \in DOMAIN ids : ids[i] = k
          THEN [psa |-> nextObject + (CHOOSE i \in DOMAIN ids : ids[i] = k) - 1,
                state |-> "PREACTIVE", txArsn |-> 0]
          ELSE keys[k]]

\* Only volatile objects belong to the module.
Doomed(replaced) == {p \in replaced \cap DOMAIN objects : objects[p].volatile}

\* Destroying an object may fail while the scenario has faults left.
Kept(doomed) == {{}} \cup (IF faults > 0 THEN {{p} : p \in doomed} ELSE {})

ProcessOtar(c, fault) ==
    /\ c.proc = "OTAR"
    /\ \E err \in {OtarError(c, fault)} :
          LET replaced == {keys[c.ids[i]].psa : i \in DOMAIN c.ids} \ {NullKey}
          IN  /\ EndPdu(c, err, fault, NoReply)
              /\ \/ /\ err = "OK"
                    /\ keys' = Install(c.ids)
                    /\ \E kept \in Kept(Doomed(replaced)) :
                          Store(Imported(Len(c.ids)), Doomed(replaced), kept)
                    /\ retired' = retired \cup replaced
                 \/ /\ err = "PSA" /\ fault \in 3 .. 2 + Len(c.ids)
                    /\ \E kept \in Kept(Imported(fault - 3)) : Rollback(fault - 3, kept)
                    /\ UNCHANGED << keys, retired >>
                 \/ /\ err # "OK" /\ fault <= 2
                    /\ UNCHANGED << keys, objects, nextObject, stuck, retired >>
    /\ UNCHANGED << saVars, txIv, emitted, raced, fsr, erased, verify >>

\* Mutant: a deactivated key may be activated again.
MayBecomeAny(proc, state) == proc = "KEY_ACTIVATION" \/ state \in {"ACTIVE", "PREACTIVE"}

MayBecome(proc, state) ==
    IF proc = "KEY_ACTIVATION" THEN state = "PREACTIVE"
    ELSE state \in {"ACTIVE", "PREACTIVE"}

LifecycleEntry(c, i, fault) ==
    IF c.ids[i] \notin SessionSlots \/ Listed(c.ids, i) \/ ~KeyPresent(c.ids[i]) THEN "KEY"
    ELSE IF ~MayBecome(c.proc, keys[c.ids[i]].state) THEN "KEY_STATE"
    ELSE ValidateKey(keys[c.ids[i]].psa, {"ENCRYPT", "DECRYPT"}, fault = i)

\* process_lifecycle: every key is checked before the first one changes.
ProcessLifecycle(c, fault) ==
    /\ c.proc \in {"KEY_ACTIVATION", "KEY_DEACTIVATION"}
    /\ \E err \in {IF DecodeError(c) # "OK" THEN DecodeError(c)
                   ELSE First([i \in DOMAIN c.ids |-> LifecycleEntry(c, i, fault)])} :
          /\ EndPdu(c, err, fault, NoReply)
          /\ IF err # "OK" THEN UNCHANGED << keys, retired >>
             ELSE LET named == {c.ids[i] : i \in DOMAIN c.ids}
                      off == c.proc = "KEY_DEACTIVATION"
                  IN  /\ keys' = [k \in KeySlots |->
                                    IF k \in named
                                      THEN [keys[k] EXCEPT !.state =
                                              IF off THEN "DEACTIVATED" ELSE "ACTIVE"]
                                      ELSE keys[k]]
                      /\ retired' = IF off THEN retired \cup {keys[k].psa : k \in named}
                                    ELSE retired
    /\ UNCHANGED << saVars, txIv, objects, nextObject, stuck, emitted, raced, fsr, erased,
                    verify >>

\* The keys of an inventory, in the order of the loop: entry i has i - 1 before it.
Present(first, last) ==
    LET found == {k \in KeySlots : first <= k /\ k <= last /\ KeyPresent(k)}
    IN  [i \in 1 .. Cardinality(found) |->
            CHOOSE k \in found : Cardinality({j \in found : j < k}) = i - 1]

\* ccsds_sdls_ep_process_key_inventory.  The reply has room for every slot.
ProcessKeyInventory(c, fault, room) ==
    /\ c.proc = "KEY_INVENTORY"
    /\ LET first == c.ids[1]
           last == c.ids[2]
           list == Present(first, last)
       IN  \E err \in {IF ~auth.valid THEN "AUTHENTICATION"
                       ELSE IF DecodeError(c) # "OK" THEN DecodeError(c)
                       ELSE IF first > last \/ last >= MaxKeys THEN "KEY"
                       ELSE IF First([i \in DOMAIN list |->
                                  ValidateKey(keys[list[i]].psa, {"ENCRYPT", "DECRYPT"},
                                              fault = i)]) # "OK"
                         THEN First([i \in DOMAIN list |->
                                  ValidateKey(keys[list[i]].psa, {"ENCRYPT", "DECRYPT"},
                                              fault = i)])
                       ELSE IF ~Fits(c.proc, Len(list), room) THEN "CAPACITY"
                       ELSE "OK"} :
             EndPdu(c, err, fault,
                    Answer(c, [i \in DOMAIN list |->
                                 [key |-> list[i], state |-> keys[list[i]].state]]))
    /\ UNCHANGED << saVars, keyVars, fsr, erased, verify >>

\* Mutant: a key may be listed twice.
VerifyEntryTwice(c, i, fault) ==
    IF c.ids[i] \notin SessionSlots \/ ~KeyPresent(c.ids[i]) THEN "KEY"
    ELSE IF keys[c.ids[i]].state = "DEACTIVATED" THEN "KEY_STATE"
    ELSE ValidateKey(keys[c.ids[i]].psa, {"ENCRYPT"}, fault = i)

VerifyEntry(c, i, fault) ==
    IF c.ids[i] \notin SessionSlots \/ Listed(c.ids, i) \/ ~KeyPresent(c.ids[i]) THEN "KEY"
    ELSE IF keys[c.ids[i]].state = "DEACTIVATED" THEN "KEY_STATE"
    ELSE ValidateKey(keys[c.ids[i]].psa, {"ENCRYPT"}, fault = i)

\* PSA calls 1 .. n read attributes, the next n encrypt.
VerifyError(c, fault) ==
    LET e == First([i \in DOMAIN c.ids |-> VerifyEntry(c, i, fault)])
    IN  IF DecodeError(c) # "OK" THEN DecodeError(c)
        ELSE IF e # "OK" THEN e
        ELSE IF fault > Len(c.ids) THEN "PSA"
        ELSE "OK"

\* ccsds_sdls_ep_process_key_verification up to the encryptions: the nonces are
\* taken from copies of the counters.  A failure leaves the counters alone.
BeginKeyVerification(c, fault) ==
    /\ c.proc = "KEY_VERIFICATION"
    /\ \E err \in {VerifyError(c, fault)} :
          IF err # "OK"
            THEN EndPdu(c, err, fault, NoReply) /\ UNCHANGED verify
            ELSE /\ verify' = [proc |-> c.proc, ids |-> c.ids, iv |-> txIv,
                               nonces |-> [i \in DOMAIN c.ids |->
                                  Nonce(c.ids[i], (txIv + (i - 1) * IvStride) % IvModulus)]]
                 /\ fault = 0
                 /\ UNCHANGED << log, history, auth, reply, faults >>
    /\ UNCHANGED << saVars, keyVars, fsr, erased >>

\* The sender IV as it was read when the verification began, advanced n times
VerifiedIv(n) == (verify.iv + n * IvStride) % IvModulus

\* The rest of it: the reply is written, and the counters are.
EndKeyVerification ==
    /\ Tick /\ verify # NoVerify
    /\ keys' = [k \in KeySlots |->
                  IF \E i \in DOMAIN verify.ids : verify.ids[i] = k
                    THEN [keys[k] EXCEPT !.txArsn = (@ + 1) % ArsnModulus] ELSE keys[k]]
    /\ txIv' = VerifiedIv(Len(verify.ids))
    /\ emitted' = emitted (+) SetToBag({verify.nonces[i] : i \in DOMAIN verify.nonces})
    /\ reply' = Answer(verify, [i \in DOMAIN verify.ids |->
                                  [key |-> verify.ids[i], psa |-> verify.nonces[i].psa,
                                   challenge |-> i]])
    /\ verify' = NoVerify
    /\ ConsumeAuth
    /\ UNCHANGED << saVars, logVars, fsr, objects, nextObject, raced, retired, stuck,
                    faults >>

-------------------------------------------------------------------------------
(* SA management *)

\* Mutant: only running SAs count as users of a key.
SharesKeyRunning(s, i, k) == i # s /\ sas[i].key = k /\ sas[i].state = "OPERATIONAL"

SharesKey(s, i, k) == i # s /\ Configured(i) /\ sas[i].key = k

Compatible(s, i) == TxRole(i) = TxRole(s) /\ SaMode[i] = SaMode[s]

\* validate_sa_key
ValidateSaKey(s, k, sessionOnly, failing) ==
    IF k = 0 \/ (sessionOnly /\ k < SessionKeyBase) \/ ~KeyPresent(k) THEN "KEY"
    ELSE IF keys[k].state # "ACTIVE" THEN "KEY_STATE"
    ELSE IF ValidateKey(keys[k].psa, {IF TxRole(s) THEN "ENCRYPT" ELSE "DECRYPT"}, failing)
              # "OK"
      THEN ValidateKey(keys[k].psa, {IF TxRole(s) THEN "ENCRYPT" ELSE "DECRYPT"}, failing)
    ELSE IF \E i \in Spis : SharesKey(s, i, k) /\ ~Compatible(s, i) THEN "KEY"
    ELSE "OK"

\* The successful end of every procedure that changes an SA
Manage(c, err, new) ==
    sas' = IF err = "OK" THEN [sas EXCEPT ![c.spi] = [new EXCEPT !.last = c.proc]] ELSE sas

StartSaError(c, failing) ==
    IF DecodeError(c) # "OK" THEN DecodeError(c)
    ELSE IF ~Configured(c.spi) THEN "UNKNOWN_SA"
    ELSE IF sas[c.spi].state # "STOPPED" THEN "SA_STATE"
    ELSE IF SaMode[c.spi] = "CLEAR"
      THEN IF ~auth.valid \/ auth.spi = c.spi THEN "AUTHENTICATION" ELSE "OK"
    ELSE ValidateSaKey(c.spi, sas[c.spi].key, FALSE, failing)

\* ccsds_sdls_ep_process_start_sa.  A clear SA is started only by another SA.
ProcessStartSa(c, fault) ==
    /\ c.proc = "START_SA"
    /\ \E err \in {StartSaError(c, fault = 1)} :
          /\ EndPdu(c, err, fault, NoReply)
          /\ Manage(c, err, [sas[c.spi] EXCEPT !.state = "OPERATIONAL"])
    /\ UNCHANGED << keyVars, accepted, carriers, fsr, erased, verify >>

\* process_sa_transition for Stop SA and Expire SA
ProcessSaTransition(c) ==
    /\ c.proc \in {"STOP_SA", "EXPIRE_SA"}
    /\ LET from == IF c.proc = "STOP_SA" THEN "OPERATIONAL" ELSE "STOPPED"
           to == IF c.proc = "STOP_SA" THEN "STOPPED" ELSE "EXPIRED"
       IN  \E err \in {IF DecodeError(c) # "OK" THEN DecodeError(c)
                       ELSE IF ~Configured(c.spi) THEN "UNKNOWN_SA"
                       ELSE IF sas[c.spi].state # from THEN "SA_STATE" ELSE "OK"} :
             /\ EndPdu(c, err, 0, NoReply)
             /\ Manage(c, err, [sas[c.spi] EXCEPT !.state = to])
    /\ UNCHANGED << keyVars, accepted, carriers, fsr, erased, verify >>

RekeyError(c, failing) ==
    IF DecodeError(c) # "OK" THEN DecodeError(c)
    ELSE IF ~Configured(c.spi) THEN "UNKNOWN_SA"
    ELSE IF sas[c.spi].state # "EXPIRED" \/ SaMode[c.spi] = "CLEAR" THEN "SA_STATE"
    ELSE IF RxRole(c.spi) # (c.declared = 64) THEN "FORMAT"
    ELSE ValidateSaKey(c.spi, c.key, TRUE, failing)

\* ccsds_sdls_ep_process_rekey_sa: a receive SA starts a new sequence of ARSNs.
ProcessRekeySa(c, fault) ==
    /\ c.proc = "REKEY_SA"
    /\ \E err \in {RekeyError(c, fault = 1)} :
          /\ EndPdu(c, err, fault, NoReply)
          /\ Manage(c, err, IF RxRole(c.spi)
                              THEN [sas[c.spi] EXCEPT !.state = "STOPPED", !.key = c.key,
                                                      !.rxArsn = c.value, !.rxInit = TRUE]
                              ELSE [sas[c.spi] EXCEPT !.state = "STOPPED", !.key = c.key])
          /\ accepted' = IF err = "OK" THEN [accepted EXCEPT ![c.spi] = << >>] ELSE accepted
    /\ UNCHANGED << keyVars, carriers, fsr, erased, verify >>

\* mutable_rx_sa
MutableRxSa(c) ==
    IF ~Configured(c.spi) THEN "UNKNOWN_SA"
    ELSE IF ~RxRole(c.spi) \/ SaMode[c.spi] = "CLEAR" \/ sas[c.spi].state = "EXPIRED"
      THEN "SA_STATE"
    ELSE "OK"

\* Mutant: Set ARSN may move the receive ARSN back.
SetArsnErrorLower(c) ==
    IF DecodeError(c) # "OK" THEN DecodeError(c) ELSE MutableRxSa(c)

SetArsnError(c) ==
    IF DecodeError(c) # "OK" THEN DecodeError(c)
    ELSE IF MutableRxSa(c) # "OK" THEN MutableRxSa(c)
    ELSE IF sas[c.spi].rxInit /\ c.value < sas[c.spi].rxArsn THEN "REPLAY"
    ELSE "OK"

ProcessSetArsn(c) ==
    /\ c.proc = "SET_ARSN"
    /\ \E err \in {SetArsnError(c)} :
          /\ EndPdu(c, err, 0, NoReply)
          /\ Manage(c, err, [sas[c.spi] EXCEPT !.rxArsn = c.value, !.rxInit = TRUE])
    /\ UNCHANGED << keyVars, accepted, carriers, fsr, erased, verify >>

\* The window is checked before the SA.
ProcessSetArsnWindow(c) ==
    /\ c.proc = "SET_ARSN_WINDOW"
    /\ \E err \in {IF DecodeError(c) # "OK" THEN DecodeError(c)
                   ELSE IF c.value \notin 1 .. ArsnWindow THEN "CAPACITY"
                   ELSE MutableRxSa(c)} :
          /\ EndPdu(c, err, 0, NoReply)
          /\ Manage(c, err, [sas[c.spi] EXCEPT !.window = c.value])
    /\ UNCHANGED << keyVars, accepted, carriers, fsr, erased, verify >>

\* ccsds_sdls_ep_process_read_arsn and ccsds_sdls_ep_process_sa_status
ProcessReadSa(c) ==
    /\ c.proc \in {"READ_ARSN", "SA_STATUS"}
    /\ \E err \in {IF DecodeError(c) # "OK" THEN DecodeError(c)
                   ELSE IF c.proc = "READ_ARSN" THEN MutableRxSa(c)
                   ELSE IF ~Configured(c.spi) THEN "UNKNOWN_SA" ELSE "OK"} :
          EndPdu(c, err, 0,
                 IF err # "OK" THEN NoReply
                 ELSE IF c.proc = "READ_ARSN"
                   THEN Answer(c, << [spi |-> c.spi, arsn |-> sas[c.spi].rxArsn] >>)
                 ELSE Answer(c, << [spi |-> c.spi, last |-> sas[c.spi].last] >>))
    /\ UNCHANGED << saVars, keyVars, fsr, erased, verify >>

-------------------------------------------------------------------------------
(* Security monitoring *)

\* process_monitoring up to the procedure, with the room its reply of n entries needs
MonitoringError(c, n, room) ==
    IF DecodeError(c) # "OK" THEN DecodeError(c)
    ELSE IF ~Fits(c.proc, n, room) THEN "CAPACITY"
    ELSE "OK"

ProcessPing(c, room) ==
    /\ c.proc = "PING"
    /\ EndPdu(c, MonitoringError(c, 0, room), 0, Answer(c, << >>))
    /\ UNCHANGED << saVars, keyVars, fsr, erased, verify >>

LogSummary(count) == << [retained |-> count, remaining |-> LogCapacity - count] >>

ProcessLogStatus(c, room) ==
    /\ c.proc = "LOG_STATUS"
    /\ EndPdu(c, MonitoringError(c, 1, room), 0, Answer(c, LogSummary(log.count)))
    /\ UNCHANGED << saVars, keyVars, fsr, erased, verify >>

ProcessDumpLog(c, room) ==
    /\ c.proc = "DUMP_LOG"
    /\ EndPdu(c, MonitoringError(c, log.count, room), 0, Answer(c, Dump(log)))
    /\ UNCHANGED << saVars, keyVars, fsr, erased, verify >>

Erased(l) == EmptyLog

ProcessEraseLog(c, room) ==
    /\ c.proc = "ERASE_LOG"
    /\ \E err \in {MonitoringError(c, 1, room)} :
          IF err # "OK" THEN EndPdu(c, err, 0, NoReply) /\ UNCHANGED erased
          ELSE /\ Result(err, 0, Answer(c, LogSummary(0)))
               /\ log' = Erased(log) /\ history' = << >> /\ erased' = TRUE
    /\ UNCHANGED << saVars, keyVars, fsr, verify >>

\* test is what the self test callback gives: a failing callback, or none, counts as
\* NOT_OK, and a value that is neither OK nor NOT_OK is refused.
ProcessSelfTest(c, room, test) ==
    /\ c.proc = "SELF_TEST"
    /\ \E err \in {IF MonitoringError(c, 1, room) # "OK" THEN MonitoringError(c, 1, room)
                   ELSE IF test = "OTHER" THEN "FORMAT" ELSE "OK"} :
          /\ Result(err, 0, Answer(c, << test >>))
          /\ IF err = "OK" /\ test = "NOT_OK"
               THEN RecordEvent(PduEvent(c, "SELF_TEST"))
               ELSE LogResult(c, err)
    /\ UNCHANGED << saVars, keyVars, fsr, erased, verify >>

\* ccsds_sdls_ep_process_alarm_flag_reset
ProcessAlarmFlagReset(c) ==
    /\ c.proc = "ALARM_FLAG_RESET"
    /\ \E err \in {DecodeError(c)} :
          /\ EndPdu(c, err, 0, NoReply)
          /\ fsr' = IF err # "OK" THEN fsr
                    ELSE [fsr EXCEPT !.alarm = FALSE, !.badSequence = FALSE,
                                     !.badMac = FALSE, !.badSa = FALSE]
    /\ UNCHANGED << saVars, keyVars, erased, verify >>

-------------------------------------------------------------------------------
(* ccsds_sdls_ep_process_pdu, called on the receive thread inside a dispatch or  *)
(* between two, or by the application itself                                   *)

KeyManagement(c, fault) ==
    \/ ProcessOtar(c, fault)
    \/ ProcessLifecycle(c, fault)
    \/ \E room \in scenario.rooms : ProcessKeyInventory(c, fault, room)
    \/ BeginKeyVerification(c, fault)

SaManagement(c, fault) ==
    \/ ProcessStartSa(c, fault)
    \/ ProcessSaTransition(c)
    \/ ProcessRekeySa(c, fault)
    \/ ProcessSetArsn(c)
    \/ ProcessSetArsnWindow(c)
    \/ ProcessReadSa(c)

Monitoring(c) ==
    \/ \E room \in scenario.rooms :
          \/ ProcessPing(c, room)
          \/ ProcessLogStatus(c, room)
          \/ ProcessDumpLog(c, room)
          \/ ProcessEraseLog(c, room)
          \/ \E test \in {"OK", "NOT_OK", "OTHER"} : ProcessSelfTest(c, room, test)
    \/ ProcessAlarmFlagReset(c)

ProcessPdu(c, fault) ==
    /\ Tick /\ verify = NoVerify
    /\ \/ fault = 0 /\ RejectPdu(c)
       \/ HeaderError(c) = "OK" /\ KeyManagement(c, fault)
       \/ HeaderError(c) = "OK" /\ SaManagement(c, fault)
       \/ HeaderError(c) = "OK" /\ fault = 0 /\ Monitoring(c)

\* Of the SAs in a table, every one with the key slot of a running one has its
\* direction and mode.
Separated(table) ==
    \A s, i \in Spis :
        (/\ s # i /\ Configured(i) /\ table[s].state = "OPERATIONAL"
         /\ table[s].key = table[i].key /\ table[s].key \in KeySlots) => Compatible(s, i)

Pdus == [type: STRING, proc: STRING, user: BOOLEAN, declared: Nat, octets: Nat, spi: Nat,
         ids: Seq(Nat), key: Nat, value: Arsns, good: BOOLEAN]

\* The keys a decoder finds in a body it accepts are as many as the body has entries.
EntriesMatch(c) ==
    (/\ c.proc \in {"OTAR", "KEY_ACTIVATION", "KEY_DEACTIVATION", "KEY_VERIFICATION"}
     /\ HeaderError(c) = "OK" /\ DecodeError(c) = "OK")
      => c.declared \div 8 = BodyLen(Layout(c.proc), Len(c.ids))

\* What ccsds_sdls_init asserts of the tables (a slot without a key is PREACTIVE, a
\* clear SA has no key), and what it leaves to the application: the objects of the
\* key table exist, none is in two slots, the store has no other volatile one, and
\* the SAs that run from the start are separated.
ASSUME ScenarioAssumption ==
    \A s \in Scenarios :
        /\ s.sas \in [Spis -> Sa] /\ s.keys \in [KeySlots -> Key] /\ s.nextObject \in Nat
        /\ s.frames \subseteq [spi: 0 .. MaxSa, arsn: Arsns, psa: Nat]
        /\ s.pdus \subseteq Pdus /\ s.sends \subseteq Spis
        /\ \A c \in s.pdus : EntriesMatch(c)
        /\ s.seed \in 0 .. IvModulus - 1 /\ {s.steps, s.faults} \subseteq Nat
        /\ \A i \in Spis : /\ SaMode[i] = "CLEAR" => s.sas[i].key = KeyNone
                           /\ s.sas[i].state = "OPERATIONAL" => Configured(i)
        /\ \A k \in KeySlots : /\ s.keys[k].psa < s.nextObject
                               /\ s.keys[k].psa = NullKey => s.keys[k].state = "PREACTIVE"
                               /\ s.keys[k].psa # NullKey => s.keys[k].psa \in DOMAIN s.objects
        /\ \A p \in DOMAIN s.objects :
              /\ p \in 1 .. s.nextObject - 1
              /\ s.objects[p].volatile => \E k \in KeySlots : s.keys[k].psa = p
        /\ \A j, k \in KeySlots :
              s.keys[j].psa = s.keys[k].psa /\ s.keys[k].psa # NullKey => j = k
        /\ Separated(s.sas)

Init == \E s \in Scenarios : InitFrom(s)

\* The most PSA calls a procedure makes, if one may fail
MaxCalls(c) == IF faults = 0 THEN 0 ELSE 2 * Len(c.ids) + 2

Next ==
    \/ \E f \in scenario.frames, fault \in BOOLEAN : ProcessSecurity(f, fault)
    \/ BeginDispatch
    \/ Withdraw
    \/ \E c \in scenario.pdus : \E fault \in 0 .. MaxCalls(c) : ProcessPdu(c, fault)
    \/ EndKeyVerification
    \/ \E s \in scenario.sends, fault \in BOOLEAN : ApplySecurity(s, fault)

Spec == Init /\ [][Next]_vars

-------------------------------------------------------------------------------
(* Properties *)

\* The variables have their types: the indices of the ring stay within it, no object
\* is newer than the last import, and an indication names a configured SA.
TypeOK ==
    /\ sas \in [Spis -> Sa] /\ keys \in [KeySlots -> Key]
    /\ txIv \in 0 .. IvModulus - 1 /\ nextObject \in Nat /\ steps \in Nat /\ faults \in Nat
    /\ log.count \in 0 .. LogCapacity /\ log.overwrites \in 0 .. OverwriteMax
    /\ {log.read, log.write} \subseteq 0 .. LogCapacity - 1
    /\ \A p \in DOMAIN objects : p \in 1 .. nextObject - 1
    /\ {raced, erased, fsr.alarm, auth.valid, auth.dispatching} \subseteq BOOLEAN
    /\ auth.valid => Configured(auth.spi)

\* No nonce leaves twice with the same key object, whatever fails and whatever is
\* verified, unless a frame is sent under a key between the two halves of that
\* key's verification: the verification does not see the counters move
\* (ccsds_sdls_ep_process_key_verification reads tx_iv and tx_arsn first and
\* writes them back last, without a lock).
NonceUnique == raced \/ \A n \in DOMAIN emitted : emitted[n] = 1

\* What the anti-replay check promises, abstractly: between two Rekeys of an SA the
\* ARSNs it accepts grow.  Set ARSN, Stop, Expire and Start, an OTAR or another
\* window cannot make an accepted frame acceptable again.
Replay == INSTANCE AntiReplay WITH Sas <- Spis, Numbers <- Arsns

NoReplay == Replay!Spec

\* While an SA is running, every other SA with its key slot has its direction and
\* mode: validate_sa_key looks at every configured SA, running or not, both when
\* an SA is started and when it gets a new key.
KeySeparation == Separated(sas)

\* A key object that was deactivated, or replaced by an OTAR, is never active again.
RetiredStaysRetired ==
    \A k \in KeySlots : keys[k].state = "ACTIVE" => keys[k].psa \notin retired

\* The key table refers to live objects only, no two slots share one, and the
\* volatile objects of the store are those of the table: an OTAR that fails
\* half-way leaves none behind, one that succeeds destroys those it replaced.
ObjectsBalanced ==
    LET used == {k \in KeySlots : keys[k].psa # NullKey}
    IN  /\ \A k \in used : keys[k].psa \in DOMAIN objects
        /\ \A j, k \in used : keys[j].psa = keys[k].psa => j = k
        /\ {p \in DOMAIN objects : objects[p].volatile}
             \subseteq {keys[k].psa : k \in used} \cup stuck

\* The ring holds the newest events since it was erased, oldest first, also when it
\* has wrapped (ccsds_sdls_event_record, Erase Log, and what Dump Log reads).
LogIsNewest == Dump(log) = history

\* An alarm has its cause in the log, unless that was overwritten or erased.
AlarmExplained ==
    fsr.alarm => \/ erased \/ log.overwrites > 0
                 \/ \E i \in DOMAIN Dump(log) :
                       Dump(log)[i].tag = "FRAME" /\ Dump(log)[i].code # "FORMAT"

\* The monitoring service is sound: its ring keeps its limits and the newest events,
\* and explains the alarm.
MonitoringInv == TypeOK /\ LogIsNewest /\ AlarmExplained

\* An event that names a carrying frame names one that was accepted: a PDU is never
\* attributed to a frame that failed.
EventsAttributed ==
    /\ auth.valid => << auth.spi, auth.arsn >> \in carriers
    /\ \A i \in DOMAIN history : history[i].tag \notin {"FRAME", "LOCAL"} =>
          << history[i].spi, history[i].arsn >> \in carriers

\* The decoders of replies, and ccsds_sdls_ep_check_key_verification on the side
\* that holds the same keys
ReplyError(r) ==
    LET e == r.entries
    IN  IF BodyError(r.proc, ReplyLayout(r.proc), r.len) # "OK"
          THEN BodyError(r.proc, ReplyLayout(r.proc), r.len)
        ELSE IF r.proc = "KEY_INVENTORY"
          THEN IF \A i \in 2 .. Len(e) : e[i - 1].key < e[i].key THEN "OK" ELSE "FORMAT"
        ELSE IF r.proc = "SELF_TEST"
          THEN IF e[1] \in {"OK", "NOT_OK"} THEN "OK" ELSE "FORMAT"
        ELSE IF r.proc # "KEY_VERIFICATION" THEN "OK"
        ELSE IF Len(e) # Len(r.ids) THEN "FORMAT"
        ELSE First([i \in DOMAIN e |->
                 IF e[i].key # r.ids[i] \/ e[i].key \notin SessionSlots
                      \/ Listed(r.ids, i) \/ ~KeyPresent(e[i].key) THEN "KEY"
                 ELSE IF ValidateKey(keys[e[i].key].psa, {"DECRYPT"}, FALSE) # "OK"
                   THEN ValidateKey(keys[e[i].key].psa, {"DECRYPT"}, FALSE)
                 ELSE IF e[i].psa # keys[e[i].key].psa \/ e[i].challenge # i
                   THEN "AUTHENTICATION"
                 ELSE "OK"])

\* Every reply is accepted by its decoder, and the reply to a Key Verification by
\* the check a peer with the same keys makes.
RepliesAccepted == reply # NoReply => ReplyError(reply) = "OK"

===============================================================================

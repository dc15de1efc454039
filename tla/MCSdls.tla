-------------------------------- MODULE MCSdls --------------------------------
(***************************************************************************)
(* Model-checking instance of SdlsEp.  Key slots 0 and 1 are master slots, 2    *)
(* and 3 hold session keys and 4 is empty.  SPI 1 carries commands, 2 receives  *)
(* and 3 sends traffic in the same mode, 4 is a clear receive SA, 5 a receive   *)
(* SA without a key, and 6 is not configured.                                 *)
(***************************************************************************)
EXTENDS SdlsEp, TLC

MCSaRole == << "EP_COMMAND_RX", "OPERATIONAL_TC_RX", "OPERATIONAL_TM_TX",
               "OPERATIONAL_TC_RX", "OPERATIONAL_TC_RX", "NONE" >>
MCSaMode == << "GMAC", "GCM", "GCM", "CLEAR", "GCM", "GCM" >>

SaOf(state, key) ==
    [state |-> state, key |-> key, rxArsn |-> 0, rxInit |-> FALSE, window |-> ArsnWindow,
     last |-> ""]

KeyOf(psa, state) == [psa |-> psa, state |-> state, txArsn |-> 0]

Tables ==
    [sas |-> << SaOf("OPERATIONAL", 1), SaOf("OPERATIONAL", 2), SaOf("OPERATIONAL", 3),
                SaOf("STOPPED", KeyNone), SaOf("STOPPED", KeyNone),
                SaOf("STOPPED", KeyNone) >>,
     keys |-> [k \in KeySlots |->
                 IF k = 4 THEN KeyOf(NullKey, "PREACTIVE") ELSE KeyOf(k + 1, "ACTIVE")],
     objects |-> [p \in 1 .. 4 |-> [volatile |-> p = 4,
                                    usage |-> {"ENCRYPT", "DECRYPT"}]],
     nextObject |-> 5, seed |-> IvModulus - 1]

\* A PDU as its encoder writes it: n is the number of entries in its body.
Pdu(proc, n, spi, ids, key, value) ==
    LET len == BodyLen(Layout(proc), n)
    IN  [type |-> "COMMAND", proc |-> proc, user |-> FALSE, declared |-> 8 * len,
         octets |-> HeaderLen + len, spi |-> spi, ids |-> ids, key |-> key,
         value |-> value, good |-> TRUE]

SaPdu(proc, spi) == Pdu(proc, 0, spi, << >>, 0, 0)
KeyPdu(proc, ids) == Pdu(proc, Len(ids), 0, ids, 0, 0)
Otar(ids) == Pdu("OTAR", Len(ids), 0, ids, 0, 0)
Inventory(first, last) == Pdu("KEY_INVENTORY", 0, 0, << first, last >>, 0, 0)
Monitor(proc) == Pdu(proc, 0, 0, << >>, 0, 0)

Frame(spi, arsn, psa) == [spi |-> spi, arsn |-> arsn, psa |-> psa]

Scenario(frames, pdus, sends, count, failures) ==
    Tables @@ [frames |-> frames, pdus |-> pdus, sends |-> sends, steps |-> count,
               faults |-> failures, rooms |-> {200}]

\* New, old, too distant and forged frames of an SA while it is managed and its
\* sequence of ARSNs renewed.
Replays ==
    Scenario({Frame(2, 0, 3), Frame(2, 1, 3), Frame(2, 3, 3), Frame(2, 1, NullKey)},
             {SaPdu("STOP_SA", 2), SaPdu("START_SA", 2), SaPdu("EXPIRE_SA", 2),
              Pdu("REKEY_SA", 1, 2, << >>, 2, 0), Pdu("SET_ARSN", 0, 2, << >>, 0, 1),
              Pdu("SET_ARSN_WINDOW", 0, 2, << >>, 0, 1)}, {}, 6, 0)

\* Every SA starts, stops and changes its key.
Associations ==
    Scenario({Frame(1, 1, 2), Frame(2, 1, 3)},
             {SaPdu(p, s) : p \in {"STOP_SA", "START_SA", "EXPIRE_SA"}, s \in 2 .. 3}
               \cup {SaPdu("START_SA", s) : s \in 4 .. 6}
               \cup {SaPdu("EXPIRE_SA", 5), SaPdu("EXPIRE_SA", 4)}
               \cup {Pdu("REKEY_SA", 1, s, << >>, k, 0) : s \in {2, 5}, k \in 1 .. 3}
               \cup {Pdu("REKEY_SA", 0, 3, << >>, 2, 0), Pdu("REKEY_SA", 0, 3, << >>, 3, 0),
                     Pdu("REKEY_SA", 1, 4, << >>, 2, 0),
                     Pdu("SET_ARSN", 0, 3, << >>, 0, 1), SaPdu("READ_ARSN", 2),
                     SaPdu("SA_STATUS", 3), SaPdu("SA_STATUS", 6),
                     Pdu("SET_ARSN_WINDOW", 0, 2, << >>, 0, 0)},
             {}, 5, 1)

\* Keys are replaced, activated, deactivated and verified while frames are sent.
Rollover ==
    Scenario({Frame(2, 1, 3), Frame(2, 2, 5)},
             {Otar(<< 2 >>), Otar(<< 4, 2 >>), Otar(<< 3, 3 >>),
              [Otar(<< 4 >>) EXCEPT !.good = FALSE], [Otar(<< 4 >>) EXCEPT !.key = 2],
              KeyPdu("KEY_ACTIVATION", << 2 >>), KeyPdu("KEY_ACTIVATION", << 4, 2 >>),
              KeyPdu("KEY_DEACTIVATION", << 2 >>), KeyPdu("KEY_DEACTIVATION", << 3, 2 >>),
              KeyPdu("KEY_DEACTIVATION", << 2, 2 >>),
              KeyPdu("KEY_VERIFICATION", << 3 >>)}, {3}, 5, 1)

\* Verifications race with frames sent under the same key and under another.
Verifications ==
    Scenario({}, {KeyPdu("KEY_VERIFICATION", << 2, 3 >>), KeyPdu("KEY_VERIFICATION", << 2 >>),
                  KeyPdu("KEY_VERIFICATION", << 2, 2 >>)}, {3}, 8, 2)

\* The ring fills, wraps, is read and erased; PDUs are malformed in every way.
Monitored ==
    [Scenario({Frame(0, 0, 0), Frame(2, 1, 3), Frame(2, 1, NullKey), Frame(6, 1, 3)},
              {Monitor(p) : p \in MonitoringProcs} \cup
                {Inventory(0, 4), Inventory(2, 1), Inventory(0, 5),
                 [Monitor("PING") EXCEPT !.octets = 0],
                 [Monitor("PING") EXCEPT !.user = TRUE],
                 [Monitor("PING") EXCEPT !.declared = 8],
                 [Monitor("PING") EXCEPT !.declared = 8, !.octets = 4],
                 [Monitor("DUMP_LOG") EXCEPT !.type = "REPLY"],
                 [Monitor("ALARM_FLAG_RESET") EXCEPT !.type = "REPLY"],
                 KeyPdu("KEY_ACTIVATION", << 2, 3, 2, 3, 2, 3 >>),
                 Pdu("OTAR", 9, 0, << 2 >>, 0, 0)},
              {}, 5, 1)
       EXCEPT !.rooms = {6, 200}]

MCScenarios == {Replays, Associations, Rollover, Verifications, Monitored}

===============================================================================

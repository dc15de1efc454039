------------------------------ MODULE SdlsProofs -------------------------------
(***************************************************************************)
(* For every number of SAs and keys, every window, ring and table the            *)
(* application starts from: the anti-replay check keeps its promise, SAs that    *)
(* differ in direction or mode never run with the same key slot, a key object    *)
(* that was given up never comes back and none is left behind, no event is       *)
(* blamed on a frame that was not accepted, the ring holds the newest events     *)
(* and explains the alarm, no nonce leaves twice under one key object, and       *)
(* every reply is one that its decoder accepts.                                *)
(***************************************************************************)
EXTENDS SdlsEp, FiniteSetTheorems, SequenceTheorems, WellFoundedInduction, TLAPS

-------------------------------------------------------------------------------
(* Security associations *)

\* A clear SA has no key: it is started without validate_sa_key.
ClearIsKeyless == \A s \in Spis : SaMode[s] = "CLEAR" => sas[s].key = KeyNone

OnlyConfiguredRun == \A s \in Spis : sas[s].state = "OPERATIONAL" => Configured(s)

\* The receive ARSN of an SA is not below any ARSN it has accepted since its last
\* Rekey, and is initialised if it has accepted one.
ArsnIsNewest ==
    \A s \in Spis : accepted[s] # << >> =>
        sas[s].rxInit /\ accepted[s][Len(accepted[s])] <= sas[s].rxArsn

\* The inductive invariant of the SAs
SaInv ==
    /\ scenario \in Scenarios /\ sas \in [Spis -> Sa] /\ accepted \in [Spis -> Seq(Arsns)]
    /\ ClearIsKeyless /\ OnlyConfiguredRun /\ KeySeparation /\ ArsnIsNewest

\* The procedures that change an SA
ChangesSa(c, fault) ==
    \/ ProcessStartSa(c, fault)
    \/ ProcessSaTransition(c)
    \/ ProcessRekeySa(c, fault)
    \/ ProcessSetArsn(c)
    \/ ProcessSetArsnWindow(c)

\* Every other step leaves the SAs alone, or is an accepted frame.
LEMMA SaSteps ==
    ASSUME Next
    PROVE  /\ scenario' = scenario
           /\ \/ \E f \in scenario.frames, fault \in BOOLEAN :
                    FrameError(f, fault) = "OK" /\ AcceptFrame(f)
              \/ \E c \in scenario.pdus, fault \in Nat : ChangesSa(c, fault)
              \/ UNCHANGED << sas, accepted >>
<1>1. CASE \E f \in scenario.frames, fault \in BOOLEAN : ProcessSecurity(f, fault)
  BY <1>1 DEF ProcessSecurity, RefuseFrame, saVars, Tick
<1>2. CASE BeginDispatch \/ Withdraw
  BY <1>2 DEF BeginDispatch, Withdraw, saVars, Tick
<1>3. CASE EndKeyVerification
  BY <1>3 DEF EndKeyVerification, saVars, Tick
<1>4. CASE \E s \in scenario.sends, fault \in BOOLEAN : ApplySecurity(s, fault)
  BY <1>4 DEF ApplySecurity, saVars, Tick
<1>5. CASE \E c \in scenario.pdus : \E fault \in 0 .. MaxCalls(c) : ProcessPdu(c, fault)
  <2>1. PICK c \in scenario.pdus, fault \in Nat : ProcessPdu(c, fault)
    BY <1>5
  <2>2. scenario' = scenario
    BY <2>1 DEF ProcessPdu, Tick
  <2>3. CASE RejectPdu(c)
    BY <2>2, <2>3 DEF RejectPdu, saVars
  <2>4. CASE KeyManagement(c, fault)
    BY <2>2, <2>4 DEF KeyManagement, ProcessOtar, ProcessLifecycle, ProcessKeyInventory,
                      BeginKeyVerification, saVars
  <2>5. CASE SaManagement(c, fault)
    BY <2>2, <2>5 DEF SaManagement, ChangesSa, ProcessReadSa, saVars
  <2>6. CASE Monitoring(c)
    BY <2>2, <2>6 DEF Monitoring, ProcessPing, ProcessLogStatus, ProcessDumpLog,
                      ProcessEraseLog, ProcessSelfTest, ProcessAlarmFlagReset, saVars
  <2> QED
    BY <2>1, <2>3, <2>4, <2>5, <2>6 DEF ProcessPdu
<1> QED
  BY <1>1, <1>2, <1>3, <1>4, <1>5 DEF Next

\* The frame that passes the checks of process_security is newer than every frame
\* its SA has accepted, and stays the newest.
LEMMA AcceptKeeps ==
    ASSUME SaInv, scenario' = scenario, NEW f \in scenario.frames, NEW fault \in BOOLEAN,
           FrameError(f, fault) = "OK", AcceptFrame(f)
    PROVE  SaInv' /\ f.spi \in Spis /\ f.arsn \in Arsns /\ Replay!Accept(f.spi, f.arsn)
<1>1. f \in [spi: 0 .. MaxSa, arsn: Arsns, psa: Nat]
  BY ScenarioAssumption DEF SaInv
<1>2. f.spi \in Spis /\ f.arsn \in Arsns /\ ReplayError(f.spi, f.arsn) = "OK"
  BY <1>1 DEF FrameError, Configured
<1>3. ~sas[f.spi].rxInit \/ f.arsn > sas[f.spi].rxArsn
  BY <1>2, SdlsAssumption DEF ReplayError, SaInv, Sa, Arsns, SdlsAssumption
<1> DEFINE new == [sas[f.spi] EXCEPT !.rxArsn = f.arsn, !.rxInit = TRUE]
<1>4. /\ new \in Sa /\ new.state = sas[f.spi].state /\ new.key = sas[f.spi].key
      /\ new.rxInit /\ new.rxArsn = f.arsn
  BY <1>2 DEF SaInv, Sa
<1>5. /\ sas' = [sas EXCEPT ![f.spi] = new]
      /\ accepted' = [accepted EXCEPT ![f.spi] = Append(accepted[f.spi], f.arsn)]
  BY <1>2 DEF AcceptFrame, SaInv, Sa
<1> HIDE DEF new
<1>6. /\ sas' \in [Spis -> Sa] /\ accepted' \in [Spis -> Seq(Arsns)]
      /\ \A s \in Spis : sas'[s].state = sas[s].state /\ sas'[s].key = sas[s].key
  BY <1>2, <1>4, <1>5 DEF SaInv
<1>7. ClearIsKeyless' /\ OnlyConfiguredRun' /\ KeySeparation'
  BY <1>6, ZenonT(40) DEF SaInv, ClearIsKeyless, OnlyConfiguredRun, Configured, KeySeparation, Separated,
              Compatible
<1>8. ArsnIsNewest'
  <2> SUFFICES ASSUME NEW s \in Spis, accepted'[s] # << >>
               PROVE  sas'[s].rxInit /\ accepted'[s][Len(accepted'[s])] <= sas'[s].rxArsn
    BY DEF ArsnIsNewest
  <2>1. CASE s = f.spi
    <3>1. accepted'[s] = Append(accepted[s], f.arsn) /\ sas'[s] = new
      BY <2>1, <1>2, <1>5 DEF SaInv
    <3>2. accepted'[s][Len(accepted'[s])] = f.arsn
      BY <3>1, <1>2 DEF SaInv
    <3> QED
      BY <3>1, <3>2, <1>2, <1>4, SdlsAssumption DEF Arsns, SdlsAssumption
  <2>2. CASE s # f.spi
    BY <2>2, <1>2, <1>5 DEF SaInv, ArsnIsNewest
  <2> QED
    BY <2>1, <2>2
<1>9. Replay!Newer(accepted[f.spi], f.arsn)
  <2>1. CASE accepted[f.spi] = << >>
    BY <2>1 DEF Replay!Newer
  <2>2. CASE accepted[f.spi] # << >>
    <3> DEFINE last == accepted[f.spi][Len(accepted[f.spi])]
    <3>1. last \in Arsns /\ sas[f.spi].rxArsn \in Arsns
      BY <2>2, <1>2 DEF SaInv, Sa
    <3>2. sas[f.spi].rxInit /\ last <= sas[f.spi].rxArsn
      BY <2>2, <1>2 DEF SaInv, ArsnIsNewest
    <3>3. last < f.arsn
      BY <3>1, <3>2, <1>2, <1>3, SdlsAssumption DEF Arsns, SdlsAssumption
    <3> QED
      BY <3>3 DEF Replay!Newer
  <2> QED
    BY <2>1, <2>2
<1> QED
  BY <1>2, <1>5, <1>6, <1>7, <1>8, <1>9 DEF SaInv, Replay!Accept

\* A changed SA keeps the invariant if it stays apart from the SAs that run, keeps
\* apart from all others if it runs itself, and stays ahead of what it accepted.
ApartFromRunning(s, key) ==
    \A i \in Spis :
        (/\ i # s /\ Configured(s) /\ sas[i].state = "OPERATIONAL"
         /\ sas[i].key = key /\ key \in KeySlots) => Compatible(i, s)

ApartFromAll(s, key) ==
    \A i \in Spis :
        (i # s /\ Configured(i) /\ sas[i].key = key /\ key \in KeySlots) => Compatible(s, i)

LEMMA ChangeKeeps ==
    ASSUME SaInv, scenario' = scenario, NEW s \in Spis, NEW new \in Sa,
           sas' = [sas EXCEPT ![s] = new],
           accepted' \in [Spis -> Seq(Arsns)],
           \A i \in Spis : i # s => accepted'[i] = accepted[i],
           SaMode[s] = "CLEAR" => new.key = KeyNone,
           ApartFromRunning(s, new.key),
           new.state = "OPERATIONAL" => Configured(s) /\ ApartFromAll(s, new.key),
           accepted'[s] # << >> =>
               new.rxInit /\ accepted'[s][Len(accepted'[s])] <= new.rxArsn
    PROVE  SaInv'
<1>1. sas' \in [Spis -> Sa] /\ sas'[s] = new /\ \A i \in Spis : i # s => sas'[i] = sas[i]
  BY DEF SaInv
<1>2. ClearIsKeyless' /\ OnlyConfiguredRun'
  BY <1>1 DEF SaInv, ClearIsKeyless, OnlyConfiguredRun, Configured
<1>3. KeySeparation'
  <2> SUFFICES ASSUME NEW r \in Spis, NEW i \in Spis, r # i, Configured(i),
                      sas'[r].state = "OPERATIONAL", sas'[r].key = sas'[i].key,
                      sas'[r].key \in KeySlots
               PROVE  Compatible(r, i)
    BY DEF KeySeparation, Separated, Compatible, Configured, TxRole, KeySlots, Spis
  <2>1. CASE r = s
    BY <2>1, <1>1 DEF ApartFromAll
  <2>2. CASE i = s
    BY <2>2, <1>1 DEF ApartFromRunning
  <2>3. CASE r # s /\ i # s
    BY <2>3, <1>1 DEF SaInv, KeySeparation, Separated
  <2> QED
    BY <2>1, <2>2, <2>3
<1>4. ArsnIsNewest'
  BY <1>1 DEF SaInv, ArsnIsNewest
<1> QED
  BY <1>1, <1>2, <1>3, <1>4 DEF SaInv

\* An SA that keeps its key is apart from the SAs that run, and if it runs, from all.
LEMMA SameKeyApart ==
    ASSUME SaInv, NEW s \in Spis
    PROVE  /\ ApartFromRunning(s, sas[s].key)
           /\ sas[s].state = "OPERATIONAL" => ApartFromAll(s, sas[s].key)
BY DEF SaInv, KeySeparation, Separated, ApartFromRunning, ApartFromAll, Compatible

\* What the last loop of validate_sa_key establishes.
LEMMA ValidatedApart ==
    ASSUME SaInv, NEW s \in Spis, NEW k,
           \A i \in Spis : SharesKey(s, i, k) => Compatible(s, i)
    PROVE  ApartFromAll(s, k) /\ ApartFromRunning(s, k)
<1>1. ApartFromAll(s, k)
  BY DEF ApartFromAll, SharesKey
<1>2. ApartFromRunning(s, k)
  BY DEF SaInv, OnlyConfiguredRun, ApartFromRunning, SharesKey, Compatible
<1> QED
  BY <1>1, <1>2

\* The five procedures that change an SA keep the invariant.  Only Rekey begins the
\* ARSNs of an SA anew.
LEMMA ChangesKeep ==
    ASSUME SaInv, scenario' = scenario, NEW c \in scenario.pdus, NEW fault \in Nat,
           ChangesSa(c, fault)
    PROVE  SaInv' /\ (accepted' = accepted \/ (c.spi \in Spis /\ Replay!Renew(c.spi)))
<1>1. c \in Pdus
  BY ScenarioAssumption DEF SaInv
<1>2. c.spi \in Nat /\ c.value \in Arsns /\ c.proc \in STRING
  BY <1>1 DEF Pdus
<1>0. ASSUME UNCHANGED << sas, accepted >> PROVE SaInv' /\ accepted' = accepted
  BY <1>0 DEF SaInv, ClearIsKeyless, OnlyConfiguredRun, Configured, KeySeparation, Separated,
              Compatible, ArsnIsNewest
<1> DEFINE s == c.spi
<1>3. CASE ProcessStartSa(c, fault)
  <2>1. accepted' = accepted
    BY <1>3 DEF ProcessStartSa
  <2>2. CASE StartSaError(c, fault = 1) # "OK"
    BY <1>0, <1>3, <2>1, <2>2 DEF ProcessStartSa, Manage
  <2>3. CASE StartSaError(c, fault = 1) = "OK"
    <3> DEFINE new == [[sas[s] EXCEPT !.state = "OPERATIONAL"] EXCEPT !.last = c.proc]
    <3>1. s \in Spis /\ Configured(s)
      BY <2>3 DEF StartSaError, Configured
    <3>2. sas' = [sas EXCEPT ![s] = new]
      BY <1>3, <2>3 DEF ProcessStartSa, Manage
    <3>3. /\ new \in Sa /\ new.key = sas[s].key /\ new.rxArsn = sas[s].rxArsn
          /\ new.rxInit = sas[s].rxInit
      BY <3>1, <1>2 DEF SaInv, Sa
    <3>4. ApartFromAll(s, sas[s].key)
      <4>1. CASE SaMode[s] = "CLEAR"
        <5>1. sas[s].key = KeyNone
          BY <4>1, <3>1 DEF SaInv, ClearIsKeyless
        <5> QED
          BY <5>1, SdlsAssumption DEF ApartFromAll, KeyNone, KeySlots, SdlsAssumption
      <4>2. CASE SaMode[s] # "CLEAR"
        <5>1. \A i \in Spis : SharesKey(s, i, sas[s].key) => Compatible(s, i)
          BY <2>3, <4>2 DEF StartSaError, ValidateSaKey
        <5> QED
          BY <5>1, <3>1, ValidatedApart
      <4> QED
        BY <4>1, <4>2
    <3>5. SaMode[s] = "CLEAR" => new.key = KeyNone
      BY <3>1, <3>3 DEF SaInv, ClearIsKeyless
    <3>6. accepted'[s] # << >> => new.rxInit /\ accepted'[s][Len(accepted'[s])] <= new.rxArsn
      BY <2>1, <3>1, <3>3 DEF SaInv, ArsnIsNewest
    <3>7. ApartFromRunning(s, sas[s].key)
      BY <3>1, SameKeyApart
    <3> HIDE DEF new
    <3> QED
      BY <2>1, <3>1, <3>2, <3>3, <3>4, <3>5, <3>6, <3>7, ChangeKeeps DEF SaInv
  <2> QED
    BY <2>1, <2>2, <2>3
<1>4. CASE ProcessSaTransition(c)
  <2>1. accepted' = accepted
    BY <1>4 DEF ProcessSaTransition
  <2>2. CASE sas' = sas
    BY <1>0, <2>1, <2>2
  <2>3. CASE sas' # sas
    <3>1. PICK state \in {"STOPPED", "EXPIRED"} :
            /\ s \in Spis
            /\ sas' = [sas EXCEPT ![s] = [[sas[s] EXCEPT !.state = state] EXCEPT !.last = c.proc]]
      BY <1>4, <2>3 DEF ProcessSaTransition, Manage, Configured
    <3> DEFINE new == [[sas[s] EXCEPT !.state = state] EXCEPT !.last = c.proc]
    <3>2. /\ new \in Sa /\ new.key = sas[s].key /\ new.rxArsn = sas[s].rxArsn
          /\ new.rxInit = sas[s].rxInit /\ new.state # "OPERATIONAL"
      <4>1. sas[s] \in Sa
        BY <3>1 DEF SaInv
      <4> QED
        BY <4>1, <1>2 DEF Sa
    <3>3. SaMode[s] = "CLEAR" => new.key = KeyNone
      BY <3>1, <3>2 DEF SaInv, ClearIsKeyless
    <3>4. accepted'[s] # << >> => new.rxInit /\ accepted'[s][Len(accepted'[s])] <= new.rxArsn
      BY <2>1, <3>1, <3>2 DEF SaInv, ArsnIsNewest
    <3>5. ApartFromRunning(s, sas[s].key)
      BY <3>1, SameKeyApart
    <3>6. sas' = [sas EXCEPT ![s] = new]
      BY <3>1
    <3> HIDE DEF new
    <3> QED
      BY <2>1, <3>1, <3>2, <3>3, <3>4, <3>5, <3>6, ChangeKeeps DEF SaInv
  <2> QED
    BY <2>2, <2>3
<1>5. CASE ProcessRekeySa(c, fault)
  <2>1. CASE RekeyError(c, fault = 1) # "OK"
    BY <1>0, <1>5, <2>1 DEF ProcessRekeySa, Manage
  <2>2. CASE RekeyError(c, fault = 1) = "OK"
    <3>1. /\ s \in Spis /\ SaMode[s] # "CLEAR" /\ c.key \in KeySlots
          /\ \A i \in Spis : SharesKey(s, i, c.key) => Compatible(s, i)
      BY <2>2 DEF RekeyError, Configured, ValidateSaKey, KeyPresent
    <3>2. accepted' = [accepted EXCEPT ![s] = << >>]
      BY <1>5, <2>2 DEF ProcessRekeySa
    <3>3. PICK arsn \in Arsns, init \in BOOLEAN :
             sas' = [sas EXCEPT ![s] =
                       [[sas[s] EXCEPT !.state = "STOPPED", !.key = c.key, !.rxArsn = arsn,
                                       !.rxInit = init] EXCEPT !.last = c.proc]]
      <4>1. CASE RxRole(s)
        BY <1>2, <1>5, <2>2, <4>1 DEF ProcessRekeySa, Manage
      <4>2. CASE ~RxRole(s)
        <5>1. /\ sas[s] = [sas[s] EXCEPT !.rxArsn = sas[s].rxArsn, !.rxInit = sas[s].rxInit]
              /\ sas[s].rxArsn \in Arsns /\ sas[s].rxInit \in BOOLEAN
          BY <3>1 DEF SaInv, Sa
        <5>2. sas' = [sas EXCEPT ![s] =
                        [[sas[s] EXCEPT !.state = "STOPPED", !.key = c.key] EXCEPT
                            !.last = c.proc]]
          BY <1>5, <2>2, <4>2 DEF ProcessRekeySa, Manage
        <5>3. [sas[s] EXCEPT !.state = "STOPPED", !.key = c.key]
                = [sas[s] EXCEPT !.state = "STOPPED", !.key = c.key, !.rxArsn = sas[s].rxArsn,
                                 !.rxInit = sas[s].rxInit]
          BY <3>1 DEF SaInv, Sa
        <5> QED
          BY <5>1, <5>2, <5>3
      <4> QED
        BY <4>1, <4>2
    <3> DEFINE new == [[sas[s] EXCEPT !.state = "STOPPED", !.key = c.key, !.rxArsn = arsn,
                                      !.rxInit = init] EXCEPT !.last = c.proc]
    <3>4. new \in Sa /\ new.key = c.key /\ new.state # "OPERATIONAL"
      <4>1. sas[s] \in Sa
        BY <3>1 DEF SaInv
      <4>2. c.key \in 0 .. MaxKeys
        BY <3>1, SdlsAssumption DEF KeySlots, SdlsAssumption
      <4> QED
        BY <4>1, <4>2, <1>2 DEF Sa
    <3>5. ApartFromRunning(s, c.key)
      BY <3>1, ValidatedApart
    <3>6. /\ accepted' \in [Spis -> Seq(Arsns)] /\ accepted'[s] = << >>
          /\ \A i \in Spis : i # s => accepted'[i] = accepted[i]
      BY <3>1, <3>2 DEF SaInv
    <3>7. sas' = [sas EXCEPT ![s] = new]
      BY <3>3
    <3> HIDE DEF new
    <3>8. SaInv'
      BY <3>1, <3>4, <3>5, <3>6, <3>7, ChangeKeeps
    <3> QED
      BY <3>1, <3>2, <3>8 DEF Replay!Renew
  <2> QED
    BY <2>1, <2>2
<1>6. CASE ProcessSetArsn(c) \/ ProcessSetArsnWindow(c)
  <2>1. accepted' = accepted
    BY <1>6 DEF ProcessSetArsn, ProcessSetArsnWindow
  <2>2. CASE sas' = sas
    BY <1>0, <2>1, <2>2
  <2>3. CASE sas' # sas
    <3>1. PICK new \in Sa :
            /\ s \in Spis /\ sas' = [sas EXCEPT ![s] = new]
            /\ new.key = sas[s].key /\ new.state = sas[s].state
            /\ \/ new.rxArsn = sas[s].rxArsn /\ new.rxInit = sas[s].rxInit
               \/ new.rxInit /\ (sas[s].rxInit => new.rxArsn >= sas[s].rxArsn)
      <4>1. CASE ProcessSetArsn(c)
        <5> DEFINE new == [[sas[s] EXCEPT !.rxArsn = c.value, !.rxInit = TRUE] EXCEPT
                              !.last = c.proc]
        <5>1. SetArsnError(c) = "OK" /\ sas' = [sas EXCEPT ![s] = new]
          BY <4>1, <2>3 DEF ProcessSetArsn, Manage
        <5>2. s \in Spis /\ ~(sas[s].rxInit /\ c.value < sas[s].rxArsn)
          BY <5>1 DEF SetArsnError, MutableRxSa, Configured
        <5>3. /\ new \in Sa /\ new.key = sas[s].key /\ new.state = sas[s].state
              /\ new.rxInit /\ new.rxArsn = c.value
          BY <5>2, <1>2 DEF SaInv, Sa
        <5>4. sas[s].rxInit => new.rxArsn >= sas[s].rxArsn
          <6>1. c.value \in Arsns /\ sas[s].rxArsn \in Arsns /\ new.rxArsn = c.value
            BY <5>2, <5>3, <1>2 DEF SaInv, Sa
          <6>2. c.value \in Nat /\ sas[s].rxArsn \in Nat
            BY <6>1, SdlsAssumption DEF Arsns, SdlsAssumption
          <6> HIDE DEF new
          <6> QED
            BY <5>2, <6>1, <6>2
        <5> HIDE DEF new
        <5> QED
          BY <5>1, <5>2, <5>3, <5>4
      <4>2. CASE ProcessSetArsnWindow(c)
        <5> DEFINE new == [[sas[s] EXCEPT !.window = c.value] EXCEPT !.last = c.proc]
        <5>1. /\ s \in Spis /\ sas' = [sas EXCEPT ![s] = new]
          BY <4>2, <2>3 DEF ProcessSetArsnWindow, Manage, MutableRxSa, Configured
        <5>2. c.value \in Nat
          BY <1>2, SdlsAssumption DEF Arsns, SdlsAssumption
        <5>3. /\ new \in Sa /\ new.key = sas[s].key /\ new.state = sas[s].state
              /\ new.rxArsn = sas[s].rxArsn /\ new.rxInit = sas[s].rxInit
          BY <5>1, <5>2, <1>2 DEF SaInv, Sa
        <5> HIDE DEF new
        <5> QED
          BY <5>1, <5>3
      <4> QED
        BY <1>6, <4>1, <4>2
    <3>2. ApartFromRunning(s, sas[s].key)
          /\ (new.state = "OPERATIONAL" => Configured(s) /\ ApartFromAll(s, new.key))
      BY <3>1, SameKeyApart DEF SaInv, OnlyConfiguredRun
    <3>3. SaMode[s] = "CLEAR" => new.key = KeyNone
      BY <3>1 DEF SaInv, ClearIsKeyless
    <3>4. accepted[s] # << >> => new.rxInit /\ accepted[s][Len(accepted[s])] <= new.rxArsn
      <4> SUFFICES ASSUME accepted[s] # << >>
                   PROVE  new.rxInit /\ accepted[s][Len(accepted[s])] <= new.rxArsn
        OBVIOUS
      <4>1. sas[s].rxInit /\ accepted[s][Len(accepted[s])] <= sas[s].rxArsn
        BY <3>1 DEF SaInv, ArsnIsNewest
      <4>2. /\ accepted[s][Len(accepted[s])] \in Arsns /\ sas[s].rxArsn \in Arsns
            /\ new.rxArsn \in Arsns
        BY <3>1 DEF SaInv, Sa
      <4> QED
        <5>1. /\ accepted[s][Len(accepted[s])] \in Nat /\ sas[s].rxArsn \in Nat
              /\ new.rxArsn \in Nat
          BY <4>2, SdlsAssumption DEF Arsns, SdlsAssumption
        <5>2. \/ new.rxArsn = sas[s].rxArsn /\ new.rxInit = sas[s].rxInit
              \/ new.rxInit /\ new.rxArsn >= sas[s].rxArsn
          BY <3>1, <4>1
        <5>3. new.rxInit
          BY <4>1, <5>2
        <5>4. new.rxArsn >= sas[s].rxArsn
          BY <5>1, <5>2
        <5> QED
          BY <4>1, <5>1, <5>3, <5>4
    <3> QED
      BY <2>1, <3>1, <3>2, <3>3, <3>4, ChangeKeeps DEF SaInv
  <2> QED
    BY <2>2, <2>3
<1> QED
  BY <1>3, <1>4, <1>5, <1>6 DEF ChangesSa

LEMMA SaInit == Init => SaInv /\ Replay!Init
<1> SUFFICES ASSUME Init PROVE SaInv /\ Replay!Init
  OBVIOUS
<1>1. PICK s \in Scenarios : InitFrom(s)
  BY DEF Init
<1>2. /\ scenario \in Scenarios /\ sas = s.sas
      /\ accepted = [i \in Spis |-> << >>]
  BY <1>1 DEF InitFrom
<1>3. /\ sas \in [Spis -> Sa] /\ Separated(sas)
      /\ \A i \in Spis : /\ SaMode[i] = "CLEAR" => sas[i].key = KeyNone
                         /\ sas[i].state = "OPERATIONAL" => Configured(i)
  BY <1>2, ScenarioAssumption
<1>4. ClearIsKeyless /\ OnlyConfiguredRun /\ KeySeparation
  BY <1>3 DEF ClearIsKeyless, OnlyConfiguredRun, KeySeparation
<1>5. accepted \in [Spis -> Seq(Arsns)] /\ ArsnIsNewest
  BY <1>2 DEF ArsnIsNewest
<1> QED
  BY <1>2, <1>3, <1>4, <1>5 DEF SaInv, Replay!Init

LEMMA SaStep ==
    ASSUME SaInv, [Next]_vars
    PROVE  SaInv' /\ [Replay!Next]_accepted
<1>1. ASSUME scenario' = scenario, UNCHANGED << sas, accepted >>
      PROVE  SaInv'
  BY <1>1 DEF SaInv, ClearIsKeyless, OnlyConfiguredRun, Configured, KeySeparation, Separated,
              Compatible, ArsnIsNewest
<1>2. CASE UNCHANGED vars
  BY <1>1, <1>2 DEF vars, saVars, boundVars
<1>3. CASE Next
  <2>1. /\ scenario' = scenario
        /\ \/ \E f \in scenario.frames, fault \in BOOLEAN :
                 FrameError(f, fault) = "OK" /\ AcceptFrame(f)
           \/ \E c \in scenario.pdus, fault \in Nat : ChangesSa(c, fault)
           \/ UNCHANGED << sas, accepted >>
    BY <1>3, SaSteps
  <2>2. CASE \E f \in scenario.frames, fault \in BOOLEAN :
                 FrameError(f, fault) = "OK" /\ AcceptFrame(f)
    <3>1. PICK f \in scenario.frames, fault \in BOOLEAN :
                 FrameError(f, fault) = "OK" /\ AcceptFrame(f)
      BY <2>2
    <3>2. SaInv' /\ f.spi \in Spis /\ f.arsn \in Arsns /\ Replay!Accept(f.spi, f.arsn)
      BY <2>1, <3>1, AcceptKeeps
    <3> QED
      BY <3>2 DEF Replay!Next
  <2>3. CASE \E c \in scenario.pdus, fault \in Nat : ChangesSa(c, fault)
    <3>1. PICK c \in scenario.pdus, fault \in Nat : ChangesSa(c, fault)
      BY <2>3
    <3>2. SaInv' /\ (accepted' = accepted \/ (c.spi \in Spis /\ Replay!Renew(c.spi)))
      BY <2>1, <3>1, ChangesKeep
    <3> QED
      BY <3>2 DEF Replay!Next
  <2>4. CASE UNCHANGED << sas, accepted >>
    BY <1>1, <2>1, <2>4
  <2> QED
    BY <2>1, <2>2, <2>3, <2>4
<1> QED
  BY <1>2, <1>3

\* Whatever frames and procedures arrive, an SA that differs from a running SA in
\* direction or mode never has its key slot.
THEOREM KeySeparationHolds == Spec => []KeySeparation
<1>1. Init => SaInv
  BY SaInit
<1>2. SaInv /\ [Next]_vars => SaInv'
  BY SaStep
<1>3. SaInv => KeySeparation
  BY DEF SaInv
<1> QED
  BY <1>1, <1>2, <1>3, PTL DEF Spec

\* The checks of process_security and the procedures that set an SA's ARSN implement
\* AntiReplay: between two Rekeys the ARSNs an SA accepts grow.
THEOREM NoReplayHolds == Spec => NoReplay
<1>1. Init => SaInv /\ Replay!Init
  BY SaInit
<1>2. SaInv /\ [Next]_vars => SaInv' /\ [Replay!Next]_accepted
  BY SaStep
<1> QED
  BY <1>1, <1>2, PTL DEF Spec, NoReplay, Replay!Spec

-------------------------------------------------------------------------------
(* Keys *)

\* Objects that a slot refers to, or that were given up, exist already, an absent
\* key is PREACTIVE, and no two slots share an object.
ObjectsOld ==
    /\ \A k \in KeySlots : keys[k].psa < nextObject
    /\ \A p \in retired : p \in 1 .. nextObject - 1
AbsentIsPreactive == \A k \in KeySlots : keys[k].psa = NullKey => keys[k].state = "PREACTIVE"
SlotsDistinct ==
    \A j, k \in KeySlots : keys[j].psa = keys[k].psa /\ keys[k].psa # NullKey => j = k

\* A key that may still be activated was not given up either.
UsableNotRetired ==
    \A k \in KeySlots : keys[k].state # "DEACTIVATED" => keys[k].psa \notin retired

\* The inductive invariant of the keys
KeyInv ==
    /\ scenario \in Scenarios /\ keys \in [KeySlots -> Key] /\ nextObject \in Nat
    /\ ObjectsOld /\ AbsentIsPreactive /\ SlotsDistinct /\ UsableNotRetired

LEMMA ModIsArsn == ASSUME NEW n \in Nat PROVE n % ArsnModulus \in Arsns
BY SdlsAssumption DEF Arsns, SdlsAssumption

\* A step that only sends, or ends a verification, moves the counter of some keys.
CountersMove ==
    /\ UNCHANGED << nextObject, retired, objects, stuck >> /\ keys' \in [KeySlots -> Key]
    /\ \A k \in KeySlots : keys'[k].psa = keys[k].psa /\ keys'[k].state = keys[k].state

LEMMA SendCounts ==
    ASSUME keys \in [KeySlots -> Key], NEW s, NEW fault, ApplySecurity(s, fault)
    PROVE  scenario' = scenario /\ CountersMove
<1>1. /\ scenario' = scenario /\ UNCHANGED << nextObject, retired, objects, stuck >>
      /\ sas[s].key \in KeySlots
      /\ keys' = [keys EXCEPT ![sas[s].key].txArsn = (@ + 1) % ArsnModulus]
  BY DEF ApplySecurity, Tick, OperationalKey, KeyPresent, Allocate
<1>2. \A k \in KeySlots : (keys[k].txArsn + 1) % ArsnModulus \in Arsns
  <2>1. \A k \in KeySlots : keys[k].txArsn \in Nat
    BY SdlsAssumption DEF Key, Arsns, SdlsAssumption
  <2> QED
    BY <2>1, ModIsArsn
<1>3. ASSUME NEW k \in KeySlots
      PROVE  /\ keys'[k] \in Key /\ keys'[k].psa = keys[k].psa
             /\ keys'[k].state = keys[k].state
  BY <1>1, <1>2 DEF Key
<1>4. DOMAIN keys' = KeySlots /\ keys' = [k \in KeySlots |-> keys'[k]]
  BY <1>1
<1> QED
  BY <1>1, <1>3, <1>4 DEF CountersMove

LEMMA KeySteps ==
    ASSUME Next, keys \in [KeySlots -> Key]
    PROVE  /\ scenario' = scenario
           /\ \/ CountersMove
              \/ \E c \in scenario.pdus, fault \in Nat : ProcessOtar(c, fault)
              \/ \E c \in scenario.pdus, fault \in Nat : ProcessLifecycle(c, fault)
<1>1. \A k \in KeySlots : /\ keys[k].txArsn \in Nat
                          /\ (keys[k].txArsn + 1) % ArsnModulus \in Arsns
  <2>1. \A k \in KeySlots : keys[k].txArsn \in Nat
    BY SdlsAssumption DEF Key, Arsns, SdlsAssumption
  <2> QED
    BY <2>1, ModIsArsn
<1>2. ASSUME UNCHANGED << keys, nextObject, retired, objects, stuck >> PROVE CountersMove
  BY <1>2 DEF CountersMove
<1>3. CASE \E f \in scenario.frames, fault \in BOOLEAN : ProcessSecurity(f, fault)
  BY <1>2, <1>3 DEF ProcessSecurity, keyVars, Tick
<1>4. CASE BeginDispatch \/ Withdraw
  BY <1>2, <1>4 DEF BeginDispatch, Withdraw, keyVars, Tick
<1>5. CASE EndKeyVerification
  <2>1. /\ scenario' = scenario /\ UNCHANGED << nextObject, retired, objects, stuck >>
        /\ keys' = [k \in KeySlots |->
                      IF \E i \in DOMAIN verify.ids : verify.ids[i] = k
                        THEN [keys[k] EXCEPT !.txArsn = (@ + 1) % ArsnModulus] ELSE keys[k]]
    BY <1>5 DEF EndKeyVerification, Tick
  <2>2. ASSUME NEW k \in KeySlots
        PROVE  /\ keys'[k] \in Key /\ keys'[k].psa = keys[k].psa
               /\ keys'[k].state = keys[k].state
    BY <1>1, <2>1 DEF Key
  <2> QED
    BY <2>1, <2>2 DEF CountersMove
<1>6. CASE \E s \in scenario.sends, fault \in BOOLEAN : ApplySecurity(s, fault)
  BY <1>6, SendCounts
<1>7. CASE \E c \in scenario.pdus : \E fault \in 0 .. MaxCalls(c) : ProcessPdu(c, fault)
  <2>1. PICK c \in scenario.pdus, fault \in Nat : ProcessPdu(c, fault)
    BY <1>7
  <2>2. scenario' = scenario
    BY <2>1 DEF ProcessPdu, Tick
  <2>3. CASE RejectPdu(c)
    BY <1>2, <2>2, <2>3 DEF RejectPdu, keyVars
  <2>4. CASE KeyManagement(c, fault)
    <3>1. CASE ProcessOtar(c, fault) \/ ProcessLifecycle(c, fault)
      BY <2>2, <3>1
    <3>2. CASE \E room \in scenario.rooms : ProcessKeyInventory(c, fault, room)
      BY <1>2, <2>2, <3>2 DEF ProcessKeyInventory, keyVars
    <3>3. CASE BeginKeyVerification(c, fault)
      BY <1>2, <2>2, <3>3 DEF BeginKeyVerification, keyVars
    <3> QED
      BY <2>4, <3>1, <3>2, <3>3 DEF KeyManagement
  <2>5. CASE SaManagement(c, fault)
    BY <1>2, <2>2, <2>5 DEF SaManagement, ProcessStartSa, ProcessSaTransition, ProcessRekeySa,
                            ProcessSetArsn, ProcessSetArsnWindow, ProcessReadSa, keyVars
  <2>6. CASE Monitoring(c)
    BY <1>2, <2>2, <2>6 DEF Monitoring, ProcessPing, ProcessLogStatus, ProcessDumpLog,
                      ProcessEraseLog, ProcessSelfTest, ProcessAlarmFlagReset, keyVars
  <2> QED
    BY <2>1, <2>3, <2>4, <2>5, <2>6 DEF ProcessPdu
<1> QED
  BY <1>3, <1>4, <1>5, <1>6, <1>7 DEF Next

\* A loop that stops at the first failure and finds none has found none at all.
LEMMA FirstOk ==
    ASSUME NEW errs, DOMAIN errs \in SUBSET Nat, First(errs) = "OK"
    PROVE  \A i \in DOMAIN errs : errs[i] = "OK"
<1> DEFINE I == {i \in DOMAIN errs : errs[i] # "OK"}
           R == OpToRel(<, Nat)
<1> SUFFICES ASSUME I # {} PROVE FALSE
  OBVIOUS
<1>1. \A j, i \in Nat : j < i => << j, i >> \in R
  BY DEF OpToRel
<1>2. I \in SUBSET Nat
  OBVIOUS
<1> HIDE DEF I, R
<1>3. \E i \in I : \A j \in I : ~(<< j, i >> \in R)
  BY <1>2, NatLessThanWellFounded, WFMin, Zenon DEF R
<1>4. PICK i \in I : \A j \in I : ~(<< j, i >> \in R)
  BY <1>3, Zenon
<1>5. \A j \in I : ~(j < i)
  BY <1>1, <1>2, <1>4
<1>6. i \in DOMAIN errs /\ errs[i] # "OK" /\ \A j \in DOMAIN errs : j < i => errs[j] = "OK"
  BY <1>5 DEF I
<1> QED
  BY <1>6 DEF First

LEMMA CountersKeep == ASSUME KeyInv, scenario' = scenario, CountersMove PROVE KeyInv'
BY DEF KeyInv, CountersMove, ObjectsOld, AbsentIsPreactive, SlotsDistinct, UsableNotRetired

\* What the key table gives about one slot, without the records
LEMMA SlotFacts ==
    ASSUME KeyInv
    PROVE  /\ nextObject \in Nat \ {0} /\ SessionSlots \subseteq KeySlots
           /\ \A k \in KeySlots : keys[k] \in Key /\ keys[k].psa \in 0 .. nextObject - 1
<1>1. \A k \in KeySlots : keys[k] \in Key /\ keys[k].psa \in Nat /\ keys[k].psa < nextObject
  BY DEF KeyInv, ObjectsOld, Key
<1>2. 0 \in KeySlots /\ SessionSlots \subseteq KeySlots
  BY SdlsAssumption DEF SdlsAssumption, KeySlots, SessionSlots
<1> QED
  BY <1>1, <1>2 DEF KeyInv

\* process_lifecycle
LEMMA LifecycleKeeps ==
    ASSUME KeyInv, scenario' = scenario, NEW c \in scenario.pdus, NEW fault \in Nat,
           ProcessLifecycle(c, fault)
    PROVE  KeyInv'
<1> DEFINE errs == [i \in DOMAIN c.ids |-> LifecycleEntry(c, i, fault)]
           named == {c.ids[i] : i \in DOMAIN c.ids}
           off == c.proc = "KEY_DEACTIVATION"
           become == IF off THEN "DEACTIVATED" ELSE "ACTIVE"
<1>1. nextObject' = nextObject /\ c.proc \in {"KEY_ACTIVATION", "KEY_DEACTIVATION"}
  BY DEF ProcessLifecycle
<1>2. \/ UNCHANGED << keys, retired >>
      \/ /\ First(errs) = "OK"
         /\ keys' = [k \in KeySlots |-> IF k \in named THEN [keys[k] EXCEPT !.state = become]
                                        ELSE keys[k]]
         /\ retired' = IF off THEN retired \cup {keys[k].psa : k \in named} ELSE retired
  BY DEF ProcessLifecycle
<1>3. CASE UNCHANGED << keys, retired >>
  <2>1. UNCHANGED << nextObject, objects, stuck >>
    BY DEF ProcessLifecycle
  <2> QED
    BY <1>3, <2>1, CountersKeep DEF CountersMove, KeyInv
<1>4. CASE /\ First(errs) = "OK"
           /\ keys' = [k \in KeySlots |-> IF k \in named THEN [keys[k] EXCEPT !.state = become]
                                          ELSE keys[k]]
           /\ retired' = IF off THEN retired \cup {keys[k].psa : k \in named} ELSE retired
  <2>1. c.ids \in Seq(Nat)
    BY ScenarioAssumption DEF ScenarioAssumption, KeyInv, Pdus
  <2>2. DOMAIN errs \in SUBSET Nat
    BY <2>1
  <2>3. \A i \in DOMAIN c.ids : LifecycleEntry(c, i, fault) = "OK"
    <3> HIDE DEF errs
    <3>1. \A i \in DOMAIN errs : errs[i] = "OK"
      BY <1>4, <2>2, FirstOk
    <3> QED
      BY <3>1 DEF errs
  <2>4. \A k \in named : /\ k \in KeySlots /\ keys[k].psa # NullKey
                         /\ off \/ keys[k].state = "PREACTIVE"
    BY <1>1, <2>3, SlotFacts DEF LifecycleEntry, KeyPresent, MayBecome
  <2>5. \A k \in KeySlots : /\ keys'[k] \in Key /\ keys'[k].psa = keys[k].psa
                            /\ keys'[k].state = IF k \in named THEN become ELSE keys[k].state
    <3>1. \A k \in KeySlots : keys[k] \in Key
      BY DEF KeyInv
    <3> HIDE DEF named
    <3> QED
      BY <1>4, <3>1 DEF Key
  <2>6. keys' \in [KeySlots -> Key]
    BY <1>4, <2>5
  <2>7. retired' \subseteq retired \cup {keys[k].psa : k \in named} /\ (~off => retired' = retired)
    BY <1>4
  <2> HIDE DEF named, off, errs
  <2>8. ObjectsOld'
    BY <1>1, <2>4, <2>5, <2>7, SlotFacts DEF KeyInv, ObjectsOld, NullKey
  <2>9. AbsentIsPreactive'
    BY <2>4, <2>5 DEF KeyInv, AbsentIsPreactive
  <2>10. SlotsDistinct'
    BY <2>5 DEF KeyInv, SlotsDistinct
  <2>11. UsableNotRetired'
    <3> SUFFICES ASSUME NEW k \in KeySlots, keys'[k].state # "DEACTIVATED",
                        keys[k].psa \in retired'
                 PROVE  FALSE
      BY <2>5 DEF UsableNotRetired
    <3>1. CASE k \in named
      BY <2>4, <2>5, <2>7, <3>1 DEF KeyInv, UsableNotRetired
    <3>2. CASE k \notin named
      <4>1. keys[k].psa \notin retired
        BY <2>5, <3>2 DEF KeyInv, UsableNotRetired
      <4>2. PICK j \in named : keys[k].psa = keys[j].psa
        BY <2>7, <4>1
      <4> QED
        BY <2>4, <3>2, <4>2 DEF KeyInv, SlotsDistinct
    <3> QED
      BY <3>1, <3>2
  <2> QED
    BY <1>1, <2>6, <2>8, <2>9, <2>10, <2>11 DEF KeyInv
<1> QED
  BY <1>2, <1>3, <1>4

\* What the checks of process_otar establish of the entries of a PDU
LEMMA OtarEntries ==
    ASSUME NEW c, c.ids \in Seq(Nat), NEW fault \in Nat, OtarError(c, fault) = "OK"
    PROVE  \A i \in DOMAIN c.ids : c.ids[i] \in SessionSlots /\ ~Listed(c.ids, i)
<1> DEFINE errs == [i \in DOMAIN c.ids |-> OtarEntry(c.ids, i)]
<1>1. First(errs) = "OK"
  BY DEF OtarError
<1>2. DOMAIN errs \in SUBSET Nat
  OBVIOUS
<1>3. \A i \in DOMAIN errs : errs[i] = "OK"
  <2> HIDE DEF errs
  <2> QED
    BY <1>1, <1>2, FirstOk
<1> QED
  BY <1>3 DEF OtarEntry

LEMMA ImportedCount ==
    ASSUME nextObject \in Nat \ {0}, NEW n \in Nat
    PROVE  Cardinality(Imported(n)) = n
BY FS_Interval DEF Imported

\* process_otar
LEMMA OtarKeeps ==
    ASSUME KeyInv, scenario' = scenario, NEW c \in scenario.pdus, NEW fault \in Nat,
           ProcessOtar(c, fault)
    PROVE  KeyInv'
<1> DEFINE replaced == {keys[c.ids[i]].psa : i \in DOMAIN c.ids} \ {NullKey}
<1>1. c.ids \in Seq(Nat) /\ nextObject \in Nat \ {0}
  BY SlotFacts, ScenarioAssumption DEF ScenarioAssumption, KeyInv, Pdus
<1>2. \/ UNCHANGED << keys, objects, nextObject, stuck, retired >>
      \/ /\ fault \in 3 .. 2 + Len(c.ids) /\ UNCHANGED << keys, retired >>
         /\ nextObject' = nextObject + Cardinality(Imported(fault - 3))
      \/ /\ OtarError(c, fault) = "OK" /\ keys' = Install(c.ids)
         /\ nextObject' = nextObject + Cardinality(Imported(Len(c.ids)))
         /\ retired' = retired \cup replaced
  BY DEF ProcessOtar, Store, Rollback
<1>3. CASE UNCHANGED << keys, objects, nextObject, stuck, retired >>
  BY <1>3, CountersKeep DEF CountersMove, KeyInv
<1>4. CASE /\ fault \in 3 .. 2 + Len(c.ids) /\ UNCHANGED << keys, retired >>
           /\ nextObject' = nextObject + Cardinality(Imported(fault - 3))
  <2>1. nextObject' \in Nat /\ nextObject <= nextObject'
    <3>1. fault - 3 \in Nat
      BY <1>1, <1>4
    <3>2. nextObject' = nextObject + (fault - 3)
      BY <1>1, <1>4, <3>1, ImportedCount
    <3> QED
      BY <1>1, <3>1, <3>2
  <2>2. ObjectsOld'
    BY <1>1, <1>4, <2>1, SlotFacts DEF KeyInv, ObjectsOld
  <2> QED
    BY <1>4, <2>1, <2>2 DEF KeyInv, AbsentIsPreactive, SlotsDistinct, UsableNotRetired
<1>5. CASE /\ OtarError(c, fault) = "OK" /\ keys' = Install(c.ids)
           /\ nextObject' = nextObject + Cardinality(Imported(Len(c.ids)))
           /\ retired' = retired \cup replaced
  <2> DEFINE new == {c.ids[i] : i \in DOMAIN c.ids}
             at(k) == CHOOSE i \in DOMAIN c.ids : c.ids[i] = k
  <2>1. Len(c.ids) \in Nat /\ DOMAIN c.ids = 1 .. Len(c.ids)
    BY <1>1
  <2>2. nextObject' = nextObject + Len(c.ids) /\ nextObject' \in Nat
    BY <1>1, <1>5, <2>1, ImportedCount
  <2>3. \A k \in new : k \in KeySlots /\ at(k) \in 1 .. Len(c.ids) /\ c.ids[at(k)] = k
    <3>1. \A k \in new : k \in SessionSlots
      BY <1>1, <1>5, OtarEntries
    <3> QED
      BY <2>1, <3>1, SlotFacts
  <2>4. \A k \in KeySlots :
           keys'[k] = IF k \in new THEN [psa |-> nextObject + at(k) - 1,
                                         state |-> "PREACTIVE", txArsn |-> 0] ELSE keys[k]
    BY <1>5 DEF Install
  <2>5. DOMAIN keys' = KeySlots /\ keys' = [k \in KeySlots |-> keys'[k]]
    BY <1>5 DEF Install
  <2>6. \A p \in replaced : \E k \in new : keys[k].psa = p /\ p # NullKey
    OBVIOUS
  <2>7. 0 \in Arsns
    BY SdlsAssumption DEF SdlsAssumption, Arsns
  <2> HIDE DEF new, at, replaced
  <2>8. replaced \subseteq 1 .. nextObject - 1
    BY <2>3, <2>6, SlotFacts DEF NullKey
  <2>9. \A k \in new : /\ keys'[k] \in Key /\ keys'[k].state = "PREACTIVE"
                       /\ keys'[k].psa = nextObject + at(k) - 1
                       /\ keys'[k].psa \in nextObject .. nextObject' - 1
    <3> SUFFICES ASSUME NEW k \in new
                 PROVE  /\ keys'[k] \in Key /\ keys'[k].state = "PREACTIVE"
                        /\ keys'[k].psa = nextObject + at(k) - 1
                        /\ keys'[k].psa \in nextObject .. nextObject' - 1
      OBVIOUS
    <3>1. nextObject + at(k) - 1 \in Nat
      BY <1>1, <2>1, <2>3
    <3>2. nextObject + at(k) - 1 \in nextObject .. nextObject' - 1
      BY <1>1, <2>1, <2>2, <2>3
    <3>3. keys'[k] = [psa |-> nextObject + at(k) - 1, state |-> "PREACTIVE", txArsn |-> 0]
      BY <2>3, <2>4
    <3> QED
      BY <2>7, <3>1, <3>2, <3>3 DEF Key
  <2>10. \A k \in KeySlots \ new : keys'[k] = keys[k] /\ keys[k] \in Key
                                     /\ keys[k].psa \in 0 .. nextObject - 1
    BY <2>4, SlotFacts
  <2>11. keys' \in [KeySlots -> Key]
    BY <2>5, <2>9, <2>10
  <2>12. ObjectsOld'
    <3>1. nextObject <= nextObject'
      BY <1>1, <2>1, <2>2
    <3>2. ASSUME NEW k \in KeySlots PROVE keys'[k].psa < nextObject'
      <4>1. CASE k \in new
        BY <1>1, <2>2, <2>9, <4>1
      <4>2. CASE k \notin new
        BY <1>1, <2>2, <2>10, <3>1, <4>2
      <4> QED
        BY <4>1, <4>2
    <3>3. ASSUME NEW p \in retired' PROVE p \in 1 .. nextObject' - 1
      <4>1. p \in 1 .. nextObject - 1
        BY <1>5, <2>8, <3>3 DEF KeyInv, ObjectsOld
      <4> QED
        BY <1>1, <2>2, <3>1, <4>1
    <3> QED
      BY <3>2, <3>3 DEF ObjectsOld
  <2>13. AbsentIsPreactive'
    BY <2>9, <2>10 DEF KeyInv, AbsentIsPreactive
  <2>14. SlotsDistinct'
    <3> SUFFICES ASSUME NEW j \in KeySlots, NEW k \in KeySlots,
                        keys'[j].psa = keys'[k].psa, keys'[k].psa # NullKey
                 PROVE  j = k
      BY DEF SlotsDistinct
    <3>1. CASE j \in new /\ k \in new
      <4>1. at(j) = at(k)
        BY <1>1, <2>3, <2>9, <3>1
      <4> QED
        BY <2>3, <3>1, <4>1
    <3>2. CASE j \notin new /\ k \notin new
      BY <2>10, <3>2 DEF KeyInv, SlotsDistinct
    <3>3. CASE (j \in new) # (k \in new)
      BY <1>1, <2>2, <2>9, <2>10, <3>3
    <3> QED
      BY <3>1, <3>2, <3>3
  <2>15. UsableNotRetired'
    <3> SUFFICES ASSUME NEW k \in KeySlots, keys'[k].state # "DEACTIVATED",
                        keys'[k].psa \in retired \cup replaced
                 PROVE  FALSE
      BY <1>5 DEF UsableNotRetired
    <3>1. CASE k \in new
      BY <1>1, <2>2, <2>8, <2>9, <3>1 DEF KeyInv, ObjectsOld
    <3>2. CASE k \notin new
      <4>1. keys[k].psa \in replaced
        BY <2>10, <3>2 DEF KeyInv, UsableNotRetired
      <4> QED
        BY <2>3, <2>6, <3>2, <4>1 DEF KeyInv, SlotsDistinct
    <3> QED
      BY <3>1, <3>2
  <2> QED
    BY <2>2, <2>11, <2>12, <2>13, <2>14, <2>15 DEF KeyInv
<1> QED
  BY <1>2, <1>3, <1>4, <1>5

LEMMA KeyInit == Init => KeyInv
<1> SUFFICES ASSUME NEW s \in Scenarios, InitFrom(s) PROVE KeyInv
  BY DEF Init
<1>1. /\ scenario = s /\ keys = s.keys /\ nextObject = s.nextObject
      /\ retired = {s.keys[k].psa : k \in {j \in KeySlots : s.keys[j].state = "DEACTIVATED"}}
  BY DEF InitFrom
<1>2. /\ s.keys \in [KeySlots -> Key] /\ s.nextObject \in Nat
      /\ \A k \in KeySlots : /\ s.keys[k].psa < s.nextObject
                             /\ s.keys[k].psa = NullKey => s.keys[k].state = "PREACTIVE"
      /\ \A j, k \in KeySlots :
            s.keys[j].psa = s.keys[k].psa /\ s.keys[k].psa # NullKey => j = k
  BY ScenarioAssumption DEF ScenarioAssumption
<1>3. \A k \in KeySlots : s.keys[k].psa \in Nat
  BY <1>2 DEF Key
<1>4. ObjectsOld
  BY <1>1, <1>2, <1>3 DEF ObjectsOld, NullKey
<1>5. AbsentIsPreactive /\ SlotsDistinct
  BY <1>1, <1>2 DEF AbsentIsPreactive, SlotsDistinct
<1>6. UsableNotRetired
  BY <1>1, <1>2 DEF UsableNotRetired
<1> QED
  BY <1>1, <1>2, <1>4, <1>5, <1>6 DEF KeyInv

LEMMA KeyStep == KeyInv /\ [Next]_vars => KeyInv'
<1> SUFFICES ASSUME KeyInv, [Next]_vars PROVE KeyInv'
  OBVIOUS
<1>1. CASE UNCHANGED vars
  BY <1>1 DEF vars, keyVars, boundVars, KeyInv, ObjectsOld, AbsentIsPreactive, SlotsDistinct,
              UsableNotRetired
<1>2. CASE Next
  <2>1. /\ scenario' = scenario
        /\ \/ CountersMove
           \/ \E c \in scenario.pdus, fault \in Nat : ProcessOtar(c, fault)
           \/ \E c \in scenario.pdus, fault \in Nat : ProcessLifecycle(c, fault)
    BY <1>2, KeySteps DEF KeyInv
  <2> QED
    BY <2>1, CountersKeep, OtarKeeps, LifecycleKeeps
<1> QED
  BY <1>1, <1>2

\* A key object that was deactivated, or that an OTAR replaced, is never in an active
\* slot again, whatever procedures follow and whichever of their PSA calls fail.
THEOREM RetiredStaysRetiredHolds == Spec => []RetiredStaysRetired
<1>1. Init => KeyInv
  BY KeyInit
<1>2. KeyInv /\ [Next]_vars => KeyInv'
  BY KeyStep
<1>3. KeyInv => RetiredStaysRetired
  BY DEF KeyInv, UsableNotRetired, RetiredStaysRetired
<1> QED
  BY <1>1, <1>2, <1>3, PTL DEF Spec

\* The store behind the key table: no object is newer than the last import, the
\* table refers to live ones, and a volatile object is in the table or could not
\* be destroyed.
TableIsLive == \A k \in KeySlots : keys[k].psa # NullKey => keys[k].psa \in DOMAIN objects
VolatileInTable ==
    \A p \in DOMAIN objects :
       objects[p].volatile => p \in stuck \/ \E k \in KeySlots : keys[k].psa = p
StoreInv ==
    /\ \A p \in DOMAIN objects : p \in 1 .. nextObject - 1
    /\ TableIsLive /\ VolatileInTable

\* What Store leaves
LEMMA StoreIs ==
    ASSUME NEW imported, NEW doomed, NEW kept, Store(imported, doomed, kept)
    PROVE  /\ DOMAIN objects' = (DOMAIN objects \cup imported) \ (doomed \ kept)
           /\ \A p \in DOMAIN objects' : p \notin imported => objects'[p] = objects[p]
           /\ stuck' = stuck \cup kept
BY DEF Store

\* A failed OTAR: what it imported is gone, or could not be destroyed.
LEMMA RollbackKeepsStore ==
    ASSUME KeyInv, StoreInv, NEW n \in Nat, NEW kept \in SUBSET Imported(n),
           Rollback(n, kept), keys' = keys
    PROVE  StoreInv'
<1> DEFINE I == Imported(n)
<1>1. /\ DOMAIN objects' = (DOMAIN objects \cup I) \ (I \ kept)
      /\ \A p \in DOMAIN objects' : p \notin I => objects'[p] = objects[p]
      /\ stuck' = stuck \cup kept
  BY StoreIs DEF Rollback
<1>2. nextObject \in Nat \ {0} /\ nextObject' = nextObject + n
  BY SlotFacts, ImportedCount DEF Rollback, Store
<1>3. \A p \in I : p \in Nat /\ p >= nextObject /\ p < nextObject + n
  BY <1>2 DEF Imported
<1>4. \A p \in DOMAIN objects : p \in Nat /\ p > 0 /\ p < nextObject /\ p \notin I
  BY <1>2, <1>3 DEF StoreInv
<1> HIDE DEF I
<1>5. \A p \in DOMAIN objects' : p \in DOMAIN objects \/ (p \in I /\ p \in kept)
  BY <1>1
<1>6. \A p \in DOMAIN objects' : p \in 1 .. nextObject' - 1
  BY <1>2, <1>3, <1>4, <1>5
<1>7. TableIsLive'
  BY <1>1, <1>4 DEF TableIsLive, StoreInv
<1>8. VolatileInTable'
  <2> SUFFICES ASSUME NEW p \in DOMAIN objects', objects'[p].volatile
               PROVE  p \in stuck' \/ \E k \in KeySlots : keys'[k].psa = p
    BY DEF VolatileInTable
  <2>1. CASE p \in kept
    BY <1>1, <2>1
  <2>2. CASE p \notin kept
    <3>1. p \in DOMAIN objects /\ objects'[p] = objects[p]
      BY <1>1, <1>4, <1>5, <2>2
    <3> QED
      BY <1>1, <3>1 DEF VolatileInTable, StoreInv
  <2> QED
    BY <2>1, <2>2
<1> QED
  BY <1>6, <1>7, <1>8 DEF StoreInv

\* A successful OTAR: the table refers to what it imported, and the volatile objects
\* it replaced are gone, or could not be destroyed.
LEMMA InstallKeepsStore ==
    ASSUME KeyInv, StoreInv, NEW c, c.ids \in Seq(Nat), NEW fault \in Nat,
           OtarError(c, fault) = "OK", keys' = Install(c.ids),
           NEW replaced, replaced = {keys[c.ids[i]].psa : i \in DOMAIN c.ids} \ {NullKey},
           NEW kept, kept \subseteq Doomed(replaced),
           Store(Imported(Len(c.ids)), Doomed(replaced), kept)
    PROVE  StoreInv'
<1> DEFINE n == Len(c.ids)
           I == Imported(n)
           D == Doomed(replaced)
           new == {c.ids[i] : i \in DOMAIN c.ids}
           at(k) == CHOOSE i \in DOMAIN c.ids : c.ids[i] = k
<1>1. /\ DOMAIN objects' = (DOMAIN objects \cup I) \ (D \ kept)
      /\ \A p \in DOMAIN objects' : p \notin I => objects'[p] = objects[p]
      /\ stuck' = stuck \cup kept
  BY StoreIs
<1>2. n \in Nat /\ DOMAIN c.ids = 1 .. n
  OBVIOUS
<1>3. nextObject \in Nat \ {0} /\ nextObject' = nextObject + n
  BY <1>2, SlotFacts, ImportedCount DEF Store
<1>4. \A p : p \in I <=> p \in nextObject .. nextObject + n - 1
  BY DEF Imported
<1>5. \A p \in DOMAIN objects : p \in Nat /\ p > 0 /\ p < nextObject
  BY <1>3 DEF StoreInv
<1>6. \A i \in 1 .. n : c.ids[i] \in KeySlots /\ ~Listed(c.ids, i)
  BY <1>2, OtarEntries, SlotFacts
<1>7. \A k \in new : k \in KeySlots /\ at(k) \in 1 .. n /\ c.ids[at(k)] = k
  BY <1>2, <1>6
<1>8. ASSUME NEW i \in 1 .. n PROVE c.ids[i] \in new /\ at(c.ids[i]) = i
  <2> DEFINE j == at(c.ids[i])
  <2>1. c.ids[i] \in new /\ j \in 1 .. n /\ c.ids[j] = c.ids[i]
    BY <1>2, <1>7
  <2> HIDE DEF j
  <2>2. ~(j < i)
    BY <1>2, <1>6, <2>1 DEF Listed
  <2>3. ~(i < j)
    BY <1>2, <1>6, <2>1 DEF Listed
  <2>4. j = i
    BY <1>2, <2>1, <2>2, <2>3
  <2> QED
    BY <2>1, <2>4 DEF j
<1>9. \A k \in KeySlots : keys'[k].psa = IF k \in new THEN nextObject + at(k) - 1 ELSE keys[k].psa
  BY DEF Install
<1>10. \A p \in D : p \in DOMAIN objects /\ p \in replaced
  BY DEF Doomed
<1>11. \A p \in DOMAIN objects : objects[p].volatile /\ p \in replaced => p \in D
  BY DEF Doomed
<1>12. \A p \in replaced : \E k \in new : keys[k].psa = p /\ p # NullKey
  OBVIOUS
<1>13. \A k \in new : keys[k].psa # NullKey => keys[k].psa \in replaced
  OBVIOUS
<1> HIDE DEF n, I, D, new, at
<1>14. \A p \in DOMAIN objects : p \notin I
  BY <1>2, <1>3, <1>4, <1>5
<1>15. \A p \in DOMAIN objects' : p \in 1 .. nextObject' - 1
  BY <1>1, <1>2, <1>3, <1>4, <1>5
<1>16. TableIsLive'
  <2> SUFFICES ASSUME NEW k \in KeySlots, keys'[k].psa # NullKey PROVE keys'[k].psa \in DOMAIN objects'
    BY DEF TableIsLive
  <2>1. CASE k \in new
    <3>1. keys'[k].psa = nextObject + at(k) - 1 /\ at(k) \in 1 .. n
      BY <1>7, <1>9, <2>1
    <3>2. keys'[k].psa \in nextObject .. nextObject + n - 1
      BY <1>2, <1>3, <3>1
    <3>3. keys'[k].psa \in I /\ keys'[k].psa \notin D
      BY <1>4, <1>10, <1>14, <3>2
    <3> QED
      BY <1>1, <3>3
  <2>2. CASE k \notin new
    <3>1. keys'[k].psa = keys[k].psa /\ keys[k].psa \in DOMAIN objects
      BY <1>9, <2>2 DEF StoreInv, TableIsLive
    <3>2. keys[k].psa \notin replaced
      <4>1. ASSUME NEW j \in new, keys[j].psa = keys[k].psa, keys[k].psa # NullKey PROVE FALSE
        BY <1>7, <2>2, <4>1 DEF KeyInv, SlotsDistinct
      <4> QED
        BY <1>12, <4>1
    <3> QED
      BY <1>1, <1>10, <3>1, <3>2
  <2> QED
    BY <2>1, <2>2
<1>17. VolatileInTable'
  <2> SUFFICES ASSUME NEW p \in DOMAIN objects', objects'[p].volatile
               PROVE  p \in stuck' \/ \E k \in KeySlots : keys'[k].psa = p
    BY DEF VolatileInTable
  <2>1. CASE p \in I
    <3> DEFINE i == p - nextObject + 1
    <3>1. i \in 1 .. n /\ nextObject + i - 1 = p
      BY <1>2, <1>3, <1>4, <2>1
    <3> HIDE DEF i
    <3>2. c.ids[i] \in KeySlots /\ keys'[c.ids[i]].psa = p
      BY <1>6, <1>8, <1>9, <3>1
    <3> QED
      BY <3>2
  <2>2. CASE p \notin I
    <3>1. p \in DOMAIN objects /\ objects[p].volatile /\ (p \in D => p \in kept)
      BY <1>1, <2>2
    <3>2. CASE p \in stuck \/ p \in D
      BY <1>1, <3>1, <3>2
    <3>3. CASE p \notin stuck /\ p \notin D
      <4>1. PICK k \in KeySlots : keys[k].psa = p
        BY <3>1, <3>3 DEF StoreInv, VolatileInTable
      <4>2. p # NullKey
        BY <1>5, <3>1 DEF NullKey
      <4>3. k \notin new
        BY <1>11, <1>13, <3>1, <3>3, <4>1, <4>2
      <4> QED
        BY <1>9, <4>1, <4>3
    <3> QED
      BY <3>2, <3>3
  <2> QED
    BY <2>1, <2>2
<1> QED
  BY <1>15, <1>16, <1>17 DEF StoreInv

LEMMA OtarKeepsStore ==
    ASSUME KeyInv, StoreInv, NEW c \in scenario.pdus, NEW fault \in Nat, ProcessOtar(c, fault)
    PROVE  StoreInv'
<1> DEFINE replaced == {keys[c.ids[i]].psa : i \in DOMAIN c.ids} \ {NullKey}
<1>1. c.ids \in Seq(Nat)
  BY ScenarioAssumption DEF ScenarioAssumption, KeyInv, Pdus
<1>2. \A doomed : \A kept \in Kept(doomed) : kept \subseteq doomed
  BY DEF Kept
<1>3. CASE UNCHANGED << keys, objects, nextObject, stuck, retired >>
  BY <1>3 DEF StoreInv, TableIsLive, VolatileInTable
<1>4. CASE /\ fault \in 3 .. 2 + Len(c.ids) /\ keys' = keys
           /\ \E kept \in Kept(Imported(fault - 3)) : Rollback(fault - 3, kept)
  <2>1. fault - 3 \in Nat
    BY <1>1, <1>4
  <2> QED
    BY <1>2, <1>4, <2>1, RollbackKeepsStore
<1>5. CASE /\ OtarError(c, fault) = "OK" /\ keys' = Install(c.ids)
           /\ \E kept \in Kept(Doomed(replaced)) :
                 Store(Imported(Len(c.ids)), Doomed(replaced), kept)
  BY <1>1, <1>2, <1>5, InstallKeepsStore
<1> QED
  BY <1>3, <1>4, <1>5 DEF ProcessOtar

LEMMA StoreInit == Init => StoreInv
<1> SUFFICES ASSUME NEW s \in Scenarios, InitFrom(s) PROVE StoreInv
  BY DEF Init
<1>1. keys = s.keys /\ nextObject = s.nextObject /\ objects = s.objects
  BY DEF InitFrom
<1>2. /\ \A k \in KeySlots : s.keys[k].psa # NullKey => s.keys[k].psa \in DOMAIN s.objects
      /\ \A p \in DOMAIN s.objects :
            /\ p \in 1 .. s.nextObject - 1
            /\ s.objects[p].volatile => \E k \in KeySlots : s.keys[k].psa = p
  BY ScenarioAssumption DEF ScenarioAssumption
<1> QED
  BY <1>1, <1>2 DEF StoreInv, TableIsLive, VolatileInTable

LEMMA StoreStep == KeyInv /\ StoreInv /\ [Next]_vars => StoreInv'
<1> SUFFICES ASSUME KeyInv, StoreInv, [Next]_vars PROVE StoreInv'
  OBVIOUS
<1>1. CASE UNCHANGED vars
  BY <1>1 DEF vars, keyVars, StoreInv, TableIsLive, VolatileInTable
<1>2. CASE CountersMove
  BY <1>2 DEF CountersMove, StoreInv, TableIsLive, VolatileInTable
<1>3. CASE \E c \in scenario.pdus, fault \in Nat : ProcessOtar(c, fault)
  BY <1>3, OtarKeepsStore
<1>4. CASE \E c \in scenario.pdus, fault \in Nat : ProcessLifecycle(c, fault)
  <2>1. /\ UNCHANGED << objects, nextObject, stuck >>
        /\ \A k \in KeySlots : keys'[k].psa = keys[k].psa
    <3>1. PICK c \in scenario.pdus, fault \in Nat : ProcessLifecycle(c, fault)
      BY <1>4
    <3>2. UNCHANGED << objects, nextObject, stuck >>
      BY <3>1 DEF ProcessLifecycle
    <3> DEFINE named == {c.ids[i] : i \in DOMAIN c.ids}
               state == IF c.proc = "KEY_DEACTIVATION" THEN "DEACTIVATED" ELSE "ACTIVE"
    <3>3. \/ keys' = keys
          \/ keys' = [k \in KeySlots |-> IF k \in named THEN [keys[k] EXCEPT !.state = state]
                                         ELSE keys[k]]
      BY <3>1 DEF ProcessLifecycle
    <3> HIDE DEF named, state
    <3>4. \A k \in KeySlots : keys[k] \in Key
      BY SlotFacts
    <3> QED
      BY <3>2, <3>3, <3>4 DEF Key
  <2> QED
    BY <2>1 DEF StoreInv, TableIsLive, VolatileInTable
<1> QED
  BY <1>1, <1>2, <1>3, <1>4, KeySteps DEF KeyInv

\* The key table refers to live objects, no two slots share one, and no volatile
\* object is left over, whatever an OTAR replaces and whichever of its imports
\* fails: only an object whose destruction failed can stay behind.
THEOREM ObjectsBalancedHolds == Spec => []ObjectsBalanced
<1>1. Init => KeyInv /\ StoreInv
  BY KeyInit, StoreInit
<1>2. KeyInv /\ StoreInv /\ [Next]_vars => KeyInv' /\ StoreInv'
  BY KeyStep, StoreStep
<1>3. KeyInv /\ StoreInv => ObjectsBalanced
  <2> SUFFICES ASSUME KeyInv, StoreInv PROVE ObjectsBalanced
    OBVIOUS
  <2> DEFINE used == {k \in KeySlots : keys[k].psa # NullKey}
  <2>1. \A k \in used : keys[k].psa \in DOMAIN objects
    BY DEF StoreInv, TableIsLive
  <2>2. \A j, k \in used : keys[j].psa = keys[k].psa => j = k
    BY DEF KeyInv, SlotsDistinct
  <2>3. ASSUME NEW p \in DOMAIN objects, objects[p].volatile
        PROVE  p \in {keys[k].psa : k \in used} \cup stuck
    <3>1. p # NullKey
      BY SlotFacts DEF StoreInv, NullKey
    <3> QED
      BY <2>3, <3>1 DEF StoreInv, VolatileInTable
  <2> QED
    BY <2>1, <2>2, <2>3 DEF ObjectsBalanced
<1> QED
  BY <1>1, <1>2, <1>3, PTL DEF Spec

-------------------------------------------------------------------------------
(* Events *)

AuthFields == {"valid", "spi", "arsn", "dispatching"}

\* The inductive invariant of the events
EventInv ==
    /\ EventsAttributed
    /\ history \in Seq({history[i] : i \in DOMAIN history})
    /\ DOMAIN auth = AuthFields

\* An event a step may record: it names no frame that carried a PDU, or the frame of
\* the indication.
Attributable(e) ==
    e.tag \notin {"FRAME", "LOCAL"} => auth.valid /\ e.spi = auth.spi /\ e.arsn = auth.arsn

HistoryMoves ==
    \/ history' = history
    \/ history' = << >>
    \/ \E e : Attributable(e) /\ history' = Newest(Append(history, e))

\* The indication is kept, withdrawn, or given for a frame that is accepted.
IndicationMoves ==
    /\ carriers \subseteq carriers' /\ DOMAIN auth' = AuthFields
    /\ auth'.valid => \/ auth.valid /\ auth'.spi = auth.spi /\ auth'.arsn = auth.arsn
                      \/ << auth'.spi, auth'.arsn >> \in carriers'

LEMMA RecordMoves ==
    ASSUME NEW e, Attributable(e), RecordEvent(e) PROVE HistoryMoves
BY DEF RecordEvent, HistoryMoves

LEMMA ResultMoves == ASSUME NEW c, NEW err, LogResult(c, err) PROVE HistoryMoves
<1>1. CASE UNCHANGED << log, history >>
  BY <1>1 DEF HistoryMoves
<1>2. CASE RecordEvent(PduEvent(c, EpEventCode(c, err)))
  <2>1. Attributable(PduEvent(c, EpEventCode(c, err)))
    BY DEF Attributable, PduEvent
  <2> QED
    BY <1>2, <2>1, RecordMoves
<1> QED
  BY <1>1, <1>2 DEF LogResult

LEMMA ConsumeMoves ==
    ASSUME DOMAIN auth = AuthFields, ConsumeAuth, carriers' = carriers PROVE IndicationMoves
BY DEF ConsumeAuth, IndicationMoves, NoAuth, AuthFields

\* What every step does to the events and to the indication
LEMMA EventSteps ==
    ASSUME Next, DOMAIN auth = AuthFields PROVE HistoryMoves /\ IndicationMoves
<1>1. CASE \E f \in scenario.frames, fault \in BOOLEAN : ProcessSecurity(f, fault)
  <2>1. PICK f \in scenario.frames, fault \in BOOLEAN : ProcessSecurity(f, fault)
    BY <1>1
  <2>2. PICK err : AcceptFrame(f) \/ RefuseFrame(f, err)
    BY <2>1 DEF ProcessSecurity
  <2>3. CASE AcceptFrame(f)
    BY <2>3 DEF AcceptFrame, logVars, HistoryMoves, IndicationMoves, AuthFields
  <2>4. CASE RefuseFrame(f, err)
    <3>1. IndicationMoves
      BY <2>4 DEF RefuseFrame, saVars, AuthAfterRefusal, NoAuth, AuthFields,
                        IndicationMoves
    <3>2. \A e : e.tag = "FRAME" => Attributable(e)
      BY DEF Attributable
    <3>3. CASE UNCHANGED logVars
      BY <3>1, <3>3 DEF logVars, HistoryMoves
    <3>4. CASE RecordEvent([NoEvent EXCEPT !.tag = "FRAME", !.code = err])
      <4>1. [NoEvent EXCEPT !.tag = "FRAME", !.code = err].tag = "FRAME"
        BY DEF NoEvent
      <4> QED
        BY <3>1, <3>2, <3>4, <4>1, RecordMoves
    <3>5. CASE FailureEvent(f, err)
      <4>1. [tag |-> "FRAME", code |-> err, spi |-> f.spi, arsn |-> f.arsn].tag = "FRAME"
        OBVIOUS
      <4> QED
        BY <3>1, <3>2, <3>5, <4>1, RecordMoves DEF FailureEvent
    <3> QED
      BY <2>4, <3>3, <3>4, <3>5 DEF RefuseFrame
  <2> QED
    BY <2>2, <2>3, <2>4
<1>2. CASE BeginDispatch \/ Withdraw
  BY <1>2 DEF BeginDispatch, Withdraw, NoAuth, AuthFields, saVars, logVars, HistoryMoves,
              IndicationMoves
<1>3. CASE EndKeyVerification
  BY <1>3, ConsumeMoves DEF EndKeyVerification, saVars, logVars, HistoryMoves
<1>4. CASE \E s \in scenario.sends, fault \in BOOLEAN : ApplySecurity(s, fault)
  BY <1>4 DEF ApplySecurity, saVars, logVars, HistoryMoves, IndicationMoves
<1>5. CASE \E c \in scenario.pdus : \E fault \in 0 .. MaxCalls(c) : ProcessPdu(c, fault)
  <2>1. PICK c \in scenario.pdus, fault \in Nat : ProcessPdu(c, fault)
    BY <1>5
  <2>2. carriers' = carriers
    BY <2>1 DEF ProcessPdu, RejectPdu, KeyManagement, ProcessOtar, ProcessLifecycle,
                ProcessKeyInventory, BeginKeyVerification, SaManagement, ProcessStartSa,
                ProcessSaTransition, ProcessRekeySa, ProcessSetArsn, ProcessSetArsnWindow,
                ProcessReadSa, Monitoring, ProcessPing, ProcessLogStatus, ProcessDumpLog,
                ProcessEraseLog, ProcessSelfTest, ProcessAlarmFlagReset, saVars
  <2>3. ASSUME NEW err, NEW n, NEW answer, EndPdu(c, err, n, answer)
        PROVE  HistoryMoves /\ IndicationMoves
    BY <2>2, <2>3, ResultMoves, ConsumeMoves DEF EndPdu, Result
  <2>4. CASE RejectPdu(c)
    BY <2>3, <2>4 DEF RejectPdu
  <2>5. CASE KeyManagement(c, fault)
    <3>1. CASE ProcessOtar(c, fault)
      BY <2>3, <3>1 DEF ProcessOtar
    <3>2. CASE ProcessLifecycle(c, fault)
      BY <2>3, <3>2 DEF ProcessLifecycle
    <3>3. CASE \E room \in scenario.rooms : ProcessKeyInventory(c, fault, room)
      BY <2>3, <3>3 DEF ProcessKeyInventory
    <3>4. CASE BeginKeyVerification(c, fault)
      <4>1. CASE UNCHANGED << log, history, auth, reply, faults >>
        BY <2>2, <4>1 DEF HistoryMoves, IndicationMoves
      <4>2. CASE EndPdu(c, VerifyError(c, fault), fault, NoReply)
        BY <2>3, <4>2
      <4> QED
        BY <3>4, <4>1, <4>2 DEF BeginKeyVerification
    <3> QED
      BY <2>5, <3>1, <3>2, <3>3, <3>4 DEF KeyManagement
  <2>6. CASE SaManagement(c, fault)
    BY <2>3, <2>6 DEF SaManagement, ProcessStartSa, ProcessSaTransition, ProcessRekeySa,
                      ProcessSetArsn, ProcessSetArsnWindow, ProcessReadSa
  <2>7. CASE Monitoring(c)
    <3>1. ASSUME NEW room, ProcessEraseLog(c, room) PROVE HistoryMoves /\ IndicationMoves
      <4>1. CASE EndPdu(c, MonitoringError(c, 1, room), 0, NoReply)
        BY <2>3, <4>1
      <4>2. CASE ConsumeAuth /\ history' = << >>
        BY <2>2, <4>2, ConsumeMoves DEF HistoryMoves
      <4> QED
        BY <3>1, <4>1, <4>2 DEF ProcessEraseLog, Result
    <3>2. ASSUME NEW room, NEW test, ProcessSelfTest(c, room, test)
          PROVE  HistoryMoves /\ IndicationMoves
      <4>1. ConsumeAuth
        BY <3>2 DEF ProcessSelfTest, Result
      <4>2. Attributable(PduEvent(c, "SELF_TEST"))
        BY DEF Attributable, PduEvent
      <4>3. PICK err : RecordEvent(PduEvent(c, "SELF_TEST")) \/ LogResult(c, err)
        BY <3>2 DEF ProcessSelfTest
      <4>4. HistoryMoves
        BY <4>2, <4>3, RecordMoves, ResultMoves
      <4> QED
        BY <2>2, <4>1, <4>4, ConsumeMoves
    <3>3. ASSUME NEW room, ProcessPing(c, room) \/ ProcessLogStatus(c, room)
                             \/ ProcessDumpLog(c, room)
          PROVE  HistoryMoves /\ IndicationMoves
      BY <2>3, <3>3 DEF ProcessPing, ProcessLogStatus, ProcessDumpLog
    <3>4. CASE ProcessAlarmFlagReset(c)
      BY <2>3, <3>4 DEF ProcessAlarmFlagReset
    <3> QED
      BY <2>7, <3>1, <3>2, <3>3, <3>4 DEF Monitoring
  <2> QED
    BY <2>1, <2>4, <2>5, <2>6, <2>7 DEF ProcessPdu
<1> QED
  BY <1>1, <1>2, <1>3, <1>4, <1>5 DEF Next

\* Recording an event adds it, and may drop the oldest one.
LEMMA NewestElements ==
    ASSUME NEW S, NEW h \in Seq(S), NEW e
    PROVE  /\ Newest(Append(h, e)) \in Seq(S \cup {e})
           /\ \A i \in DOMAIN Newest(Append(h, e)) :
                 \/ Newest(Append(h, e))[i] = e
                 \/ \E j \in DOMAIN h : Newest(Append(h, e))[i] = h[j]
<1> DEFINE a == Append(h, e)
<1>1. a \in Seq(S \cup {e}) /\ a # << >>
  OBVIOUS
<1>2. \A i \in DOMAIN a : a[i] = e \/ \E j \in DOMAIN h : a[i] = h[j]
  OBVIOUS
<1> HIDE DEF a
<1>3. Tail(a) \in Seq(S \cup {e}) /\ \A i \in DOMAIN Tail(a) : \E j \in DOMAIN a : Tail(a)[i] = a[j]
  BY <1>1
<1>4. Newest(a) \in {a, Tail(a)}
  BY DEF Newest
<1>5. /\ Newest(a) \in Seq(S \cup {e})
      /\ \A i \in DOMAIN Newest(a) : Newest(a)[i] = e \/ \E j \in DOMAIN h : Newest(a)[i] = h[j]
  BY <1>1, <1>2, <1>3, <1>4, SMTT(40)
<1> QED
  BY <1>5 DEF a

LEMMA EventStep == EventInv /\ [Next]_vars => EventInv'
<1> SUFFICES ASSUME EventInv, [Next]_vars PROVE EventInv'
  OBVIOUS
<1>1. CASE UNCHANGED vars
  BY <1>1 DEF vars, saVars, logVars, EventInv, EventsAttributed
<1>2. CASE Next
  <2>1. HistoryMoves /\ IndicationMoves
    BY <1>2, EventSteps DEF EventInv
  <2>2. auth'.valid => << auth'.spi, auth'.arsn >> \in carriers'
    BY <2>1 DEF IndicationMoves, EventInv, EventsAttributed
  <2>3. carriers \subseteq carriers' /\ DOMAIN auth' = AuthFields
    BY <2>1 DEF IndicationMoves
  <2>4. CASE history' = history
    BY <2>2, <2>3, <2>4 DEF EventInv, EventsAttributed
  <2>5. CASE history' = << >>
    BY <2>2, <2>3, <2>5 DEF EventInv, EventsAttributed
  <2>6. ASSUME NEW e, Attributable(e), history' = Newest(Append(history, e)) PROVE EventInv'
    <3> DEFINE S == {history[i] : i \in DOMAIN history}
    <3>1. history \in Seq(S)
      BY DEF EventInv
    <3> HIDE DEF S
    <3>2. /\ history' \in Seq(S \cup {e})
          /\ \A i \in DOMAIN history' :
                history'[i] = e \/ \E j \in DOMAIN history : history'[i] = history[j]
      BY <2>6, <3>1, NewestElements
    <3>3. history' \in Seq({history'[i] : i \in DOMAIN history'})
      BY <3>2
    <3>4. e.tag \notin {"FRAME", "LOCAL"} => << e.spi, e.arsn >> \in carriers
      BY <2>6 DEF Attributable, EventInv, EventsAttributed
    <3>5. \A j \in DOMAIN history : history[j].tag \notin {"FRAME", "LOCAL"} =>
             << history[j].spi, history[j].arsn >> \in carriers
      BY DEF EventInv, EventsAttributed
    <3>6. ASSUME NEW i \in DOMAIN history', history'[i].tag \notin {"FRAME", "LOCAL"}
          PROVE  << history'[i].spi, history'[i].arsn >> \in carriers'
      BY <2>3, <3>2, <3>4, <3>5, <3>6
    <3> QED
      BY <2>2, <2>3, <3>3, <3>6 DEF EventInv, EventsAttributed
  <2> QED
    BY <2>1, <2>4, <2>5, <2>6 DEF HistoryMoves
<1> QED
  BY <1>1, <1>2

\* An event that names a carrying frame names one that was accepted, for every
\* capacity of the log and whatever arrives in between.
THEOREM EventsAttributedHolds == Spec => []EventsAttributed
<1>1. Init => EventInv
  BY DEF Init, InitFrom, NoAuth, AuthFields, EventInv, EventsAttributed
<1>2. EventInv /\ [Next]_vars => EventInv'
  BY EventStep
<1>3. EventInv => EventsAttributed
  BY DEF EventInv
<1> QED
  BY <1>1, <1>2, <1>3, PTL DEF Spec

-------------------------------------------------------------------------------
(* Security monitoring: the ring *)

\* Where the i-th place after place r of the ring is
Place(r, i) == IF r + i < LogCapacity THEN r + i ELSE r + i - LogCapacity

LEMMA Capacity == LogCapacity \in Nat \ {0} /\ OverwriteMax \in Nat \ {0}
BY SdlsAssumption DEF SdlsAssumption

LEMMA ModBelow == ASSUME NEW n \in Nat \ {0}, NEW x \in 0 .. n - 1 PROVE x % n = x
OBVIOUS

LEMMA ModAbove == ASSUME NEW n \in Nat \ {0}, NEW x \in n .. 2 * n - 1 PROVE x % n = x - n
OBVIOUS

LEMMA PlaceIs ==
    ASSUME NEW r \in 0 .. LogCapacity - 1, NEW i \in 0 .. LogCapacity
    PROVE  /\ (r + i) % LogCapacity = Place(r, i)
           /\ Place(r, i) \in 0 .. LogCapacity - 1
<1>1. CASE r + i < LogCapacity
  <2>1. r + i \in 0 .. LogCapacity - 1
    BY <1>1, Capacity
  <2> QED
    BY <1>1, <2>1, ModBelow, Capacity DEF Place
<1>2. CASE ~(r + i < LogCapacity)
  <2>1. r + i \in LogCapacity .. 2 * LogCapacity - 1
    BY <1>2, Capacity
  <2>2. (r + i) % LogCapacity = (r + i) - LogCapacity
    BY <2>1, ModAbove, Capacity
  <2> QED
    BY <1>2, <2>1, <2>2, Capacity DEF Place
<1> QED
  BY <1>1, <1>2

\* Places of different distance from r differ, and one step on from r is one nearer.
LEMMA PlacesDiffer ==
    ASSUME NEW r \in 0 .. LogCapacity - 1, NEW i \in 0 .. LogCapacity - 1,
           NEW j \in 0 .. LogCapacity - 1, i # j
    PROVE  Place(r, i) # Place(r, j)
BY Capacity DEF Place

LEMMA PlaceAfter ==
    ASSUME NEW r \in 0 .. LogCapacity - 1, NEW i \in 0 .. LogCapacity - 1
    PROVE  Place(Place(r, i), 1) = Place(r, i + 1)
<1>1. CASE r + i < LogCapacity
  BY <1>1, Capacity DEF Place
<1>2. CASE ~(r + i < LogCapacity)
  BY <1>2, Capacity DEF Place
<1> QED
  BY <1>1, <1>2

LEMMA PlaceOneOn ==
    ASSUME NEW r \in 0 .. LogCapacity - 1, NEW i \in 0 .. LogCapacity - 1
    PROVE  /\ Place(r, 1) \in 0 .. LogCapacity - 1
           /\ i < LogCapacity - 1 => Place(Place(r, 1), i) = Place(r, i + 1)
           /\ i = LogCapacity - 1 => Place(Place(r, 1), i) = r
BY Capacity DEF Place

\* The ring within its limits, with the events of the history from its oldest place on
LogFields == {"events", "read", "write", "count", "overwrites"}
RingInv ==
    /\ DOMAIN log = LogFields /\ DOMAIN log.events = 0 .. LogCapacity - 1
    /\ log.read \in 0 .. LogCapacity - 1 /\ log.count \in 0 .. LogCapacity
    /\ log.overwrites \in 0 .. OverwriteMax
    /\ log.write = Place(log.read, log.count) /\ log.write \in 0 .. LogCapacity - 1
    /\ Len(history) = log.count
    /\ \A i \in 1 .. log.count : history[i] = log.events[Place(log.read, i - 1)]

HistoryIsSeq == history \in Seq({history[i] : i \in DOMAIN history})

\* What an event changes in the ring
LEMMA RecordIs ==
    ASSUME RingInv, NEW e, log' = EventRecord(log, e)
    PROVE  /\ DOMAIN log' = LogFields /\ DOMAIN log'.events = 0 .. LogCapacity - 1
           /\ log'.events[log.write] = e
           /\ \A p \in 0 .. LogCapacity - 1 : p # log.write => log'.events[p] = log.events[p]
           /\ log'.write = Place(log.write, 1)
           /\ log.count = LogCapacity =>
                /\ log'.count = log.count /\ log'.read = Place(log.read, 1)
                /\ log'.overwrites \in 0 .. OverwriteMax /\ log'.overwrites > 0
           /\ log.count # LogCapacity =>
                /\ log'.count = log.count + 1 /\ log'.read = log.read
                /\ log'.overwrites = log.overwrites
<1> DEFINE full == log.count = LogCapacity
<1>1. /\ DOMAIN log' = LogFields
      /\ log'.events = [log.events EXCEPT ![log.write] = e]
      /\ log'.write = (log.write + 1) % LogCapacity
      /\ log'.count = IF full THEN log.count ELSE log.count + 1
      /\ log'.read = IF full THEN (log.read + 1) % LogCapacity ELSE log.read
      /\ log'.overwrites = IF full /\ log.overwrites # OverwriteMax THEN log.overwrites + 1
                           ELSE log.overwrites
  BY DEF RingInv, EventRecord, LogFields
<1>2. 1 \in 0 .. LogCapacity
  BY Capacity
<1>3. /\ (log.write + 1) % LogCapacity = Place(log.write, 1)
      /\ (log.read + 1) % LogCapacity = Place(log.read, 1)
  BY <1>2, PlaceIs DEF RingInv
<1>4. full => log'.overwrites \in 0 .. OverwriteMax /\ log'.overwrites > 0
  <2>1. log.overwrites \in 0 .. OverwriteMax /\ OverwriteMax \in Nat \ {0}
    BY Capacity DEF RingInv
  <2>2. full => log'.overwrites = IF log.overwrites # OverwriteMax THEN log.overwrites + 1
                                  ELSE log.overwrites
    BY <1>1
  <2> QED
    BY <2>1, <2>2
<1>5. /\ DOMAIN log'.events = 0 .. LogCapacity - 1 /\ log'.events[log.write] = e
      /\ \A p \in 0 .. LogCapacity - 1 : p # log.write => log'.events[p] = log.events[p]
  BY <1>1 DEF RingInv
<1> QED
  BY <1>1, <1>3, <1>4, <1>5

\* What it changes in the history
LEMMA NewestIs ==
    ASSUME HistoryIsSeq, NEW e, Len(history) \in 0 .. LogCapacity,
           history' = Newest(Append(history, e))
    PROVE  /\ Len(history) < LogCapacity =>
                /\ Len(history') = Len(history) + 1 /\ history'[Len(history) + 1] = e
                /\ \A i \in 1 .. Len(history) : history'[i] = history[i]
           /\ Len(history) = LogCapacity =>
                /\ Len(history') = LogCapacity /\ history'[LogCapacity] = e
                /\ \A i \in 1 .. LogCapacity - 1 : history'[i] = history[i + 1]
<1> DEFINE S == {history[i] : i \in DOMAIN history} \cup {e}
           h == Append(history, e)
           n == Len(history)
<1>1. n \in Nat /\ history \in Seq(S) /\ e \in S
  <2>1. Seq({history[i] : i \in DOMAIN history}) \subseteq Seq(S)
    OBVIOUS
  <2> QED
    BY <2>1 DEF HistoryIsSeq
<1> HIDE DEF S
<1>2. h \in Seq(S) /\ Len(h) = n + 1 /\ h[n + 1] = e /\ \A i \in 1 .. n : h[i] = history[i]
  BY <1>1
<1> HIDE DEF h, n
<1>3. history' = IF n + 1 <= LogCapacity THEN h ELSE Tail(h)
  BY <1>2 DEF Newest, h
<1>4. CASE n < LogCapacity
  <2>1. history' = h /\ n # LogCapacity
    BY <1>1, <1>3, <1>4, Capacity
  <2> QED
    BY <1>2, <1>4, <2>1 DEF n
<1>5. CASE n = LogCapacity
  <2>1. history' = Tail(h) /\ ~(n < LogCapacity)
    BY <1>1, <1>3, <1>5, Capacity
  <2>2. h # << >> /\ Len(h) = LogCapacity + 1
    BY <1>1, <1>2, <1>5, Capacity
  <2>3. Len(Tail(h)) = LogCapacity /\ \A i \in 1 .. LogCapacity : Tail(h)[i] = h[i + 1]
    BY <1>2, <2>2, Capacity
  <2>4. LogCapacity \in 1 .. LogCapacity
        /\ \A i \in 1 .. LogCapacity - 1 : i \in 1 .. LogCapacity /\ i + 1 \in 1 .. n
    BY <1>5, Capacity
  <2> QED
    BY <1>2, <1>5, <2>1, <2>3, <2>4 DEF n
<1> QED
  BY <1>1, <1>4, <1>5, Capacity DEF n

\* ccsds_sdls_event_record keeps the newest events, also in a ring that is full.
LEMMA RecordKeepsRing ==
    ASSUME RingInv, HistoryIsSeq, NEW e, log' = EventRecord(log, e),
           history' = Newest(Append(history, e))
    PROVE  RingInv'
<1> DEFINE C == LogCapacity
           r == log.read
           n == log.count
<1>1. C \in Nat \ {0} /\ r \in 0 .. C - 1 /\ n \in 0 .. C /\ Len(history) = n
      /\ log.write = Place(r, n) /\ log.write \in 0 .. C - 1
      /\ \A i \in 1 .. n : history[i] = log.events[Place(r, i - 1)]
  BY Capacity DEF RingInv
<1>2. \A i \in 0 .. C : Place(r, i) \in 0 .. C - 1
  BY <1>1, PlaceIs
<1>3. CASE n < C
  <2>1. /\ log'.count = n + 1 /\ log'.read = r /\ log'.overwrites = log.overwrites
        /\ log'.write = Place(log.write, 1)
    BY <1>1, <1>3, RecordIs
  <2>2. log'.write = Place(r, n + 1) /\ log'.write \in 0 .. C - 1
    <3>1. n \in 0 .. C - 1 /\ n + 1 \in 0 .. C
      BY <1>1, <1>3
    <3>2. Place(Place(r, n), 1) = Place(r, n + 1)
      BY <1>1, <3>1, PlaceAfter
    <3> QED
      BY <1>1, <1>2, <2>1, <3>1, <3>2
  <2>3. /\ Len(history') = n + 1 /\ history'[n + 1] = e
        /\ \A i \in 1 .. n : history'[i] = history[i]
    BY <1>1, <1>3, NewestIs
  <2>4. ASSUME NEW i \in 1 .. n + 1 PROVE history'[i] = log'.events[Place(r, i - 1)]
    <3>1. CASE i = n + 1
      <4>1. i - 1 = n
        BY <1>1, <3>1
      <4> QED
        BY <1>1, <2>3, <3>1, <4>1, RecordIs
    <3>2. CASE i # n + 1
      <4>1. i \in 1 .. n /\ i - 1 \in 0 .. C - 1 /\ n \in 0 .. C - 1 /\ i - 1 # n /\ i - 1 \in 0 .. C
        BY <1>1, <1>3, <3>2
      <4>2. Place(r, i - 1) # log.write
        BY <1>1, <4>1, PlacesDiffer
      <4>3. log'.events[Place(r, i - 1)] = log.events[Place(r, i - 1)]
        BY <1>2, <4>1, <4>2, RecordIs
      <4> QED
        BY <1>1, <2>3, <4>1, <4>3
    <3> QED
      BY <3>1, <3>2
  <2>5. n + 1 \in 0 .. C
    BY <1>1, <1>3
  <2>6. DOMAIN log' = LogFields /\ DOMAIN log'.events = 0 .. C - 1
    BY RecordIs
  <2> QED
    BY <1>1, <2>1, <2>2, <2>3, <2>4, <2>5, <2>6 DEF RingInv
<1>4. CASE n = C
  <2>1. /\ log'.count = C /\ log'.read = Place(r, 1) /\ log'.overwrites \in 0 .. OverwriteMax
        /\ log'.write = Place(log.write, 1)
    BY <1>4, RecordIs
  <2>2. log.write = r
    BY <1>1, <1>4 DEF Place
  <2>3. /\ log'.write = Place(log'.read, C) /\ log'.write \in 0 .. C - 1
        /\ log'.read \in 0 .. C - 1
    <3>1. Place(r, 1) \in 0 .. C - 1
      BY <1>1, <1>2
    <3>2. \A p \in 0 .. C - 1 : Place(p, C) = p
      BY <1>1 DEF Place
    <3> QED
      BY <2>1, <2>2, <3>1, <3>2
  <2>4. /\ Len(history') = C /\ history'[C] = e
        /\ \A i \in 1 .. C - 1 : history'[i] = history[i + 1]
    BY <1>1, <1>4, NewestIs
  <2>5. ASSUME NEW i \in 1 .. C PROVE history'[i] = log'.events[Place(log'.read, i - 1)]
    <3>0. i - 1 \in 0 .. C - 1
      BY <1>1
    <3>1. CASE i = C
      <4>1. Place(log'.read, i - 1) = r
        BY <1>1, <2>1, <3>0, <3>1, PlaceOneOn
      <4> QED
        BY <2>2, <2>4, <3>1, <4>1, RecordIs
    <3>2. CASE i # C
      <4>1. i \in 1 .. C - 1 /\ i - 1 < C - 1 /\ (i - 1) + 1 = i /\ i \in 0 .. C - 1 /\ i \in 0 .. C
            /\ 0 \in 0 .. C - 1 /\ i # 0 /\ i + 1 \in 1 .. n /\ (i + 1) - 1 = i
        BY <1>1, <1>4, <3>2
      <4>2. Place(log'.read, i - 1) = Place(r, i)
        <5>1. Place(Place(r, 1), i - 1) = Place(r, (i - 1) + 1)
          BY <1>1, <3>0, <4>1, PlaceOneOn
        <5> QED
          BY <2>1, <4>1, <5>1
      <4>3. Place(r, 0) = r
        BY <1>1 DEF Place
      <4>4. Place(r, i) # r
        BY <1>1, <4>1, <4>3, PlacesDiffer
      <4>5. log'.events[Place(r, i)] = log.events[Place(r, i)]
        BY <1>2, <2>2, <4>1, <4>4, RecordIs
      <4>6. history[i + 1] = log.events[Place(r, i)]
        BY <1>1, <4>1
      <4> QED
        BY <2>4, <4>1, <4>2, <4>5, <4>6
    <3> QED
      BY <3>1, <3>2
  <2>6. C \in 0 .. C
    BY <1>1
  <2>7. DOMAIN log' = LogFields /\ DOMAIN log'.events = 0 .. C - 1
    BY RecordIs
  <2> QED
    BY <2>1, <2>3, <2>4, <2>5, <2>6, <2>7 DEF RingInv
<1> QED
  BY <1>1, <1>3, <1>4

LEMMA EmptyRing == ASSUME log = EmptyLog, history = << >> PROVE RingInv
<1>1. Place(0, 0) = 0 /\ 0 \in 0 .. LogCapacity - 1 /\ 0 \in 0 .. OverwriteMax
  BY Capacity DEF Place
<1> QED
  BY <1>1, Capacity DEF EmptyLog, RingInv, LogFields

\* Then Dump Log reads the history.
LEMMA RingIsHistory == ASSUME RingInv, HistoryIsSeq PROVE LogIsNewest
<1>1. ASSUME NEW i \in 1 .. log.count
      PROVE  history[i] = log.events[(log.read + i - 1) % LogCapacity]
  <2>1. i - 1 \in 0 .. LogCapacity /\ log.read + i - 1 = log.read + (i - 1)
    BY Capacity DEF RingInv
  <2> QED
    BY <2>1, PlaceIs DEF RingInv
<1>2. history = [i \in 1 .. log.count |-> history[i]]
  BY DEF HistoryIsSeq, RingInv
<1> QED
  BY <1>1, <1>2 DEF LogIsNewest, Dump

-------------------------------------------------------------------------------
(* Security monitoring: the steps *)

FsrFields == {"alarm", "badSequence", "badMac", "badSa", "spi", "arsn"}

\* The step raises no alarm, and does not touch the mark that the log was erased.
RaisesNone ==
    /\ DOMAIN fsr' = FsrFields /\ fsr'.alarm \in {fsr.alarm, FALSE} /\ erased' = erased

\* What a step may do to log and alarm: nothing, record an event, raise the alarm with
\* its event, or erase the log.
LogMoves ==
    \/ RaisesNone /\ UNCHANGED << log, history >>
    \/ RaisesNone /\ \E e : RecordEvent(e)
    \/ /\ DOMAIN fsr' = FsrFields /\ fsr'.alarm = TRUE /\ erased' = FALSE
       /\ \E e : e.tag = "FRAME" /\ e.code # "FORMAT" /\ RecordEvent(e)
    \/ fsr' = fsr /\ erased' = TRUE /\ log' = EmptyLog /\ history' = << >>

LEMMA EndPduMoves ==
    ASSUME NEW c, NEW err, NEW n, NEW answer, EndPdu(c, err, n, answer), RaisesNone
    PROVE  LogMoves
BY DEF EndPdu, LogResult, LogMoves

LEMMA PduLogMoves ==
    ASSUME DOMAIN fsr = FsrFields, NEW c, NEW fault, ProcessPdu(c, fault)
    PROVE  LogMoves
<1>1. ASSUME UNCHANGED << fsr, erased >> PROVE RaisesNone
  BY <1>1 DEF RaisesNone
<1>2. ASSUME NEW err, NEW n, NEW answer, EndPdu(c, err, n, answer), UNCHANGED << fsr, erased >>
      PROVE  LogMoves
  BY <1>1, <1>2, EndPduMoves
<1>3. CASE RejectPdu(c)
  BY <1>2, <1>3 DEF RejectPdu
<1>4. CASE KeyManagement(c, fault)
  <2>1. CASE ProcessOtar(c, fault)
    BY <1>2, <2>1 DEF ProcessOtar
  <2>2. CASE ProcessLifecycle(c, fault)
    BY <1>2, <2>2 DEF ProcessLifecycle
  <2>3. CASE \E room \in scenario.rooms : ProcessKeyInventory(c, fault, room)
    BY <1>2, <2>3 DEF ProcessKeyInventory
  <2>4. CASE BeginKeyVerification(c, fault)
    <3>1. UNCHANGED << fsr, erased >>
      BY <2>4 DEF BeginKeyVerification
    <3>2. CASE UNCHANGED << log, history, auth, reply, faults >>
      BY <1>1, <3>1, <3>2 DEF LogMoves
    <3>3. CASE EndPdu(c, VerifyError(c, fault), fault, NoReply)
      BY <1>2, <3>1, <3>3
    <3> QED
      BY <2>4, <3>2, <3>3 DEF BeginKeyVerification
  <2> QED
    BY <1>4, <2>1, <2>2, <2>3, <2>4 DEF KeyManagement
<1>5. CASE SaManagement(c, fault)
  BY <1>2, <1>5 DEF SaManagement, ProcessStartSa, ProcessSaTransition, ProcessRekeySa,
                    ProcessSetArsn, ProcessSetArsnWindow, ProcessReadSa
<1>6. CASE Monitoring(c)
  <2>1. ASSUME NEW room, ProcessEraseLog(c, room) PROVE LogMoves
    <3>1. fsr' = fsr
      BY <2>1 DEF ProcessEraseLog
    <3>2. CASE EndPdu(c, MonitoringError(c, 1, room), 0, NoReply) /\ UNCHANGED erased
      BY <1>2, <3>1, <3>2
    <3>3. CASE log' = Erased(log) /\ history' = << >> /\ erased' = TRUE
      BY <3>1, <3>3 DEF LogMoves, Erased
    <3> QED
      BY <2>1, <3>2, <3>3 DEF ProcessEraseLog
  <2>2. ASSUME NEW room, NEW test, ProcessSelfTest(c, room, test) PROVE LogMoves
    <3>1. RaisesNone
      BY <1>1, <2>2 DEF ProcessSelfTest
    <3>2. PICK err : RecordEvent(PduEvent(c, "SELF_TEST")) \/ LogResult(c, err)
      BY <2>2 DEF ProcessSelfTest
    <3> QED
      BY <3>1, <3>2 DEF LogResult, LogMoves
  <2>3. ASSUME NEW room, ProcessPing(c, room) \/ ProcessLogStatus(c, room)
                           \/ ProcessDumpLog(c, room)
        PROVE  LogMoves
    BY <1>2, <2>3 DEF ProcessPing, ProcessLogStatus, ProcessDumpLog
  <2>4. CASE ProcessAlarmFlagReset(c)
    <3>1. /\ EndPdu(c, DecodeError(c), 0, NoReply) /\ erased' = erased
          /\ fsr' = IF DecodeError(c) # "OK" THEN fsr
                    ELSE [fsr EXCEPT !.alarm = FALSE, !.badSequence = FALSE,
                                     !.badMac = FALSE, !.badSa = FALSE]
      BY <2>4 DEF ProcessAlarmFlagReset
    <3>2. RaisesNone
      BY <3>1 DEF RaisesNone, FsrFields
    <3> QED
      BY <3>1, <3>2, EndPduMoves
  <2> QED
    BY <1>6, <2>1, <2>2, <2>3, <2>4 DEF Monitoring
<1> QED
  BY <1>3, <1>4, <1>5, <1>6 DEF ProcessPdu

\* What every step does to log and alarm
LEMMA LogSteps == ASSUME Next, DOMAIN fsr = FsrFields PROVE LogMoves
<1>1. CASE \E f \in scenario.frames, fault \in BOOLEAN : ProcessSecurity(f, fault)
  <2>1. PICK f \in scenario.frames, fault \in BOOLEAN : ProcessSecurity(f, fault)
    BY <1>1
  <2>2. PICK err : AcceptFrame(f) \/ RefuseFrame(f, err)
    BY <2>1 DEF ProcessSecurity
  <2>3. CASE AcceptFrame(f)
    BY <2>3 DEF AcceptFrame, logVars, LogMoves, RaisesNone, FsrFields
  <2>4. CASE UNCHANGED << fsr, logVars >>
    BY <2>4 DEF logVars, LogMoves, RaisesNone
  <2>5. CASE /\ RecordEvent([NoEvent EXCEPT !.tag = "FRAME", !.code = err])
             /\ UNCHANGED << fsr, erased >>
    BY <2>5 DEF LogMoves, RaisesNone
  <2>6. CASE /\ err \notin {"PSA", "FORMAT"} /\ FailureEvent(f, err) /\ erased' = FALSE
             /\ fsr' = [fsr EXCEPT
                          !.alarm = TRUE, !.spi = f.spi,
                          !.badSequence = @ \/ err \in {"STALE_ARSN", "ARSN_GAP"},
                          !.badMac = @ \/ err = "AUTHENTICATION",
                          !.badSa = @ \/ err \in {"UNKNOWN_SA", "SA_STATE", "KEY"}]
    <3> DEFINE e == [tag |-> "FRAME", code |-> err, spi |-> f.spi, arsn |-> f.arsn]
    <3>1. e.tag = "FRAME" /\ e.code # "FORMAT" /\ RecordEvent(e)
      BY <2>6 DEF FailureEvent
    <3>2. DOMAIN fsr' = FsrFields /\ fsr'.alarm = TRUE
      BY <2>6 DEF FsrFields
    <3> HIDE DEF e
    <3> QED
      BY <2>6, <3>1, <3>2 DEF LogMoves
  <2> QED
    BY <2>2, <2>3, <2>4, <2>5, <2>6 DEF RefuseFrame
<1>2. CASE BeginDispatch \/ Withdraw
  BY <1>2 DEF BeginDispatch, Withdraw, logVars, LogMoves, RaisesNone
<1>3. CASE EndKeyVerification
  BY <1>3 DEF EndKeyVerification, logVars, LogMoves, RaisesNone
<1>4. CASE \E s \in scenario.sends, fault \in BOOLEAN : ApplySecurity(s, fault)
  BY <1>4 DEF ApplySecurity, logVars, LogMoves, RaisesNone
<1>5. CASE \E c \in scenario.pdus : \E fault \in 0 .. MaxCalls(c) : ProcessPdu(c, fault)
  BY <1>5, PduLogMoves
<1> QED
  BY <1>1, <1>2, <1>3, <1>4, <1>5 DEF Next

\* An alarm has its cause in the history.
CauseIn(h) == \E i \in DOMAIN h : h[i].tag = "FRAME" /\ h[i].code # "FORMAT"
Explained == fsr.alarm => erased \/ log.overwrites > 0 \/ CauseIn(history)

\* The inductive invariant of log and alarm
LogInv ==
    /\ RingInv /\ Explained /\ {erased, fsr.alarm} \subseteq BOOLEAN /\ DOMAIN fsr = FsrFields

\* Recording an event loses the cause of an alarm only to an overwrite, which is counted.
LEMMA RecordKeepsCause ==
    ASSUME RingInv, HistoryIsSeq, NEW e, RecordEvent(e)
    PROVE  /\ log.overwrites > 0 \/ CauseIn(history) => log'.overwrites > 0 \/ CauseIn(history')
           /\ e.tag = "FRAME" /\ e.code # "FORMAT" => CauseIn(history')
<1>1. /\ log' = EventRecord(log, e) /\ history' = Newest(Append(history, e))
      /\ Len(history) = log.count /\ log.count \in 0 .. LogCapacity
  BY DEF RecordEvent, RingInv
<1>2. \E i \in DOMAIN history' : history'[i] = e
  <2>1. history' \in Seq({history[i] : i \in DOMAIN history} \cup {e})
    BY <1>1, NewestElements DEF HistoryIsSeq
  <2>2. DOMAIN history' = 1 .. Len(history')
    BY <2>1
  <2>3. CASE Len(history) = LogCapacity
    <3>1. Len(history') = LogCapacity /\ history'[LogCapacity] = e
      BY <1>1, <2>3, NewestIs
    <3>2. LogCapacity \in DOMAIN history'
      BY <2>2, <3>1, Capacity
    <3> QED
      BY <3>1, <3>2
  <2>4. CASE Len(history) < LogCapacity
    <3>1. Len(history') = Len(history) + 1 /\ history'[Len(history) + 1] = e
      BY <1>1, <2>4, NewestIs
    <3>2. Len(history) + 1 \in DOMAIN history'
      BY <1>1, <2>2, <3>1
    <3> QED
      BY <3>1, <3>2
  <2> QED
    BY <1>1, <2>3, <2>4, Capacity
<1>3. ASSUME Len(history) < LogCapacity, NEW i \in DOMAIN history
      PROVE  i \in DOMAIN history' /\ history'[i] = history[i]
  <2>1. history' \in Seq({history[j] : j \in DOMAIN history} \cup {e})
    BY <1>1, NewestElements DEF HistoryIsSeq
  <2>2. DOMAIN history' = 1 .. Len(history') /\ DOMAIN history = 1 .. Len(history)
    BY <2>1 DEF HistoryIsSeq
  <2>3. Len(history') = Len(history) + 1 /\ \A j \in 1 .. Len(history) : history'[j] = history[j]
    BY <1>1, <1>3, NewestIs
  <2> QED
    BY <1>1, <2>2, <2>3
<1>4. CASE log.count = LogCapacity
  <2>1. log'.overwrites > 0
    BY <1>1, <1>4, RecordIs
  <2> QED
    BY <1>2, <2>1 DEF CauseIn
<1>5. CASE log.count # LogCapacity
  <2>1. log'.overwrites = log.overwrites /\ Len(history) < LogCapacity
    BY <1>1, <1>5, RecordIs, Capacity
  <2>2. CauseIn(history) => CauseIn(history')
    BY <1>3, <2>1 DEF CauseIn
  <2> QED
    BY <1>2, <2>1, <2>2 DEF CauseIn
<1> QED
  BY <1>4, <1>5

LEMMA LogMovesKeep == ASSUME LogInv, HistoryIsSeq, LogMoves PROVE LogInv'
<1>1. RingInv /\ Explained /\ fsr.alarm \in BOOLEAN /\ erased \in BOOLEAN
  BY DEF LogInv
<1>2. CASE RaisesNone /\ UNCHANGED << log, history >>
  BY <1>1, <1>2 DEF LogInv, RingInv, Explained, RaisesNone
<1>3. CASE RaisesNone /\ \E e : RecordEvent(e)
  <2>1. PICK e : RecordEvent(e)
    BY <1>3
  <2>2. RingInv'
    BY <1>1, <2>1, RecordKeepsRing DEF RecordEvent
  <2>3. log.overwrites > 0 \/ CauseIn(history) => log'.overwrites > 0 \/ CauseIn(history')
    BY <1>1, <2>1, RecordKeepsCause
  <2>4. DOMAIN fsr' = FsrFields /\ erased' = erased /\ fsr'.alarm \in {fsr.alarm, FALSE}
    BY <1>3 DEF RaisesNone
  <2> QED
    BY <1>1, <2>2, <2>3, <2>4 DEF LogInv, Explained
<1>4. CASE /\ DOMAIN fsr' = FsrFields /\ fsr'.alarm = TRUE /\ erased' = FALSE
           /\ \E e : e.tag = "FRAME" /\ e.code # "FORMAT" /\ RecordEvent(e)
  <2>1. PICK e : e.tag = "FRAME" /\ e.code # "FORMAT" /\ RecordEvent(e)
    BY <1>4
  <2>2. RingInv'
    BY <1>1, <2>1, RecordKeepsRing DEF RecordEvent
  <2>3. CauseIn(history')
    BY <1>1, <2>1, RecordKeepsCause
  <2> QED
    BY <1>4, <2>2, <2>3 DEF LogInv, Explained
<1>5. CASE fsr' = fsr /\ erased' = TRUE /\ log' = EmptyLog /\ history' = << >>
  <2>1. Place(0, 0) = 0 /\ 0 \in 0 .. LogCapacity - 1 /\ 0 \in 0 .. OverwriteMax
    BY Capacity DEF Place
  <2>2. RingInv'
    BY <1>5, <2>1, Capacity DEF EmptyLog, RingInv, LogFields
  <2> QED
    BY <1>1, <1>5, <2>2 DEF LogInv, Explained
<1> QED
  BY <1>2, <1>3, <1>4, <1>5 DEF LogMoves

\* Counters, bounds and the indication.  The IV that a verification has read is one.
ScalarInv ==
    /\ txIv \in 0 .. IvModulus - 1 /\ steps \in Nat /\ faults \in Nat /\ raced \in BOOLEAN
    /\ DOMAIN auth = AuthFields /\ {auth.valid, auth.dispatching} \subseteq BOOLEAN
    /\ auth.valid => Configured(auth.spi)
    /\ verify # NoVerify => verify.iv \in Nat /\ verify.ids \in Seq(Nat)

LEMMA ModIsIv == ASSUME NEW n \in Nat PROVE n % IvModulus \in 0 .. IvModulus - 1
BY SdlsAssumption DEF SdlsAssumption

FaultsMove == faults' = faults \/ (faults > 0 /\ faults' = faults - 1)

\* What a PDU changes of these
LEMMA PduScalars ==
    ASSUME NEW c, NEW fault, ProcessPdu(c, fault)
    PROVE  /\ steps > 0 /\ steps' = steps - 1 /\ UNCHANGED << txIv, raced >>
           /\ auth' \in {auth, NoAuth} /\ FaultsMove
           /\ verify' = verify \/ (verify'.iv = txIv /\ verify'.ids = c.ids)
<1>1. steps > 0 /\ steps' = steps - 1
  BY DEF ProcessPdu, Tick
<1>2. ASSUME NEW err, NEW n, NEW answer, Result(err, n, answer)
      PROVE  auth' \in {auth, NoAuth} /\ FaultsMove
  BY <1>2 DEF Result, MayFail, ConsumeAuth, FaultsMove
<1>3. ASSUME NEW err, NEW n, NEW answer, EndPdu(c, err, n, answer)
      PROVE  auth' \in {auth, NoAuth} /\ FaultsMove
  BY <1>2, <1>3 DEF EndPdu
<1>4. CASE RejectPdu(c)
  BY <1>1, <1>3, <1>4 DEF RejectPdu, keyVars
<1>5. CASE KeyManagement(c, fault)
  <2>1. CASE ProcessOtar(c, fault)
    BY <1>1, <1>3, <2>1 DEF ProcessOtar
  <2>2. CASE ProcessLifecycle(c, fault)
    BY <1>1, <1>3, <2>2 DEF ProcessLifecycle
  <2>3. CASE \E room \in scenario.rooms : ProcessKeyInventory(c, fault, room)
    BY <1>1, <1>3, <2>3 DEF ProcessKeyInventory, keyVars
  <2>4. CASE BeginKeyVerification(c, fault)
    <3>1. UNCHANGED << txIv, raced >>
      BY <2>4 DEF BeginKeyVerification, keyVars
    <3>2. CASE EndPdu(c, VerifyError(c, fault), fault, NoReply) /\ UNCHANGED verify
      BY <1>1, <1>3, <3>1, <3>2
    <3>3. CASE /\ verify' = [proc |-> c.proc, ids |-> c.ids, iv |-> txIv,
                             nonces |-> [i \in DOMAIN c.ids |->
                                Nonce(c.ids[i], (txIv + (i - 1) * IvStride) % IvModulus)]]
               /\ UNCHANGED << log, history, auth, reply, faults >>
      BY <1>1, <3>1, <3>3 DEF FaultsMove
    <3> QED
      BY <2>4, <3>2, <3>3 DEF BeginKeyVerification
  <2> QED
    BY <1>5, <2>1, <2>2, <2>3, <2>4 DEF KeyManagement
<1>6. CASE SaManagement(c, fault)
  BY <1>1, <1>3, <1>6 DEF SaManagement, ProcessStartSa, ProcessSaTransition, ProcessRekeySa,
                          ProcessSetArsn, ProcessSetArsnWindow, ProcessReadSa, keyVars
<1>7. CASE Monitoring(c)
  <2>1. ASSUME NEW room, ProcessEraseLog(c, room)
        PROVE  UNCHANGED << txIv, raced, verify >> /\ auth' \in {auth, NoAuth} /\ FaultsMove
    BY <1>2, <2>1 DEF ProcessEraseLog, EndPdu, keyVars
  <2>2. ASSUME NEW room, NEW test, ProcessSelfTest(c, room, test)
        PROVE  UNCHANGED << txIv, raced, verify >> /\ auth' \in {auth, NoAuth} /\ FaultsMove
    BY <1>2, <2>2 DEF ProcessSelfTest, keyVars
  <2>3. ASSUME NEW room, ProcessPing(c, room) \/ ProcessLogStatus(c, room)
                           \/ ProcessDumpLog(c, room)
        PROVE  UNCHANGED << txIv, raced, verify >> /\ auth' \in {auth, NoAuth} /\ FaultsMove
    BY <1>3, <2>3 DEF ProcessPing, ProcessLogStatus, ProcessDumpLog, keyVars
  <2>4. CASE ProcessAlarmFlagReset(c)
    BY <1>1, <1>3, <2>4 DEF ProcessAlarmFlagReset, keyVars
  <2> QED
    BY <1>1, <1>7, <2>1, <2>2, <2>3, <2>4 DEF Monitoring
<1> QED
  BY <1>4, <1>5, <1>6, <1>7 DEF ProcessPdu

LEMMA FaultsStay == ASSUME faults \in Nat, FaultsMove PROVE faults' \in Nat
BY DEF FaultsMove

LEMMA ScalarStep ==
    ASSUME scenario \in Scenarios, ScalarInv, Next PROVE ScalarInv'
<1>1. /\ txIv \in 0 .. IvModulus - 1 /\ steps \in Nat /\ faults \in Nat /\ raced \in BOOLEAN
      /\ DOMAIN auth = AuthFields /\ {auth.valid, auth.dispatching} \subseteq BOOLEAN
      /\ auth.valid => Configured(auth.spi)
      /\ verify # NoVerify => verify.iv \in Nat /\ verify.ids \in Seq(Nat)
  BY DEF ScalarInv
<1>2. txIv \in Nat /\ IvStride \in Nat
  BY <1>1, SdlsAssumption DEF SdlsAssumption
<1>3. /\ DOMAIN NoAuth = AuthFields /\ {NoAuth.valid, NoAuth.dispatching} \subseteq BOOLEAN
      /\ NoAuth.valid = FALSE
  BY DEF NoAuth, AuthFields
<1>4. ASSUME Tick PROVE steps' \in Nat
  BY <1>1, <1>4 DEF Tick
<1>5. ASSUME NEW failing \in BOOLEAN, MayFail(failing) PROVE faults' \in Nat
  BY <1>5, <1>1, FaultsStay DEF MayFail, FaultsMove
<1>6. CASE \E f \in scenario.frames, fault \in BOOLEAN : ProcessSecurity(f, fault)
  <2>1. PICK f \in scenario.frames, fault \in BOOLEAN : ProcessSecurity(f, fault)
    BY <1>6
  <2>2. UNCHANGED << txIv, raced, verify >> /\ steps' \in Nat /\ faults' \in Nat
    BY <1>4, <1>5, <2>1 DEF ProcessSecurity, keyVars
  <2>3. CASE FrameError(f, fault) = "OK" /\ AcceptFrame(f)
    <3>1. Configured(f.spi)
      BY <2>3 DEF FrameError
    <3>2. auth' = [valid |-> TRUE, spi |-> f.spi, arsn |-> f.arsn, dispatching |-> FALSE]
      BY <2>3 DEF AcceptFrame
    <3> QED
      BY <1>1, <2>2, <3>1, <3>2 DEF ScalarInv, AuthFields
  <2>4. CASE auth' = NoAuth
    BY <1>1, <1>3, <2>2, <2>4 DEF ScalarInv
  <2> QED
    BY <2>1, <2>3, <2>4 DEF ProcessSecurity, RefuseFrame, AuthAfterRefusal
<1>7. CASE BeginDispatch
  <2>1. UNCHANGED << txIv, raced, verify, faults >> /\ steps' \in Nat /\ auth.valid
    BY <1>4, <1>7 DEF BeginDispatch, keyVars
  <2>2. /\ DOMAIN auth' = AuthFields /\ auth'.valid = auth.valid /\ auth'.spi = auth.spi
        /\ auth'.dispatching = TRUE
    BY <1>1, <1>7 DEF BeginDispatch, AuthFields
  <2> QED
    BY <1>1, <2>1, <2>2 DEF ScalarInv
<1>8. CASE Withdraw
  <2>1. UNCHANGED << txIv, raced, verify, faults >> /\ steps' \in Nat /\ auth' = NoAuth
    BY <1>4, <1>8 DEF Withdraw, keyVars
  <2> QED
    BY <1>1, <1>3, <2>1 DEF ScalarInv
<1>9. CASE EndKeyVerification
  <2>1. /\ UNCHANGED << raced, faults >> /\ steps' \in Nat /\ auth' \in {auth, NoAuth}
        /\ verify # NoVerify /\ verify' = NoVerify /\ txIv' = VerifiedIv(Len(verify.ids))
    BY <1>4, <1>9 DEF EndKeyVerification, ConsumeAuth
  <2>2. txIv' \in 0 .. IvModulus - 1
    <3>1. verify.iv \in Nat /\ Len(verify.ids) \in Nat
      BY <1>1, <2>1
    <3>2. verify.iv + Len(verify.ids) * IvStride \in Nat
      BY <1>2, <3>1
    <3> QED
      BY <2>1, <3>2, ModIsIv DEF VerifiedIv
  <2> QED
    BY <1>1, <1>3, <2>1, <2>2 DEF ScalarInv
<1>10. CASE \E s \in scenario.sends, fault \in BOOLEAN : ApplySecurity(s, fault)
  <2>1. PICK s \in scenario.sends, fault \in BOOLEAN : ApplySecurity(s, fault)
    BY <1>10
  <2>2. /\ UNCHANGED << auth, verify >> /\ steps' \in Nat /\ faults' \in Nat
        /\ txIv' = (txIv + IvStride) % IvModulus /\ raced' \in BOOLEAN
    BY <1>4, <1>5, <2>1 DEF ApplySecurity, Allocate, AdvanceIv
  <2>3. txIv' \in 0 .. IvModulus - 1
    BY <1>2, <2>2, ModIsIv
  <2> QED
    BY <1>1, <2>2, <2>3 DEF ScalarInv
<1>11. CASE \E c \in scenario.pdus : \E fault \in 0 .. MaxCalls(c) : ProcessPdu(c, fault)
  <2>1. PICK c \in scenario.pdus, fault \in Nat : ProcessPdu(c, fault)
    BY <1>11
  <2>2. /\ steps > 0 /\ steps' = steps - 1 /\ UNCHANGED << txIv, raced >>
        /\ auth' \in {auth, NoAuth} /\ FaultsMove
        /\ verify' = verify \/ (verify'.iv = txIv /\ verify'.ids = c.ids)
    BY <2>1, PduScalars
  <2>3. c.ids \in Seq(Nat)
    BY ScenarioAssumption DEF ScenarioAssumption, Pdus
  <2>4. steps' \in Nat /\ faults' \in Nat
    BY <1>1, <2>2, FaultsStay
  <2>5. verify' # NoVerify => verify'.iv \in Nat /\ verify'.ids \in Seq(Nat)
    BY <1>1, <1>2, <2>2, <2>3
  <2> QED
    BY <1>1, <1>3, <2>2, <2>4, <2>5 DEF ScalarInv
<1> QED
  BY <1>6, <1>7, <1>8, <1>9, <1>10, <1>11 DEF Next

\* The inductive invariant of security monitoring: what was proved of SAs, keys, store
\* and events, and that of log, alarm and counters
MonitorInv == SaInv /\ KeyInv /\ StoreInv /\ EventInv /\ LogInv /\ ScalarInv

LEMMA MonitorInit ==
    Init => LogInv /\ ScalarInv
<1> SUFFICES ASSUME NEW s \in Scenarios, InitFrom(s) PROVE LogInv /\ ScalarInv
  BY DEF Init
<1>1. /\ log = EmptyLog /\ history = << >> /\ erased = FALSE /\ fsr.alarm = FALSE
      /\ DOMAIN fsr = FsrFields
  BY DEF InitFrom, FsrFields
<1>2. LogInv
  BY <1>1, EmptyRing DEF LogInv, Explained
<1>3. /\ txIv = s.seed /\ steps = s.steps /\ faults = s.faults /\ raced = FALSE
      /\ auth = NoAuth /\ verify = NoVerify
  BY DEF InitFrom
<1>4. s.seed \in 0 .. IvModulus - 1 /\ s.steps \in Nat /\ s.faults \in Nat
  BY ScenarioAssumption DEF ScenarioAssumption
<1>5. ScalarInv
  BY <1>3, <1>4 DEF ScalarInv, NoAuth, AuthFields
<1> QED
  BY <1>2, <1>5

LEMMA MonitorStep == LogInv /\ ScalarInv /\ KeyInv /\ EventInv /\ [Next]_vars => LogInv' /\ ScalarInv'
<1> SUFFICES ASSUME LogInv, ScalarInv, KeyInv, EventInv, [Next]_vars PROVE LogInv' /\ ScalarInv'
  OBVIOUS
<1>1. CASE UNCHANGED vars
  BY <1>1 DEF vars, logVars, keyVars, boundVars, LogInv, RingInv, Explained, ScalarInv
<1>2. CASE Next
  <2>1. HistoryIsSeq /\ scenario \in Scenarios /\ DOMAIN fsr = FsrFields
    BY DEF EventInv, KeyInv, LogInv, HistoryIsSeq
  <2> QED
    BY <1>2, <2>1, LogSteps, LogMovesKeep, ScalarStep
<1> QED
  BY <1>1, <1>2

\* The ring keeps its limits and holds the newest events since it was erased, oldest
\* first, however often it wrapped; an alarm has its cause in it unless that was
\* overwritten or erased; and no indication names an SA that is not configured.
THEOREM MonitoringHolds == Spec => []MonitoringInv
<1>1. Init => MonitorInv
  <2>1. Init => EventInv
    BY DEF Init, InitFrom, NoAuth, AuthFields, EventInv, EventsAttributed
  <2> QED
    BY <2>1, SaInit, KeyInit, StoreInit, MonitorInit DEF MonitorInv
<1>2. MonitorInv /\ [Next]_vars => MonitorInv'
  BY SaStep, KeyStep, StoreStep, EventStep, MonitorStep DEF MonitorInv
<1>3. MonitorInv => MonitoringInv
  <2> SUFFICES ASSUME MonitorInv PROVE MonitoringInv
    OBVIOUS
  <2>1. RingInv /\ Explained /\ HistoryIsSeq
    BY DEF MonitorInv, LogInv, EventInv, HistoryIsSeq
  <2>2. LogIsNewest
    BY <2>1, RingIsHistory
  <2>3. AlarmExplained
    BY <2>1, <2>2 DEF AlarmExplained, Explained, CauseIn, LogIsNewest
  <2>4. TypeOK
    BY <2>1 DEF MonitorInv, TypeOK, SaInv, KeyInv, StoreInv, LogInv, ScalarInv, RingInv
  <2> QED
    BY <2>2, <2>3, <2>4 DEF MonitoringInv
<1> QED
  BY <1>1, <1>2, <1>3, PTL DEF Spec

-------------------------------------------------------------------------------
(* Nonces *)

\* No key allocates as many nonces as its ARSN has values.
NoWrap == \A s \in Scenarios : \A k \in KeySlots : s.keys[k].txArsn + s.steps < ArsnModulus

CountersBelow ==
    /\ steps \in Nat /\ steps < ArsnModulus
    /\ \A k \in KeySlots : keys[k].txArsn + steps < ArsnModulus

\* Every nonce left once, with an object that exists, and before the counter of the
\* slot that holds the object: the IV need not be looked at.
EmittedOnce ==
    /\ \A n \in DOMAIN emitted : emitted[n] = 1 /\ n.psa \in Nat /\ n.psa < nextObject /\ n.arsn \in Nat
    /\ \A n \in DOMAIN emitted, k \in KeySlots : keys[k].psa = n.psa => n.arsn < keys[k].txArsn

\* The nonces that a verification has read are still those of the keys it names.
VerifyFresh ==
    verify # NoVerify =>
      /\ DOMAIN verify.nonces = DOMAIN verify.ids
      /\ \A i \in DOMAIN verify.ids :
           /\ verify.ids[i] \in KeySlots /\ keys[verify.ids[i]].psa # NullKey
           /\ verify.nonces[i].psa = keys[verify.ids[i]].psa
           /\ verify.nonces[i].arsn = keys[verify.ids[i]].txArsn

\* The inductive invariant of the nonces, next to that of the keys
NonceInv == raced \in BOOLEAN /\ CountersBelow /\ (raced \/ (EmittedOnce /\ VerifyFresh))

\* Adding a set of new nonces to the bag
LEMMA BagGrows ==
    ASSUME NEW S, S \cap DOMAIN emitted = {}, \A n \in DOMAIN emitted : emitted[n] = 1,
           emitted' = emitted (+) SetToBag(S)
    PROVE  DOMAIN emitted' = DOMAIN emitted \cup S /\ \A n \in DOMAIN emitted' : emitted'[n] = 1
BY DEF (+), SetToBag

\* A key step that allocates nothing: a slot keeps object and counter, or gets a new
\* object.
TableMoves ==
    /\ nextObject' \in Nat /\ nextObject <= nextObject'
    /\ \A k \in KeySlots :
          \/ keys'[k].psa = keys[k].psa /\ keys'[k].txArsn = keys[k].txArsn
          \/ keys'[k].psa \in Nat /\ keys'[k].psa >= nextObject /\ keys'[k].txArsn = 0

LEMMA OtarMoves ==
    ASSUME KeyInv, NEW c \in scenario.pdus, NEW fault \in Nat, ProcessOtar(c, fault)
    PROVE  TableMoves
<1>1. c.ids \in Seq(Nat) /\ nextObject \in Nat \ {0} /\ Len(c.ids) \in Nat
  BY SlotFacts, ScenarioAssumption DEF ScenarioAssumption, KeyInv, Pdus
<1>2. \/ UNCHANGED << keys, nextObject >>
      \/ /\ fault \in 3 .. 2 + Len(c.ids) /\ keys' = keys
         /\ nextObject' = nextObject + Cardinality(Imported(fault - 3))
      \/ /\ keys' = Install(c.ids)
         /\ nextObject' = nextObject + Cardinality(Imported(Len(c.ids)))
  BY DEF ProcessOtar, Store, Rollback
<1>3. CASE UNCHANGED << keys, nextObject >>
  BY <1>1, <1>3 DEF TableMoves
<1>4. CASE /\ fault \in 3 .. 2 + Len(c.ids) /\ keys' = keys
           /\ nextObject' = nextObject + Cardinality(Imported(fault - 3))
  <2>1. fault - 3 \in Nat
    BY <1>1, <1>4
  <2>2. nextObject' = nextObject + (fault - 3)
    BY <1>1, <1>4, <2>1, ImportedCount
  <2> QED
    BY <1>1, <1>4, <2>1, <2>2 DEF TableMoves
<1>5. CASE /\ keys' = Install(c.ids)
           /\ nextObject' = nextObject + Cardinality(Imported(Len(c.ids)))
  <2>1. nextObject' = nextObject + Len(c.ids)
    BY <1>1, <1>5, ImportedCount
  <2>2. ASSUME NEW k \in KeySlots
        PROVE  \/ keys'[k].psa = keys[k].psa /\ keys'[k].txArsn = keys[k].txArsn
               \/ keys'[k].psa \in Nat /\ keys'[k].psa >= nextObject /\ keys'[k].txArsn = 0
    <3>1. CASE \E i \in DOMAIN c.ids : c.ids[i] = k
      <4> DEFINE at == CHOOSE i \in DOMAIN c.ids : c.ids[i] = k
      <4>1. at \in Nat /\ at >= 1
        <5>1. at \in DOMAIN c.ids
          BY <3>1
        <5> QED
          BY <1>1, <5>1
      <4>2. keys'[k] = [psa |-> nextObject + at - 1, state |-> "PREACTIVE", txArsn |-> 0]
        BY <1>5, <3>1 DEF Install
      <4> HIDE DEF at
      <4> QED
        BY <1>1, <4>1, <4>2
    <3>2. CASE ~ \E i \in DOMAIN c.ids : c.ids[i] = k
      BY <1>5, <3>2 DEF Install
    <3> QED
      BY <3>1, <3>2
  <2> QED
    BY <1>1, <2>1, <2>2 DEF TableMoves
<1> QED
  BY <1>2, <1>3, <1>4, <1>5

LEMMA LifecycleMoves ==
    ASSUME KeyInv, NEW c, NEW fault, ProcessLifecycle(c, fault)
    PROVE  TableMoves
<1> DEFINE named == {c.ids[i] : i \in DOMAIN c.ids}
           state == IF c.proc = "KEY_DEACTIVATION" THEN "DEACTIVATED" ELSE "ACTIVE"
<1>1. nextObject' = nextObject /\ nextObject \in Nat
  BY DEF ProcessLifecycle, KeyInv
<1>2. \/ keys' = keys
      \/ keys' = [k \in KeySlots |-> IF k \in named THEN [keys[k] EXCEPT !.state = state]
                                     ELSE keys[k]]
  BY DEF ProcessLifecycle
<1> HIDE DEF named, state
<1>3. \A k \in KeySlots : keys[k] \in Key
  BY SlotFacts
<1>4. \A k \in KeySlots : keys'[k].psa = keys[k].psa /\ keys'[k].txArsn = keys[k].txArsn
  BY <1>2, <1>3 DEF Key
<1> QED
  BY <1>1, <1>4 DEF TableMoves

LEMMA TableKeepsNonces ==
    ASSUME KeyInv, NonceInv, TableMoves, UNCHANGED << emitted, raced >>,
           steps > 0, steps' = steps - 1, verify' = NoVerify
    PROVE  NonceInv'
<1>1. nextObject \in Nat /\ \A k \in KeySlots : keys[k].txArsn \in Nat
  BY SdlsAssumption DEF KeyInv, Key, Arsns, SdlsAssumption
<1>2. CountersBelow'
  BY <1>1, SdlsAssumption DEF NonceInv, CountersBelow, TableMoves, SdlsAssumption
<1>3. VerifyFresh'
  BY DEF VerifyFresh
<1>4. EmittedOnce => EmittedOnce'
  <2> SUFFICES ASSUME EmittedOnce PROVE EmittedOnce'
    OBVIOUS
  <2>1. \A n \in DOMAIN emitted : emitted[n] = 1 /\ n.psa \in Nat /\ n.psa < nextObject /\ n.arsn \in Nat
    BY DEF EmittedOnce
  <2>2. \A n \in DOMAIN emitted' : emitted'[n] = 1 /\ n.psa \in Nat /\ n.psa < nextObject' /\ n.arsn \in Nat
    BY <1>1, <2>1 DEF TableMoves
  <2>3. ASSUME NEW n \in DOMAIN emitted', NEW k \in KeySlots, keys'[k].psa = n.psa
        PROVE  n.arsn < keys'[k].txArsn
    <3>1. n \in DOMAIN emitted /\ n.psa \in Nat /\ n.psa < nextObject
      BY <2>1
    <3>2. ~(keys'[k].psa \in Nat /\ keys'[k].psa >= nextObject)
      BY <1>1, <2>3, <3>1
    <3>3. keys'[k].psa = keys[k].psa /\ keys'[k].txArsn = keys[k].txArsn
      BY <3>2 DEF TableMoves
    <3> QED
      BY <2>3, <3>1, <3>3 DEF EmittedOnce
  <2> QED
    BY <2>2, <2>3 DEF EmittedOnce
<1> QED
  BY <1>2, <1>3, <1>4 DEF NonceInv

\* A counter that is not at its limit moves by one.
LEMMA NextArsn ==
    ASSUME KeyInv, CountersBelow, steps > 0, NEW k \in KeySlots
    PROVE  /\ keys[k].txArsn \in Nat /\ keys[k].psa \in Nat /\ keys[k].psa < nextObject
           /\ (keys[k].txArsn + 1) % ArsnModulus = keys[k].txArsn + 1
           /\ keys[k].txArsn + 1 + (steps - 1) < ArsnModulus
<1>1. /\ keys[k] \in Key /\ ArsnModulus \in Nat \ {0} /\ steps \in Nat
      /\ keys[k].txArsn + steps < ArsnModulus
  BY SlotFacts, SdlsAssumption DEF SdlsAssumption, CountersBelow
<1>2. keys[k].txArsn \in Nat /\ keys[k].psa \in Nat /\ keys[k].psa < nextObject
  BY <1>1 DEF Key, Arsns, KeyInv, ObjectsOld
<1>3. keys[k].txArsn + 1 \in 0 .. ArsnModulus - 1
  BY <1>1, <1>2
<1> QED
  BY <1>1, <1>2, <1>3, ModBelow

LEMMA OneMore ==
    ASSUME NEW a \in Nat, NEW n \in Nat, n > 0, NEW m \in Nat, a + n < m, NEW b \in {a, a + 1}
    PROVE  b + (n - 1) < m
OBVIOUS

\* Some slots allocate: their counters move by one, and only nonces they would have
\* allocated leave.
Allocates(A, S) ==
    /\ UNCHANGED nextObject
    /\ \A k \in KeySlots : /\ keys'[k].psa = keys[k].psa
                           /\ keys'[k].txArsn = IF k \in A THEN keys[k].txArsn + 1
                                                ELSE keys[k].txArsn
    /\ \A n \in S : \E k \in A : /\ k \in KeySlots /\ keys[k].psa # NullKey
                                 /\ n.psa = keys[k].psa /\ n.arsn = keys[k].txArsn
    /\ emitted' = emitted (+) SetToBag(S) \/ (S = {} /\ emitted' = emitted)

LEMMA AllocationKeeps ==
    ASSUME KeyInv, CountersBelow, steps > 0, steps' = steps - 1, NEW A, NEW S, Allocates(A, S)
    PROVE  CountersBelow' /\ (EmittedOnce => EmittedOnce')
<1>1. \A k \in KeySlots : /\ keys[k].txArsn \in Nat /\ keys[k].psa \in Nat
                          /\ keys[k].psa < nextObject
                          /\ keys[k].txArsn + 1 + (steps - 1) < ArsnModulus
  BY NextArsn
<1>2. CountersBelow'
  <2>1. ASSUME NEW k \in KeySlots PROVE keys'[k].txArsn + steps' < ArsnModulus
    <3>1. keys[k].txArsn \in Nat /\ keys[k].txArsn + steps < ArsnModulus /\ steps \in Nat
      BY <1>1 DEF CountersBelow
    <3>2. keys'[k].txArsn \in {keys[k].txArsn, keys[k].txArsn + 1}
      BY DEF Allocates
    <3> QED
      BY <3>1, <3>2, OneMore, SdlsAssumption DEF SdlsAssumption
  <2> QED
    BY <2>1, SdlsAssumption DEF CountersBelow, SdlsAssumption
<1>3. ASSUME EmittedOnce PROVE EmittedOnce'
  <2>1. ASSUME NEW n \in S PROVE n \notin DOMAIN emitted /\ n.psa \in Nat /\ n.psa < nextObject /\ n.arsn \in Nat
    <3>1. PICK k \in KeySlots : n.psa = keys[k].psa /\ n.arsn = keys[k].txArsn
      BY DEF Allocates
    <3> QED
      BY <1>1, <1>3, <3>1 DEF EmittedOnce
  <2>2. /\ \A n \in DOMAIN emitted : emitted[n] = 1 /\ n.psa \in Nat /\ n.psa < nextObject /\ n.arsn \in Nat
        /\ S \cap DOMAIN emitted = {}
    BY <1>3, <2>1 DEF EmittedOnce
  <2>3. DOMAIN emitted' = DOMAIN emitted \cup S /\ \A n \in DOMAIN emitted' : emitted'[n] = 1
    <3>1. CASE emitted' = emitted (+) SetToBag(S)
      BY <2>2, <3>1, BagGrows
    <3>2. CASE S = {} /\ emitted' = emitted
      BY <2>2, <3>2
    <3> QED
      BY <3>1, <3>2 DEF Allocates
  <2>4. \A n \in DOMAIN emitted' : emitted'[n] = 1 /\ n.psa \in Nat /\ n.psa < nextObject' /\ n.arsn \in Nat
    BY <2>1, <2>2, <2>3 DEF Allocates
  <2>5. ASSUME NEW n \in DOMAIN emitted', NEW k \in KeySlots, keys'[k].psa = n.psa
        PROVE  n.arsn < keys'[k].txArsn
    <3>1. /\ keys[k].psa = n.psa /\ keys[k].txArsn \in Nat
          /\ keys'[k].txArsn = IF k \in A THEN keys[k].txArsn + 1 ELSE keys[k].txArsn
      BY <1>1, <2>5 DEF Allocates
    <3>2. CASE n \in S
      <4>1. PICK j \in A : /\ j \in KeySlots /\ keys[j].psa # NullKey
                           /\ n.psa = keys[j].psa /\ n.arsn = keys[j].txArsn
        BY <3>2 DEF Allocates
      <4>2. j = k
        BY <3>1, <4>1 DEF KeyInv, SlotsDistinct
      <4> QED
        BY <3>1, <4>1, <4>2
    <3>3. CASE n \notin S
      <4>1. n \in DOMAIN emitted
        BY <2>3, <3>3
      <4>2. n.arsn < keys[k].txArsn
        BY <1>3, <3>1, <4>1 DEF EmittedOnce
      <4>3. CASE k \in A
        <5>1. n.arsn \in Nat
          BY <1>3, <4>1 DEF EmittedOnce
        <5> QED
          BY <3>1, <4>2, <4>3, <5>1
      <4>4. CASE k \notin A
        BY <3>1, <4>2, <4>4
      <4> QED
        BY <4>3, <4>4
    <3> QED
      BY <3>2, <3>3
  <2> QED
    BY <2>4, <2>5 DEF EmittedOnce
<1> QED
  BY <1>2, <1>3

LEMMA SendKeepsNonces ==
    ASSUME KeyInv, NonceInv, NEW s, NEW fault, ApplySecurity(s, fault)
    PROVE  NonceInv'
<1> DEFINE k == sas[s].key
           gone == fault \/ ~PsaAllows(keys[k].psa, "ENCRYPT")
           S == IF gone THEN {} ELSE {Nonce(k, txIv)}
<1>1. steps > 0 /\ steps' = steps - 1 /\ UNCHANGED << nextObject, verify >> /\ CountersBelow
  BY DEF ApplySecurity, Tick, NonceInv
<1>2. k \in KeySlots /\ keys[k].psa # NullKey
  BY DEF ApplySecurity, OperationalKey, KeyPresent
<1>3. /\ keys' = [keys EXCEPT ![k].txArsn = (@ + 1) % ArsnModulus]
      /\ emitted' = IF gone THEN emitted ELSE emitted (+) SetToBag({Nonce(k, txIv)})
      /\ raced' = (raced \/ (verify # NoVerify /\ \E i \in DOMAIN verify.ids : verify.ids[i] = k))
  BY DEF ApplySecurity, Allocate
<1>4. \A n \in S : n.psa = keys[k].psa /\ n.arsn = keys[k].txArsn
  BY DEF Nonce
<1>5. emitted' = emitted (+) SetToBag(S) \/ (S = {} /\ emitted' = emitted)
  BY <1>3
<1> HIDE DEF S, gone, k
<1>6. \A j \in KeySlots : /\ keys'[j].psa = keys[j].psa
                          /\ keys'[j].txArsn = IF j \in {k} THEN keys[j].txArsn + 1
                                               ELSE keys[j].txArsn
  <2> SUFFICES ASSUME NEW j \in KeySlots
               PROVE  /\ keys'[j].psa = keys[j].psa
                      /\ keys'[j].txArsn = IF j \in {k} THEN keys[j].txArsn + 1
                                           ELSE keys[j].txArsn
    OBVIOUS
  <2>1. (keys[k].txArsn + 1) % ArsnModulus = keys[k].txArsn + 1
    BY <1>1, <1>2, NextArsn
  <2>2. keys \in [KeySlots -> Key]
    BY DEF KeyInv
  <2> QED
    BY <1>2, <1>3, <2>1, <2>2 DEF Key
<1>7. Allocates({k}, S)
  BY <1>1, <1>2, <1>4, <1>5, <1>6 DEF Allocates
<1>8. CountersBelow' /\ (EmittedOnce => EmittedOnce')
  BY <1>1, <1>7, AllocationKeeps
<1>9. VerifyFresh /\ ~raced' => VerifyFresh'
  <2> SUFFICES ASSUME VerifyFresh, ~raced', verify # NoVerify PROVE VerifyFresh'
    BY <1>1 DEF VerifyFresh
  <2>1. \A i \in DOMAIN verify.ids : verify.ids[i] # k /\ verify.ids[i] \in KeySlots
    BY <1>3 DEF VerifyFresh
  <2>2. \A i \in DOMAIN verify.ids : /\ keys'[verify.ids[i]].psa = keys[verify.ids[i]].psa
                                     /\ keys'[verify.ids[i]].txArsn = keys[verify.ids[i]].txArsn
    BY <1>6, <2>1
  <2> QED
    BY <1>1, <2>2 DEF VerifyFresh
<1>10. raced' \in BOOLEAN /\ (raced => raced')
  BY <1>3 DEF NonceInv
<1> QED
  BY <1>8, <1>9, <1>10 DEF NonceInv

LEMMA VerificationKeepsNonces ==
    ASSUME KeyInv, NonceInv, EndKeyVerification PROVE NonceInv'
<1> DEFINE A == {verify.ids[i] : i \in DOMAIN verify.ids}
           S == {verify.nonces[i] : i \in DOMAIN verify.nonces}
<1>1. /\ steps > 0 /\ steps' = steps - 1 /\ UNCHANGED << nextObject, raced >> /\ CountersBelow
      /\ verify # NoVerify /\ verify' = NoVerify /\ emitted' = emitted (+) SetToBag(S)
      /\ keys' = [k \in KeySlots |->
                    IF \E i \in DOMAIN verify.ids : verify.ids[i] = k
                      THEN [keys[k] EXCEPT !.txArsn = (@ + 1) % ArsnModulus] ELSE keys[k]]
  BY DEF EndKeyVerification, Tick, NonceInv
<1>2. \A k \in KeySlots : /\ keys'[k].psa = keys[k].psa
                          /\ keys'[k].txArsn = IF k \in A THEN keys[k].txArsn + 1
                                               ELSE keys[k].txArsn
  <2>1. \A k \in KeySlots : keys[k] \in Key /\ (keys[k].txArsn + 1) % ArsnModulus = keys[k].txArsn + 1
    BY <1>1, NextArsn, SlotFacts
  <2> QED
    BY <1>1, <2>1 DEF Key
<1>3. VerifyFresh'
  BY <1>1 DEF VerifyFresh
<1>4. CASE raced
  <2>1. CountersBelow'
    <3>1. ASSUME NEW k \in KeySlots PROVE keys'[k].txArsn + steps' < ArsnModulus
      <4>1. keys[k].txArsn \in Nat /\ steps \in Nat /\ keys[k].txArsn + steps < ArsnModulus
        BY <1>1, NextArsn DEF CountersBelow
      <4>2. keys'[k].txArsn \in {keys[k].txArsn, keys[k].txArsn + 1}
        BY <1>2
      <4>3. steps' = steps - 1 /\ ArsnModulus \in Nat
        BY <1>1, SdlsAssumption DEF SdlsAssumption
      <4> QED
        BY <1>1, <4>1, <4>2, <4>3, OneMore
    <3> QED
      BY <1>1, <3>1, SdlsAssumption DEF CountersBelow, SdlsAssumption
  <2> QED
    BY <1>1, <1>4, <2>1 DEF NonceInv
<1>5. CASE ~raced
  <2>1. EmittedOnce /\ VerifyFresh
    BY <1>5 DEF NonceInv
  <2>2. \A n \in S : \E k \in A : /\ k \in KeySlots /\ keys[k].psa # NullKey
                                  /\ n.psa = keys[k].psa /\ n.arsn = keys[k].txArsn
    BY <1>1, <2>1 DEF VerifyFresh
  <2>3. Allocates(A, S)
    BY <1>1, <1>2, <2>2 DEF Allocates
  <2>4. CountersBelow' /\ EmittedOnce'
    BY <1>1, <2>1, <2>3, AllocationKeeps
  <2> QED
    BY <1>1, <1>3, <2>4 DEF NonceInv
<1> QED
  BY <1>4, <1>5 DEF NonceInv

\* What the checks of process_key_verification establish of the keys of a PDU
LEMMA VerifyEntries ==
    ASSUME NEW c, c.ids \in Seq(Nat), NEW fault, VerifyError(c, fault) = "OK"
    PROVE  \A i \in DOMAIN c.ids : c.ids[i] \in KeySlots /\ keys[c.ids[i]].psa # NullKey
<1> DEFINE errs == [i \in DOMAIN c.ids |-> VerifyEntry(c, i, fault)]
<1>1. First(errs) = "OK"
  BY DEF VerifyError
<1>2. DOMAIN errs \in SUBSET Nat
  OBVIOUS
<1>3. \A i \in DOMAIN errs : errs[i] = "OK"
  <2> HIDE DEF errs
  <2> QED
    BY <1>1, <1>2, FirstOk
<1> QED
  BY <1>3 DEF VerifyEntry, KeyPresent

\* A step of the table, or a step that leaves it alone
LEMMA QuietKeepsNonces ==
    ASSUME KeyInv, NonceInv, UNCHANGED << keys, nextObject, emitted, raced >>,
           steps > 0, steps' = steps - 1, VerifyFresh => VerifyFresh'
    PROVE  NonceInv'
<1>1. \A k \in KeySlots : keys[k].txArsn \in Nat
  BY SdlsAssumption DEF KeyInv, Key, Arsns, SdlsAssumption
<1>2. CountersBelow'
  BY <1>1, SdlsAssumption DEF NonceInv, CountersBelow, SdlsAssumption
<1>3. EmittedOnce => EmittedOnce'
  BY DEF EmittedOnce
<1> QED
  BY <1>2, <1>3 DEF NonceInv

LEMMA PduKeepsNonces ==
    ASSUME KeyInv, NonceInv, NEW c \in scenario.pdus, NEW fault \in Nat, ProcessPdu(c, fault)
    PROVE  NonceInv'
<1>1. steps > 0 /\ steps' = steps - 1 /\ verify = NoVerify
  BY DEF ProcessPdu, Tick
<1>2. ASSUME UNCHANGED << keyVars, verify >> PROVE NonceInv'
  <2>1. UNCHANGED << keys, nextObject, emitted, raced >> /\ verify' = NoVerify
    BY <1>1, <1>2 DEF keyVars
  <2> QED
    BY <1>1, <2>1, QuietKeepsNonces DEF VerifyFresh
<1>3. ASSUME TableMoves, UNCHANGED << emitted, raced, verify >> PROVE NonceInv'
  BY <1>1, <1>3, TableKeepsNonces
<1>4. CASE RejectPdu(c)
  BY <1>2, <1>4 DEF RejectPdu
<1>5. CASE ProcessOtar(c, fault)
  BY <1>3, <1>5, OtarMoves DEF ProcessOtar
<1>6. CASE ProcessLifecycle(c, fault)
  BY <1>3, <1>6, LifecycleMoves DEF ProcessLifecycle
<1>7. CASE \E room \in scenario.rooms : ProcessKeyInventory(c, fault, room)
  BY <1>2, <1>7 DEF ProcessKeyInventory
<1>8. CASE BeginKeyVerification(c, fault)
  <2>1. UNCHANGED << keys, nextObject, emitted, raced, keyVars >>
    BY <1>8 DEF BeginKeyVerification, keyVars
  <2>2. CASE UNCHANGED verify
    BY <1>2, <2>1, <2>2
  <2>3. CASE /\ VerifyError(c, fault) = "OK"
             /\ verify' = [proc |-> c.proc, ids |-> c.ids, iv |-> txIv,
                           nonces |-> [i \in DOMAIN c.ids |->
                              Nonce(c.ids[i], (txIv + (i - 1) * IvStride) % IvModulus)]]
    <3>1. c.ids \in Seq(Nat)
      BY ScenarioAssumption DEF ScenarioAssumption, KeyInv, Pdus
    <3>2. \A i \in DOMAIN c.ids : c.ids[i] \in KeySlots /\ keys[c.ids[i]].psa # NullKey
      BY <2>3, <3>1, VerifyEntries
    <3>3. VerifyFresh'
      BY <2>1, <2>3, <3>2 DEF VerifyFresh, Nonce
    <3> QED
      BY <1>1, <2>1, <3>3, QuietKeepsNonces
  <2> QED
    BY <1>8, <2>2, <2>3 DEF BeginKeyVerification
<1>9. CASE SaManagement(c, fault)
  BY <1>2, <1>9 DEF SaManagement, ProcessStartSa, ProcessSaTransition, ProcessRekeySa,
                    ProcessSetArsn, ProcessSetArsnWindow, ProcessReadSa
<1>10. CASE Monitoring(c)
  BY <1>2, <1>10 DEF Monitoring, ProcessPing, ProcessLogStatus, ProcessDumpLog,
                     ProcessEraseLog, ProcessSelfTest, ProcessAlarmFlagReset
<1> QED
  BY <1>4, <1>5, <1>6, <1>7, <1>8, <1>9, <1>10 DEF ProcessPdu, KeyManagement

LEMMA NonceStep == KeyInv /\ NonceInv /\ [Next]_vars => NonceInv'
<1> SUFFICES ASSUME KeyInv, NonceInv, [Next]_vars PROVE NonceInv'
  OBVIOUS
<1>1. CASE UNCHANGED vars
  BY <1>1 DEF vars, keyVars, boundVars, NonceInv, CountersBelow, EmittedOnce, VerifyFresh
<1>2. ASSUME Tick, UNCHANGED << keyVars, verify >> PROVE NonceInv'
  <2>1. UNCHANGED << keys, nextObject, emitted, raced, verify >> /\ steps > 0 /\ steps' = steps - 1
    BY <1>2 DEF keyVars, Tick
  <2> QED
    BY <2>1, QuietKeepsNonces DEF VerifyFresh
<1>3. CASE \E f \in scenario.frames, fault \in BOOLEAN : ProcessSecurity(f, fault)
  BY <1>2, <1>3 DEF ProcessSecurity
<1>4. CASE BeginDispatch \/ Withdraw
  BY <1>2, <1>4 DEF BeginDispatch, Withdraw
<1>5. CASE EndKeyVerification
  BY <1>5, VerificationKeepsNonces
<1>6. CASE \E s \in scenario.sends, fault \in BOOLEAN : ApplySecurity(s, fault)
  BY <1>6, SendKeepsNonces
<1>7. CASE \E c \in scenario.pdus : \E fault \in 0 .. MaxCalls(c) : ProcessPdu(c, fault)
  <2>1. PICK c \in scenario.pdus, fault \in Nat : ProcessPdu(c, fault)
    BY <1>7
  <2> QED
    BY <2>1, PduKeepsNonces
<1> QED
  BY <1>1, <1>3, <1>4, <1>5, <1>6, <1>7 DEF Next

\* As long as no key allocates as many nonces as its 32-bit ARSN has values, no nonce
\* leaves twice with one key object, whatever fails, is rekeyed or is verified, unless
\* a frame is sent under a key while that key is being verified.  The ARSN alone
\* keeps them apart: the IV may wrap, and a verification may set it back.
THEOREM NonceUniqueHolds == ASSUME NoWrap PROVE Spec => []NonceUnique
<1>1. Init => KeyInv /\ NonceInv
  <2> SUFFICES ASSUME NEW s \in Scenarios, InitFrom(s) PROVE NonceInv
    BY KeyInit DEF Init
  <2>1. /\ keys = s.keys /\ steps = s.steps /\ emitted = EmptyBag /\ raced = FALSE
        /\ verify = NoVerify
    BY DEF InitFrom
  <2>2. s.steps \in Nat /\ s.keys \in [KeySlots -> Key] /\ 0 \in KeySlots /\ ArsnModulus \in Nat
    BY ScenarioAssumption, SdlsAssumption DEF ScenarioAssumption, SdlsAssumption, KeySlots
  <2>3. \A k \in KeySlots : s.keys[k].txArsn \in Nat /\ s.keys[k].txArsn + s.steps < ArsnModulus
    BY <2>2, NoWrap DEF NoWrap, Key, Arsns
  <2>4. CountersBelow
    BY <2>1, <2>2, <2>3 DEF CountersBelow
  <2>5. DOMAIN emitted = {}
    BY <2>1 DEF EmptyBag, SetToBag
  <2> QED
    BY <2>1, <2>4, <2>5 DEF NonceInv, EmittedOnce, VerifyFresh
<1>2. KeyInv /\ NonceInv /\ [Next]_vars => KeyInv' /\ NonceInv'
  BY KeyStep, NonceStep
<1>3. NonceInv => NonceUnique
  BY DEF NonceInv, EmittedOnce, NonceUnique
<1> QED
  BY <1>1, <1>2, <1>3, PTL DEF Spec

-------------------------------------------------------------------------------
(* Replies *)

\* Every set of numbers that is not empty has a least one.
LEMMA LeastNumber ==
    ASSUME NEW T, T \subseteq Nat, T # {}
    PROVE  \E x \in T : \A y \in T : x <= y
<1> DEFINE R == OpToRel(<, Nat)
<1>1. \A j, i \in Nat : j < i => << j, i >> \in R
  BY DEF OpToRel
<1>2. T \in SUBSET Nat
  OBVIOUS
<1> HIDE DEF R
<1>3. \E i \in T : \A j \in T : ~(<< j, i >> \in R)
  BY <1>2, NatLessThanWellFounded, WFMin, Zenon DEF R
<1>4. PICK i \in T : \A j \in T : ~(<< j, i >> \in R)
  BY <1>3, Zenon
<1>5. \A j \in T : ~(j < i)
  BY <1>1, <1>2, <1>4
<1> QED
  BY <1>5

\* How many of some key slots are below k.
Below(S, k) == {j \in S : j < k}

LEMMA BelowGrows ==
    ASSUME NEW S \in SUBSET KeySlots, NEW k \in Nat
    PROVE  /\ IsFiniteSet(S) /\ IsFiniteSet(Below(S, k)) /\ Cardinality(Below(S, k)) \in Nat
           /\ Cardinality(Below(S, k + 1)) = IF k \in S THEN Cardinality(Below(S, k)) + 1
                                             ELSE Cardinality(Below(S, k))
<1>1. IsFiniteSet(S) /\ S \subseteq Nat
  <2>1. IsFiniteSet(KeySlots) /\ KeySlots \subseteq Nat
    BY SdlsAssumption, FS_Interval DEF SdlsAssumption, KeySlots
  <2> QED
    BY <2>1, FS_Subset
<1>2. IsFiniteSet(Below(S, k)) /\ Cardinality(Below(S, k)) \in Nat
  <2>1. Below(S, k) \subseteq S
    BY DEF Below
  <2> QED
    BY <1>1, <2>1, FS_Subset, FS_CardinalityType
<1>0. \A j \in S : j < k + 1 <=> j < k \/ j = k
  BY <1>1
<1>3. CASE k \in S
  <2>1. Below(S, k + 1) = Below(S, k) \cup {k} /\ k \notin Below(S, k)
    <3>1. ~(k < k)
      OBVIOUS
    <3> QED
      BY <1>0, <1>3, <3>1, Zenon DEF Below
  <2> QED
    BY <1>1, <1>2, <1>3, <2>1, FS_AddElement
<1>4. CASE k \notin S
  <2>1. Below(S, k + 1) = Below(S, k)
    BY <1>0, <1>4, Zenon DEF Below
  <2> QED
    BY <1>1, <1>2, <1>4, <2>1
<1> QED
  BY <1>1, <1>2, <1>3, <1>4

\* Some slot has exactly i - 1 of the others before it.
LEMMA RankedExists ==
    ASSUME NEW S \in SUBSET KeySlots, NEW i \in 1 .. Cardinality(S)
    PROVE  \E k \in S : Cardinality(Below(S, k)) = i - 1
<1> DEFINE n(k) == Cardinality(Below(S, k))
           T == {k \in 0 .. MaxKeys : n(k) >= i}
<1>0. \A j \in S : ~(j < 0) /\ j < MaxKeys
  BY SdlsAssumption DEF KeySlots, SdlsAssumption
<1>1. MaxKeys \in Nat /\ \A k \in Nat : n(k) \in Nat /\ n(k + 1) \in {n(k), n(k) + 1}
                                      /\ (k \notin S => n(k + 1) = n(k))
  BY BelowGrows, SdlsAssumption DEF SdlsAssumption
<1>2. Cardinality(S) \in Nat
  BY BelowGrows, FS_CardinalityType, SdlsAssumption DEF SdlsAssumption
<1>3. n(0) = 0
  <2>1. Below(S, 0) = {}
    BY <1>0, Zenon DEF Below
  <2> QED
    BY <2>1, FS_EmptySet
<1>4. n(MaxKeys) = Cardinality(S)
  <2>1. Below(S, MaxKeys) = S
    BY <1>0, Zenon DEF Below
  <2> QED
    BY <2>1
<1> HIDE DEF n
<1>5. MaxKeys \in T /\ T \subseteq Nat
  BY <1>1, <1>2, <1>4
<1>6. PICK t \in T : \A y \in T : t <= y
  BY <1>5, LeastNumber
<1>7. t \in 1 .. MaxKeys /\ n(t) >= i
  BY <1>1, <1>2, <1>3, <1>6
<1>8. t - 1 \notin T /\ t - 1 \in 0 .. MaxKeys
  BY <1>1, <1>6, <1>7
<1>9. ~(n(t - 1) >= i)
  BY <1>8
<1>10. /\ t - 1 \in Nat /\ n(t - 1) \in Nat /\ n(t) \in {n(t - 1), n(t - 1) + 1}
       /\ t - 1 \notin S => n(t) = n(t - 1)
  <2>1. t - 1 \in Nat /\ (t - 1) + 1 = t
    BY <1>1, <1>7
  <2> QED
    BY <1>1, <2>1
<1>11. t - 1 \in S /\ n(t - 1) = i - 1
  BY <1>2, <1>7, <1>9, <1>10
<1> QED
  BY <1>11 DEF n

\* The loop of a Key Inventory lists keys in ascending order, each of them once.
LEMMA PresentAscends ==
    ASSUME NEW first, NEW last
    PROVE  /\ Present(first, last) \in Seq(KeySlots) /\ Len(Present(first, last)) <= MaxKeys
           /\ \A i \in 2 .. Len(Present(first, last)) :
                 Present(first, last)[i - 1] < Present(first, last)[i]
<1> DEFINE S == {k \in KeySlots : first <= k /\ k <= last /\ KeyPresent(k)}
           N == Cardinality(S)
           p == Present(first, last)
<1>1. S \in SUBSET KeySlots
  OBVIOUS
<1>2. p = [i \in 1 .. N |-> CHOOSE k \in S : Cardinality(Below(S, k)) = i - 1]
  BY DEF Present, Below
<1> HIDE DEF S, p
<1>3. N \in Nat /\ N <= MaxKeys /\ KeySlots \subseteq Nat
  <2>1. IsFiniteSet(KeySlots) /\ Cardinality(KeySlots) = MaxKeys /\ KeySlots \subseteq Nat
    BY SdlsAssumption, FS_Interval DEF SdlsAssumption, KeySlots
  <2> QED
    BY <1>1, <2>1, FS_Subset, FS_CardinalityType
<1>4. \A i \in 1 .. N : p[i] \in S /\ Cardinality(Below(S, p[i])) = i - 1
  <2> SUFFICES ASSUME NEW i \in 1 .. N
               PROVE  p[i] \in S /\ Cardinality(Below(S, p[i])) = i - 1
    OBVIOUS
  <2>1. \E k \in S : Cardinality(Below(S, k)) = i - 1
    BY <1>1, RankedExists
  <2> QED
    BY <1>2, <2>1
<1>5. p \in Seq(KeySlots) /\ Len(p) = N
  <2>1. p \in [1 .. N -> KeySlots]
    BY <1>1, <1>2, <1>4
  <2> HIDE DEF N
  <2> QED
    BY <1>3, <2>1
<1>6. ASSUME NEW i \in 2 .. N PROVE p[i - 1] < p[i]
  <2>1. i \in 1 .. N /\ i - 1 \in 1 .. N
    BY <1>3
  <2> DEFINE a == p[i - 1]
             b == p[i]
  <2>2. /\ a \in Nat /\ b \in Nat /\ Cardinality(Below(S, a)) = (i - 1) - 1
        /\ Cardinality(Below(S, b)) = i - 1
    BY <1>1, <1>3, <1>4, <2>1
  <2> HIDE DEF a, b
  <2>3. IsFiniteSet(Below(S, a)) /\ IsFiniteSet(Below(S, b))
    BY <1>1, <2>2, BelowGrows
  <2>4. b <= a => Below(S, b) \subseteq Below(S, a)
    <3>1. b <= a => \A j \in S : j < b => j < a
      BY <1>1, <1>3, <2>2
    <3> QED
      BY <3>1, Zenon DEF Below
  <2>5. b <= a => Cardinality(Below(S, b)) <= Cardinality(Below(S, a))
    BY <2>3, <2>4, FS_Subset
  <2> QED
    BY <1>3, <2>2, <2>5 DEF a, b
<1> QED
  BY <1>3, <1>5, <1>6 DEF p

\* What the encoders write for n entries, the decoders accept.
LEMMA ReplyLength ==
    ASSUME NEW proc, NEW n \in Nat,
           \/ proc \in RepliedProcs \ {"KEY_VERIFICATION", "KEY_INVENTORY", "DUMP_LOG"}
           \/ proc = "KEY_VERIFICATION" /\ n \in 1 .. MaxKeys
           \/ proc = "KEY_INVENTORY" /\ n <= MaxKeys
           \/ proc = "DUMP_LOG" /\ n <= LogCapacity
    PROVE  BodyError(proc, ReplyLayout(proc), BodyLen(ReplyLayout(proc), n)) = "OK"
<1>1. CASE proc = "KEY_VERIFICATION" /\ n \in 1 .. MaxKeys
  <2>1. ReplyLayout(proc) = [fixed |-> 0, entry |-> 46, min |-> 1, max |-> MaxKeys]
    BY <1>1 DEF ReplyLayout, IvLen, ChallengeLen, TagLen
  <2>2. ~(n * 46 < 46) /\ (n * 46) % 46 = 0 /\ (n * 46) \div 46 = n
    BY <1>1
  <2> QED
    BY <1>1, <2>1, <2>2, SdlsAssumption DEF BodyError, BodyLen, SdlsAssumption
<1>2. CASE proc = "KEY_INVENTORY" /\ n <= MaxKeys
  <2>1. ReplyLayout(proc) = [fixed |-> 2, entry |-> 3, min |-> 0, max |-> MaxKeys]
    BY <1>2 DEF ReplyLayout
  <2>2. ((2 + n * 3) - 2) % 3 = 0 /\ ((2 + n * 3) - 2) \div 3 = n /\ ~(2 + n * 3 < 2 + 0 * 3)
    OBVIOUS
  <2> QED
    BY <1>2, <2>1, <2>2 DEF BodyError, BodyLen
<1>3. CASE proc = "DUMP_LOG" /\ n <= LogCapacity
  <2>1. ReplyLayout(proc) = [fixed |-> 0, entry |-> 10, min |-> 0, max |-> LogCapacity]
    BY <1>3 DEF ReplyLayout, EventLen
  <2>2. ((0 + n * 10) - 0) % 10 = 0 /\ ((0 + n * 10) - 0) \div 10 = n /\ ~(0 + n * 10 < 0 + 0 * 10)
    OBVIOUS
  <2> QED
    BY <1>3, <2>1, <2>2 DEF BodyError, BodyLen
<1>4. CASE proc \in RepliedProcs \ {"KEY_VERIFICATION", "KEY_INVENTORY", "DUMP_LOG"}
  <2>1. /\ ReplyLayout(proc).entry = 0 /\ ReplyLayout(proc).min = 0
        /\ ReplyLayout(proc).fixed \in Nat
    BY <1>4 DEF RepliedProcs, MonitoringProcs, ReplyLayout
  <2> QED
    BY <2>1 DEF BodyError, BodyLen
<1> QED
  BY <1>1, <1>2, <1>3, <1>4

\* A reply of which the decoder need not look at the keys.
Plain(r) ==
    /\ r.proc \in RepliedProcs \ {"KEY_VERIFICATION"}
    /\ BodyError(r.proc, ReplyLayout(r.proc), r.len) = "OK"
    /\ r.proc = "KEY_INVENTORY" =>
         \A i \in 2 .. Len(r.entries) : r.entries[i - 1].key < r.entries[i].key
    /\ r.proc = "SELF_TEST" => r.entries[1] \in {"OK", "NOT_OK"}

LEMMA PlainAccepted == ASSUME NEW r, Plain(r) PROVE ReplyError(r) = "OK"
BY DEF Plain, ReplyError

\* The keys of a verification pass the check of a peer with the same keys.
Checkable(ids) ==
    /\ ids \in Seq(Nat) /\ Len(ids) \in 1 .. MaxKeys
    /\ \A i \in DOMAIN ids :
         /\ ids[i] \in SessionSlots /\ ~Listed(ids, i) /\ KeyPresent(ids[i])
         /\ keys[ids[i]].psa \in DOMAIN objects
         /\ "DECRYPT" \in objects[keys[ids[i]].psa].usage

\* While a verification is under way, its keys stay as its checks found them.
VerifyReady ==
    verify # NoVerify =>
      /\ verify.proc = "KEY_VERIFICATION" /\ Checkable(verify.ids)
      /\ \A i \in DOMAIN verify.ids : verify.nonces[i].psa = keys[verify.ids[i]].psa

\* Its reply was made with the objects the table still holds.
Verified(r) ==
    /\ r.proc = "KEY_VERIFICATION" /\ Checkable(r.ids)
    /\ r.len = BodyLen(ReplyLayout(r.proc), Len(r.ids))
    /\ r.entries \in [1 .. Len(r.ids) -> {r.entries[i] : i \in 1 .. Len(r.ids)}]
    /\ \A i \in DOMAIN r.ids : /\ r.entries[i].key = r.ids[i] /\ r.entries[i].challenge = i
                               /\ r.entries[i].psa = keys[r.ids[i]].psa

LEMMA VerifiedAccepted == ASSUME NEW r, Verified(r) PROVE ReplyError(r) = "OK"
<1> DEFINE e == r.entries
           n == Len(r.ids)
           errs == [i \in DOMAIN e |->
                     IF e[i].key # r.ids[i] \/ e[i].key \notin SessionSlots
                          \/ Listed(r.ids, i) \/ ~KeyPresent(e[i].key) THEN "KEY"
                     ELSE IF ValidateKey(keys[e[i].key].psa, {"DECRYPT"}, FALSE) # "OK"
                       THEN ValidateKey(keys[e[i].key].psa, {"DECRYPT"}, FALSE)
                     ELSE IF e[i].psa # keys[e[i].key].psa \/ e[i].challenge # i
                       THEN "AUTHENTICATION"
                     ELSE "OK"]
<1>1. n \in 1 .. MaxKeys /\ n \in Nat /\ r.ids \in Seq(Nat) /\ DOMAIN r.ids = 1 .. n
  BY DEF Verified, Checkable
<1>2. DOMAIN e = 1 .. n /\ Len(e) = n
  BY <1>1 DEF Verified
<1>3. BodyError(r.proc, ReplyLayout(r.proc), r.len) = "OK"
  BY <1>1, ReplyLength DEF Verified
<1>4. \A i \in DOMAIN errs : errs[i] = "OK"
  <2> SUFFICES ASSUME NEW i \in 1 .. n PROVE errs[i] = "OK"
    BY <1>2
  <2>1. /\ e[i].key = r.ids[i] /\ e[i].challenge = i /\ e[i].psa = keys[e[i].key].psa
        /\ r.ids[i] \in SessionSlots /\ ~Listed(r.ids, i) /\ KeyPresent(e[i].key)
    BY <1>1 DEF Verified, Checkable
  <2>2. ValidateKey(keys[e[i].key].psa, {"DECRYPT"}, FALSE) = "OK"
    BY <1>1, <2>1 DEF Verified, Checkable, ValidateKey
  <2> QED
    BY <1>2, <2>1, <2>2
<1>5. First(errs) = "OK"
  BY <1>4 DEF First
<1>6. ReplyError(r) = First(errs)
  BY <1>1, <1>2, <1>3 DEF ReplyError, Verified
<1> QED
  BY <1>5, <1>6

\* The objects that encrypt decrypt too: those of the application, if it says so, and
\* those of OTARs, which are imported for both.
BothWays ==
    \A s \in Scenarios : \A p \in DOMAIN s.objects :
        "ENCRYPT" \in s.objects[p].usage => "DECRYPT" \in s.objects[p].usage

Reversible ==
    \A p \in DOMAIN objects : "ENCRYPT" \in objects[p].usage => "DECRYPT" \in objects[p].usage

ReplyGood == reply # NoReply => Plain(reply) \/ Verified(reply)

\* The inductive invariant of the replies
ReplyInv == Reversible /\ VerifyReady /\ ReplyGood

\* What the checks of process_key_verification establish
LEMMA VerifyErrorOk ==
    ASSUME ReplyInv, KeyInv, NEW c \in scenario.pdus, c.proc = "KEY_VERIFICATION",
           HeaderError(c) = "OK", NEW fault, VerifyError(c, fault) = "OK"
    PROVE  Checkable(c.ids)
<1> DEFINE errs == [i \in DOMAIN c.ids |-> VerifyEntry(c, i, fault)]
           n == Len(c.ids)
<1>1. c.ids \in Seq(Nat) /\ c.declared \in Nat /\ EntriesMatch(c)
  BY ScenarioAssumption DEF ScenarioAssumption, KeyInv, Pdus
<1>2. DecodeError(c) = "OK" /\ First(errs) = "OK"
  BY DEF VerifyError
<1>3. \A i \in DOMAIN errs : errs[i] = "OK"
  <2>1. DOMAIN errs \in SUBSET Nat
    BY <1>1
  <2> HIDE DEF errs
  <2> QED
    BY <1>2, <2>1, FirstOk
<1>4. n \in 1 .. MaxKeys
  <2>1. Layout(c.proc) = [fixed |-> 0, entry |-> 18, min |-> 1, max |-> MaxKeys]
    BY DEF Layout, ChallengeLen
  <2>2. n \in Nat /\ c.declared \div 8 = n * 18
    <3>1. c.declared \div 8 = 0 + n * 18
      BY <1>1, <1>2, <2>1 DEF EntriesMatch, BodyLen
    <3> QED
      BY <1>1, <3>1
  <2>3. BodyError(c.proc, Layout(c.proc), n * 18) = "OK"
    BY <1>2, <2>2 DEF DecodeError
  <2> HIDE DEF n
  <2>4. n * 18 \in Nat /\ (n * 18) \div 18 = n /\ (n * 18 < 18 <=> n = 0)
    BY <2>2
  <2> DEFINE m == n * 18
  <2>5. m \in Nat /\ 0 + 1 * 18 = 18 /\ m - 0 = m /\ "OK" \notin {"FORMAT", "CAPACITY"}
    BY <2>4
  <2> HIDE DEF m
  <2>6. BodyLen(Layout(c.proc), Layout(c.proc).min) = 0 + 1 * 18
    BY <2>1 DEF BodyLen
  <2>7. /\ Layout(c.proc).fixed = 0 /\ Layout(c.proc).entry = 18 /\ 18 # 0
        /\ Layout(c.proc).max = MaxKeys
    BY <2>1
  <2>8. BodyError(c.proc, Layout(c.proc), m) = "OK"
    BY <2>3 DEF m
  <2>9. ~(m < 18) /\ m \div 18 <= MaxKeys
    BY <2>5, <2>6, <2>7, <2>8, Zenon DEF BodyError
  <2> QED
    BY <2>2, <2>4, <2>9, SdlsAssumption DEF m, SdlsAssumption
<1>5. ASSUME NEW i \in DOMAIN c.ids
      PROVE  /\ c.ids[i] \in SessionSlots /\ ~Listed(c.ids, i) /\ KeyPresent(c.ids[i])
             /\ keys[c.ids[i]].psa \in DOMAIN objects
             /\ "DECRYPT" \in objects[keys[c.ids[i]].psa].usage
  <2>1. VerifyEntry(c, i, fault) = "OK"
    BY <1>3
  <2> QED
    BY <2>1 DEF VerifyEntry, ValidateKey, ReplyInv, Reversible
<1> QED
  BY <1>1, <1>4, <1>5 DEF Checkable

LEMMA ReversibleStep ==
    ASSUME Next, keys \in [KeySlots -> Key], Reversible PROVE Reversible'
<1>1. CASE objects' = objects
  BY <1>1 DEF Reversible
<1>2. ASSUME NEW c, NEW fault, ProcessOtar(c, fault) PROVE Reversible'
  <2>1. CASE \E imported, doomed, kept : Store(imported, doomed, kept)
    <3>1. PICK imported, doomed, kept : Store(imported, doomed, kept)
      BY <2>1
    <3>2. ASSUME NEW p \in DOMAIN objects'
          PROVE  objects'[p] = NewObject \/ (p \in DOMAIN objects /\ objects'[p] = objects[p])
      BY <3>1 DEF Store
    <3> QED
      BY <3>2 DEF Reversible, NewObject
  <2>2. objects' = objects \/ \E imported, doomed, kept : Store(imported, doomed, kept)
    BY <1>2 DEF ProcessOtar, Rollback
  <2> QED
    BY <1>1, <2>1, <2>2
<1>3. ASSUME NEW c, NEW fault, ProcessLifecycle(c, fault) PROVE Reversible'
  BY <1>1, <1>3 DEF ProcessLifecycle
<1> QED
  BY <1>1, <1>2, <1>3, KeySteps DEF CountersMove

\* Keys that only count keep a verification and its reply good.
LEMMA CheckableStays ==
    ASSUME NEW ids, Checkable(ids), objects' = objects,
           \A k \in KeySlots : keys'[k].psa = keys[k].psa
    PROVE  /\ \A i \in DOMAIN ids : keys'[ids[i]].psa = keys[ids[i]].psa
           /\ ids \in Seq(Nat) /\ Len(ids) \in 1 .. MaxKeys
           /\ \A i \in DOMAIN ids :
                /\ ids[i] \in SessionSlots /\ ~Listed(ids, i)
                /\ ids[i] \in KeySlots /\ keys'[ids[i]].psa # NullKey
                /\ keys'[ids[i]].psa \in DOMAIN objects'
                /\ "DECRYPT" \in objects'[keys'[ids[i]].psa].usage
BY DEF Checkable, KeyPresent

LEMMA CountingKeeps ==
    ASSUME ReplyInv, CountersMove, UNCHANGED << verify, reply >>
    PROVE  VerifyReady' /\ ReplyGood'
<1>1. objects' = objects /\ \A k \in KeySlots : keys'[k].psa = keys[k].psa
  BY DEF CountersMove
<1>2. VerifyReady'
  <2>1. CASE verify = NoVerify
    BY <2>1 DEF VerifyReady
  <2>2. CASE verify # NoVerify
    <3>1. Checkable(verify.ids) /\ VerifyReady
      BY <2>2 DEF ReplyInv, VerifyReady
    <3> QED
      BY <1>1, <2>2, <3>1, CheckableStays DEF VerifyReady, Checkable, KeyPresent, Listed
  <2> QED
    BY <2>1, <2>2
<1>3. ReplyGood'
  <2>1. CASE reply = NoReply \/ Plain(reply)
    BY <2>1 DEF ReplyGood, Plain
  <2>2. CASE Verified(reply)
    <3>1. Checkable(reply.ids)
      BY <2>2 DEF Verified
    <3>2. Checkable(reply.ids)' /\ \A i \in DOMAIN reply.ids : keys'[reply.ids[i]].psa = keys[reply.ids[i]].psa
      BY <1>1, <3>1, CheckableStays DEF Checkable, KeyPresent, Listed
    <3>3. Verified(reply)'
      BY <2>2, <3>2, Zenon DEF Verified
    <3> QED
      BY <3>3 DEF ReplyGood
  <2> QED
    BY <2>1, <2>2 DEF ReplyInv, ReplyGood
<1> QED
  BY <1>2, <1>3

\* The replies other than that of a verification
LEMMA AnswerPlain ==
    ASSUME NEW c, NEW entries, Len(entries) \in Nat,
           c.proc \in RepliedProcs \ {"KEY_VERIFICATION"},
           c.proc = "KEY_INVENTORY" =>
             /\ Len(entries) <= MaxKeys
             /\ \A i \in 2 .. Len(entries) : entries[i - 1].key < entries[i].key,
           c.proc = "DUMP_LOG" => Len(entries) <= LogCapacity,
           c.proc = "SELF_TEST" => entries[1] \in {"OK", "NOT_OK"}
    PROVE  Plain(Answer(c, entries))
<1> DEFINE r == Answer(c, entries)
<1>1. /\ r.proc = c.proc /\ r.entries = entries
      /\ r.len = BodyLen(ReplyLayout(c.proc), Len(entries))
  BY DEF Answer
<1>2. BodyError(c.proc, ReplyLayout(c.proc), r.len) = "OK"
  BY <1>1, ReplyLength
<1> HIDE DEF r
<1>3. Plain(r)
  BY <1>1, <1>2 DEF Plain
<1> QED
  BY <1>3 DEF r

\* The end of a PDU that begins no verification
LEMMA ResultGood ==
    ASSUME NEW err, NEW n, NEW answer, Result(err, n, answer),
           err = "OK" => answer = NoReply \/ Plain(answer),
           verify = NoVerify, verify' = verify
    PROVE  VerifyReady' /\ ReplyGood'
<1>1. reply' = NoReply \/ Plain(reply')
  BY DEF Result
<1>2. VerifyReady'
  BY DEF VerifyReady
<1> QED
  BY <1>1, <1>2 DEF ReplyGood, Plain

LEMMA InventoryPlain ==
    ASSUME NEW c, c.proc = "KEY_INVENTORY"
    PROVE  LET list == Present(c.ids[1], c.ids[2])
           IN  Plain(Answer(c, [i \in DOMAIN list |->
                                  [key |-> list[i], state |-> keys[list[i]].state]]))
<1> DEFINE list == Present(c.ids[1], c.ids[2])
           e == [i \in DOMAIN list |-> [key |-> list[i], state |-> keys[list[i]].state]]
<1>1. /\ list \in Seq(KeySlots) /\ Len(list) <= MaxKeys
      /\ \A i \in 2 .. Len(list) : list[i - 1] < list[i]
  BY PresentAscends
<1> HIDE DEF list
<1>2. Len(e) = Len(list) /\ Len(list) \in Nat /\ DOMAIN list = 1 .. Len(list)
  BY <1>1
<1>3. \A i \in DOMAIN list : e[i].key = list[i]
  OBVIOUS
<1>4. \A i \in 2 .. Len(e) : e[i - 1].key < e[i].key
  <2> SUFFICES ASSUME NEW i \in 2 .. Len(list) PROVE e[i - 1].key < e[i].key
    BY <1>2
  <2>1. i \in DOMAIN list /\ i - 1 \in DOMAIN list
    BY <1>2
  <2> HIDE DEF e
  <2> QED
    BY <1>1, <1>3, <2>1
<1> HIDE DEF e
<1>5. c.proc \in RepliedProcs \ {"KEY_VERIFICATION"}
  BY DEF RepliedProcs
<1>6. Plain(Answer(c, e))
  BY <1>1, <1>2, <1>4, <1>5, AnswerPlain
<1> QED
  BY <1>6 DEF list, e

\* What a PDU leaves as a reply
LEMMA PduReplies ==
    ASSUME ReplyInv, KeyInv, LogInv, NEW c \in scenario.pdus, NEW fault \in Nat,
           ProcessPdu(c, fault)
    PROVE  VerifyReady' /\ ReplyGood'
<1>1. verify = NoVerify
  BY DEF ProcessPdu
<1>2. ASSUME NEW err, NEW n, NEW answer, Result(err, n, answer), verify' = verify,
             err = "OK" => answer = NoReply \/ Plain(answer)
      PROVE  VerifyReady' /\ ReplyGood'
  BY <1>1, <1>2, ResultGood
<1>3. ASSUME NEW err, NEW n, EndPdu(c, err, n, NoReply), verify' = verify
      PROVE  VerifyReady' /\ ReplyGood'
  BY <1>2, <1>3 DEF EndPdu
<1>4. CASE RejectPdu(c)
  BY <1>3, <1>4 DEF RejectPdu
<1>5. CASE ProcessOtar(c, fault)
  BY <1>3, <1>5 DEF ProcessOtar
<1>6. CASE ProcessLifecycle(c, fault)
  BY <1>3, <1>6 DEF ProcessLifecycle
<1>7. ASSUME NEW room, ProcessKeyInventory(c, fault, room) PROVE VerifyReady' /\ ReplyGood'
  <2> DEFINE list == Present(c.ids[1], c.ids[2])
             answer == Answer(c, [i \in DOMAIN list |->
                                    [key |-> list[i], state |-> keys[list[i]].state]])
  <2>1. verify' = verify /\ c.proc = "KEY_INVENTORY" /\ \E err : Result(err, fault, answer)
    BY <1>7 DEF ProcessKeyInventory, EndPdu
  <2>2. Plain(answer)
    BY <2>1, InventoryPlain
  <2> HIDE DEF answer
  <2> QED
    BY <1>2, <2>1, <2>2
<1>8. ASSUME BeginKeyVerification(c, fault), HeaderError(c) = "OK"
      PROVE  VerifyReady' /\ ReplyGood'
  <2>1. CASE EndPdu(c, VerifyError(c, fault), fault, NoReply) /\ UNCHANGED verify
    BY <1>3, <2>1
  <2>2. CASE /\ VerifyError(c, fault) = "OK"
             /\ verify' = [proc |-> c.proc, ids |-> c.ids, iv |-> txIv,
                           nonces |-> [i \in DOMAIN c.ids |->
                              Nonce(c.ids[i], (txIv + (i - 1) * IvStride) % IvModulus)]]
             /\ reply' = reply
    <3>1. c.proc = "KEY_VERIFICATION" /\ UNCHANGED << keys, objects >>
      BY <1>8 DEF BeginKeyVerification, keyVars
    <3>2. Checkable(c.ids)
      BY <1>8, <2>2, <3>1, VerifyErrorOk
    <3>3. /\ verify'.proc = "KEY_VERIFICATION" /\ verify'.ids = c.ids
          /\ \A i \in DOMAIN c.ids : verify'.nonces[i].psa = keys[c.ids[i]].psa
      BY <2>2, <3>1 DEF Nonce
    <3>4. VerifyReady'
      BY <3>1, <3>2, <3>3 DEF VerifyReady, Checkable, KeyPresent
    <3>5. ReplyGood'
      BY <2>2, <3>1 DEF ReplyInv, ReplyGood, Plain, Verified, Checkable, KeyPresent
    <3> QED
      BY <3>4, <3>5
  <2> QED
    BY <1>8, <2>1, <2>2 DEF BeginKeyVerification
<1>9. CASE SaManagement(c, fault)
  <2>1. CASE ProcessReadSa(c)
    <3>1. verify' = verify /\ c.proc \in RepliedProcs \ {"KEY_VERIFICATION", "KEY_INVENTORY",
                                                         "DUMP_LOG", "SELF_TEST"}
      BY <2>1 DEF ProcessReadSa, RepliedProcs
    <3>2. \A x : Len(<< x >>) \in Nat
      OBVIOUS
    <3>3. \A x : Plain(Answer(c, << x >>))
      BY <3>1, <3>2, AnswerPlain
    <3>4. PICK err, x, y : EndPdu(c, err, 0, IF err # "OK" THEN NoReply
                                   ELSE IF c.proc = "READ_ARSN" THEN Answer(c, << x >>)
                                   ELSE Answer(c, << y >>))
      BY <2>1 DEF ProcessReadSa
    <3> QED
      BY <1>2, <3>1, <3>3, <3>4 DEF EndPdu
  <2>2. CASE \/ ProcessStartSa(c, fault) \/ ProcessSaTransition(c) \/ ProcessRekeySa(c, fault)
             \/ ProcessSetArsn(c) \/ ProcessSetArsnWindow(c)
    BY <1>3, <2>2 DEF ProcessStartSa, ProcessSaTransition, ProcessRekeySa, ProcessSetArsn,
                      ProcessSetArsnWindow
  <2> QED
    BY <1>9, <2>1, <2>2 DEF SaManagement
<1>10. CASE Monitoring(c)
  <2>1. CASE ProcessAlarmFlagReset(c)
    BY <1>3, <2>1 DEF ProcessAlarmFlagReset
  <2>2. ASSUME NEW room, ProcessPing(c, room) PROVE VerifyReady' /\ ReplyGood'
    <3>1. c.proc = "PING" /\ c.proc \in RepliedProcs /\ Len(<< >>) \in Nat /\ verify' = verify
      BY <2>2 DEF ProcessPing, RepliedProcs, MonitoringProcs
    <3>2. Plain(Answer(c, << >>))
      BY <3>1, AnswerPlain
    <3> QED
      BY <1>2, <2>2, <3>1, <3>2 DEF ProcessPing, EndPdu
  <2>3. ASSUME NEW count, c.proc \in {"LOG_STATUS", "ERASE_LOG"}
        PROVE  Plain(Answer(c, LogSummary(count)))
    <3>1. c.proc \in RepliedProcs /\ Len(LogSummary(count)) \in Nat
      BY <2>3 DEF RepliedProcs, MonitoringProcs, LogSummary
    <3> QED
      BY <2>3, <3>1, AnswerPlain
  <2>4. ASSUME NEW room, ProcessLogStatus(c, room) PROVE VerifyReady' /\ ReplyGood'
    <3>1. /\ c.proc = "LOG_STATUS" /\ verify' = verify
          /\ Result(MonitoringError(c, 1, room), 0, Answer(c, LogSummary(log.count)))
      BY <2>4 DEF ProcessLogStatus, EndPdu
    <3> QED
      BY <1>2, <2>3, <3>1
  <2>5. ASSUME NEW room, ProcessEraseLog(c, room) PROVE VerifyReady' /\ ReplyGood'
    <3>1. c.proc = "ERASE_LOG" /\ verify' = verify
      BY <2>5 DEF ProcessEraseLog
    <3>2. CASE EndPdu(c, MonitoringError(c, 1, room), 0, NoReply)
      BY <1>3, <3>1, <3>2
    <3>3. CASE Result(MonitoringError(c, 1, room), 0, Answer(c, LogSummary(0)))
      BY <1>2, <2>3, <3>1, <3>3
    <3> QED
      BY <2>5, <3>2, <3>3 DEF ProcessEraseLog
  <2>6. ASSUME NEW room, ProcessDumpLog(c, room) PROVE VerifyReady' /\ ReplyGood'
    <3>1. /\ c.proc = "DUMP_LOG" /\ c.proc \in RepliedProcs /\ verify' = verify
          /\ Result(MonitoringError(c, log.count, room), 0, Answer(c, Dump(log)))
      BY <2>6 DEF ProcessDumpLog, EndPdu, RepliedProcs, MonitoringProcs
    <3>2. log.count \in Nat /\ log.count <= LogCapacity
      BY Capacity DEF LogInv, RingInv
    <3>3. Len(Dump(log)) = log.count
      BY <3>2 DEF Dump
    <3>4. Plain(Answer(c, Dump(log)))
      BY <3>1, <3>2, <3>3, AnswerPlain
    <3> QED
      BY <1>2, <3>1, <3>4
  <2>7. ASSUME NEW room, NEW test \in {"OK", "NOT_OK", "OTHER"}, ProcessSelfTest(c, room, test)
        PROVE  VerifyReady' /\ ReplyGood'
    <3>1. /\ c.proc = "SELF_TEST" /\ c.proc \in RepliedProcs /\ verify' = verify
          /\ Len(<< test >>) \in Nat /\ << test >>[1] = test
      BY <2>7 DEF ProcessSelfTest, RepliedProcs, MonitoringProcs
    <3>2. PICK err : Result(err, 0, Answer(c, << test >>)) /\ (err = "OK" => test # "OTHER")
      BY <2>7 DEF ProcessSelfTest
    <3>3. test # "OTHER" => Plain(Answer(c, << test >>))
      BY <2>7, <3>1, AnswerPlain
    <3> QED
      BY <1>2, <3>1, <3>2, <3>3
  <2> QED
    BY <1>10, <2>1, <2>2, <2>4, <2>5, <2>6, <2>7 DEF Monitoring
<1> QED
  BY <1>4, <1>5, <1>6, <1>7, <1>8, <1>9, <1>10 DEF ProcessPdu, KeyManagement

\* The reply to a verification is made with the objects its checks found.
LEMMA VerificationReplies ==
    ASSUME ReplyInv, CountersMove, EndKeyVerification PROVE VerifyReady' /\ ReplyGood'
<1> DEFINE ids == verify.ids
           e == [i \in DOMAIN ids |-> [key |-> ids[i], psa |-> verify.nonces[i].psa,
                                       challenge |-> i]]
           n == Len(ids)
<1>1. /\ verify.proc = "KEY_VERIFICATION" /\ Checkable(ids)
      /\ \A i \in DOMAIN ids : verify.nonces[i].psa = keys[ids[i]].psa
  BY DEF ReplyInv, VerifyReady, EndKeyVerification
<1>2. verify' = NoVerify /\ reply' = Answer(verify, e)
  BY DEF EndKeyVerification
<1>3. objects' = objects /\ \A k \in KeySlots : keys'[k].psa = keys[k].psa
  BY DEF CountersMove
<1>4. /\ n \in 1 .. MaxKeys /\ n \in Nat /\ DOMAIN ids = 1 .. n /\ Len(e) = n
      /\ \A i \in DOMAIN ids : keys'[ids[i]].psa = keys[ids[i]].psa
  <2>1. ids \in Seq(Nat) /\ n \in 1 .. MaxKeys
    BY <1>1 DEF Checkable
  <2>2. \A i \in DOMAIN ids : keys'[ids[i]].psa = keys[ids[i]].psa
    BY <1>1, <1>3, CheckableStays
  <2> HIDE DEF ids
  <2> QED
    BY <2>1, <2>2
<1>5. /\ reply'.proc = "KEY_VERIFICATION" /\ reply'.ids = ids /\ reply'.entries = e
      /\ reply'.len = BodyLen(ReplyLayout("KEY_VERIFICATION"), n)
  BY <1>1, <1>2, <1>4 DEF Answer
<1>6. \A i \in DOMAIN ids : e[i].key = ids[i] /\ e[i].challenge = i /\ e[i].psa = keys'[ids[i]].psa
  BY <1>1, <1>4
<1>7. e \in [1 .. n -> {e[i] : i \in 1 .. n}]
  BY <1>4
<1> HIDE DEF e, n
<1>9. /\ ids \in Seq(Nat) /\ Len(ids) \in 1 .. MaxKeys
      /\ \A i \in DOMAIN ids :
           /\ ids[i] \in SessionSlots /\ ~Listed(ids, i)
           /\ ids[i] \in KeySlots /\ keys'[ids[i]].psa # NullKey
           /\ keys'[ids[i]].psa \in DOMAIN objects'
           /\ "DECRYPT" \in objects'[keys'[ids[i]].psa].usage
  BY <1>1, <1>3, CheckableStays
<1>10. Checkable(reply.ids)'
  BY <1>5, <1>9 DEF Checkable, KeyPresent, Listed
<1>11. Verified(reply)'
  BY <1>5, <1>6, <1>7, <1>10, Zenon DEF Verified, n
<1> QED
  BY <1>2, <1>11 DEF VerifyReady, ReplyGood

LEMMA ReplyStep == ReplyInv /\ KeyInv /\ LogInv /\ [Next]_vars => ReplyInv'
<1> SUFFICES ASSUME ReplyInv, KeyInv, LogInv, [Next]_vars PROVE ReplyInv'
  OBVIOUS
<1>1. CASE UNCHANGED vars
  BY <1>1 DEF vars, keyVars, ReplyInv, Reversible, VerifyReady, ReplyGood, Plain, Verified,
              Checkable, KeyPresent, Listed
<1>2. CASE Next
  <2>1. keys \in [KeySlots -> Key]
    BY DEF KeyInv
  <2>2. Reversible'
    BY <1>2, <2>1, ReversibleStep DEF ReplyInv
  <2>3. ASSUME UNCHANGED << keyVars, verify >>, reply' = NoReply, verify = NoVerify
        PROVE  VerifyReady' /\ ReplyGood'
    BY <2>3 DEF VerifyReady, ReplyGood
  <2>4. CASE \E f \in scenario.frames, fault \in BOOLEAN : ProcessSecurity(f, fault)
    BY <2>2, <2>3, <2>4 DEF ProcessSecurity, ReplyInv
  <2>5. CASE BeginDispatch \/ Withdraw
    BY <2>2, <2>3, <2>5 DEF BeginDispatch, Withdraw, ReplyInv
  <2>6. CASE EndKeyVerification
    <3>1. CountersMove
      BY <1>2, <2>1, <2>6, KeySteps DEF EndKeyVerification, ProcessOtar, ProcessLifecycle
    <3> QED
      BY <2>2, <2>6, <3>1, VerificationReplies DEF ReplyInv
  <2>7. CASE \E s \in scenario.sends, fault \in BOOLEAN : ApplySecurity(s, fault)
    <3>1. CountersMove
      BY <2>1, <2>7, SendCounts
    <3>2. UNCHANGED << verify, reply >>
      BY <2>7 DEF ApplySecurity
    <3> QED
      BY <2>2, <3>1, <3>2, CountingKeeps DEF ReplyInv
  <2>8. CASE \E c \in scenario.pdus : \E fault \in 0 .. MaxCalls(c) : ProcessPdu(c, fault)
    <3>1. PICK c \in scenario.pdus, fault \in Nat : ProcessPdu(c, fault)
      BY <2>8
    <3> QED
      BY <2>2, <3>1, PduReplies DEF ReplyInv
  <2> QED
    BY <1>2, <2>4, <2>5, <2>6, <2>7, <2>8 DEF Next
<1> QED
  BY <1>1, <1>2

\* If every object that encrypts decrypts too, every reply passes its decoder, and that
\* of a Key Verification the check of a peer with the same keys, also when frames are
\* sent while the verification is under way and while its reply waits.
THEOREM RepliesAcceptedHolds == ASSUME BothWays PROVE Spec => []RepliesAccepted
<1> DEFINE Inv == MonitorInv /\ ReplyInv
<1>1. Init => Inv
  <2>1. Init => MonitorInv
    <3>1. Init => EventInv
      BY DEF Init, InitFrom, NoAuth, AuthFields, EventInv, EventsAttributed
    <3> QED
      BY <3>1, SaInit, KeyInit, StoreInit, MonitorInit DEF MonitorInv
  <2>2. Init => ReplyInv
    BY BothWays DEF BothWays, Init, InitFrom, ReplyInv, Reversible, VerifyReady, ReplyGood
  <2> QED
    BY <2>1, <2>2
<1>2. Inv /\ [Next]_vars => Inv'
  <2>1. MonitorInv /\ [Next]_vars => MonitorInv'
    BY SaStep, KeyStep, StoreStep, EventStep, MonitorStep DEF MonitorInv
  <2>2. MonitorInv /\ ReplyInv /\ [Next]_vars => ReplyInv'
    BY ReplyStep DEF MonitorInv
  <2> QED
    BY <2>1, <2>2
<1>3. Inv => RepliesAccepted
  BY PlainAccepted, VerifiedAccepted DEF ReplyInv, ReplyGood, RepliesAccepted
<1> HIDE DEF Inv
<1> QED
  BY <1>1, <1>2, <1>3, PTL DEF Spec

================================================================================

------------------------------ MODULE InputProofs -------------------------------
(***************************************************************************)
(* The receive side of the packet input.  For every set of APIDs and handlers    *)
(* and every table size: the array of the router holds each APID once, and is    *)
(* the partial function of ApidRoutes.  For every number of sockets, starts and  *)
(* datagrams: at most one thread is in the receive loop of an instance, sockets  *)
(* are neither lost nor closed twice, the datagrams counted are those of the     *)
(* instance's own threads, and what the threads of the adapter do to the router  *)
(* is what the router's own specification allows.                             *)
(***************************************************************************)
EXTENDS UdpInput, FiniteSetTheorems, FunctionTheorems, WellFoundedInduction, TLAPS

-------------------------------------------------------------------------------
(* The router *)

\* What is in an active entry came from a call that passed the APID check.
ActiveValid ==
    \A i \in Index : entries[i].active => entries[i].apid \in Apids /\ entries[i].apid <= ApidMax

\* The inductive invariant: OneEntryEach needs the types of the entries, and the
\* counting argument of the refinement that no other number is in an active one.
RouterInv == TypeOK /\ ActiveValid /\ OneEntryEach

\* The search loops find something: a non-empty set of indices has a first one.
LEMMA FirstIsIn ==
    ASSUME NEW I \in SUBSET Nat, I # {}
    PROVE  First(I) \in I
<1> DEFINE R == OpToRel(<, Nat)
<1>1. \A j, i \in Nat : j < i => << j, i >> \in R
  BY DEF OpToRel
<1>2. \E i \in I : \A j \in I : ~(<< j, i >> \in R)
  BY NatLessThanWellFounded, WFMin, Zenon
<1> HIDE DEF R
<1>3. PICK i \in I : \A j \in I : ~(<< j, i >> \in R)
  BY <1>2, Zenon
<1>4. ASSUME NEW j \in I PROVE i <= j
  <2>1. ~(<< j, i >> \in R) /\ j \in Nat /\ i \in Nat
    BY <1>3, Zenon
  <2>2. ~(j < i)
    BY <2>1, <1>1, Zenon
  <2> QED
    BY <2>1, <2>2
<1> QED
  BY <1>4 DEF First

\* Writing one entry keeps the invariant if the APID written is in no other one.
LEMMA SetKeeps ==
    ASSUME RouterAssumption, RouterInv,
           NEW i \in Index, NEW a \in Apids, a <= ApidMax, NEW h \in Handlers,
           Holding(a) \subseteq {i},
           entries' = [entries EXCEPT ![i] = Entry(a, h)]
    PROVE  RouterInv'
<1>1. TypeOK'
  BY DEF RouterInv, TypeOK, Entry
<1>2. ActiveValid'
  BY DEF RouterInv, TypeOK, ActiveValid, Entry
<1>3. OneEntryEach'
  BY DEF RouterInv, TypeOK, OneEntryEach, Holding, Entry
<1> QED
  BY <1>1, <1>2, <1>3 DEF RouterInv

\* Clearing an entry keeps the invariant.
LEMMA ClearKeeps ==
    ASSUME RouterInv, NEW i \in Index, entries' = [entries EXCEPT ![i] = Cleared]
    PROVE  RouterInv'
<1>1. TypeOK'
  BY DEF RouterInv, TypeOK, Cleared
<1>2. ActiveValid'
  BY DEF RouterInv, TypeOK, ActiveValid, Cleared
<1>3. OneEntryEach'
  BY DEF RouterInv, TypeOK, OneEntryEach, Holding, Cleared
<1> QED
  BY <1>1, <1>2, <1>3 DEF RouterInv

\* So does a call that writes nothing.
LEMMA RefuseKeeps ==
    ASSUME RouterInv, UNCHANGED entries
    PROVE  RouterInv'
BY DEF RouterInv, TypeOK, ActiveValid, OneEntryEach, Holding

\* No APID is ever active in two entries of the table, nor an invalid one in
\* any (ccsds_router_register_apid and ccsds_router_unregister_apid).
THEOREM RouterInvariant == Spec => []RouterInv
<1>1. Init => RouterInv
  BY DEF Init, RouterInv, TypeOK, ActiveValid, OneEntryEach, Holding, Cleared
<1>2. RouterInv /\ [Next]_vars => RouterInv'
  <2> SUFFICES ASSUME RouterInv, [Next]_vars PROVE RouterInv'
    OBVIOUS
  <2> Index \in SUBSET Nat
    BY RouterAssumption DEF Index
  <2>1. ASSUME NEW a \in Apids, NEW h \in Handlers, RegisterApid(a, h) PROVE RouterInv'
    <3>1. CASE UNCHANGED entries
      BY <3>1, RefuseKeeps
    <3>2. CASE a <= ApidMax /\ Holding(a) # {} /\ Set(First(Holding(a)), Entry(a, h), "ok")
      <4>1. First(Holding(a)) \in Holding(a)
        BY <3>2, FirstIsIn DEF Holding
      <4>2. First(Holding(a)) \in Index /\ Holding(a) \subseteq {First(Holding(a))}
        BY <4>1 DEF RouterInv, OneEntryEach, Holding
      <4> QED
        BY <3>2, <4>2, SetKeeps, RouterAssumption DEF Set
    <3>3. CASE /\ a <= ApidMax /\ Holding(a) = {} /\ Free # {}
               /\ Set(First(Free), Entry(a, h), "ok")
      <4>1. First(Free) \in Index
        BY <3>3, FirstIsIn DEF Free
      <4> QED
        BY <3>3, <4>1, SetKeeps, RouterAssumption DEF Set
    <3> QED
      BY <2>1, <3>1, <3>2, <3>3 DEF RegisterApid, Refuse
  <2>2. ASSUME NEW a \in Apids, UnregisterApid(a) PROVE RouterInv'
    <3>1. CASE UNCHANGED entries
      BY <3>1, RefuseKeeps
    <3>2. CASE Holding(a) # {} /\ Set(First(Holding(a)), Cleared, "ok")
      <4>1. First(Holding(a)) \in Index
        BY <3>2, FirstIsIn DEF Holding
      <4> QED
        BY <3>2, <4>1, ClearKeeps DEF Set
    <3> QED
      BY <2>2, <3>1, <3>2 DEF UnregisterApid, Refuse
  <2>3. ASSUME NEW a \in Apids, Dispatch(a) PROVE RouterInv'
    BY <2>3, RefuseKeeps DEF Dispatch, Refuse
  <2>4. CASE UNCHANGED vars
    BY <2>4, RefuseKeeps DEF vars
  <2> QED
    BY <2>1, <2>2, <2>3, <2>4 DEF Next
<1> QED
  BY <1>1, <1>2, PTL DEF Spec

\* The same for the property the runs check.
THEOREM RouterOneEntryEach == Spec => []OneEntryEach
BY RouterInvariant, PTL DEF RouterInv

-------------------------------------------------------------------------------
(* The refinement of ApidRoutes *)

\* With each APID in one entry, the table has room for another exactly if fewer
\* APIDs are registered than it has entries.
LEMMA RoomIsFree ==
    ASSUME RouterAssumption, RouterInv
    PROVE  (Cardinality(Registered) < Slots) <=> (Free # {})
<1> DEFINE Active == Index \ Free
           f == [i \in Active |-> entries[i].apid]
<1>1. IsFiniteSet(Index) /\ Cardinality(Index) = Slots
  BY FS_Interval, RouterAssumption DEF Index, RouterAssumption
<1>2. /\ IsFiniteSet(Active) /\ Cardinality(Active) <= Slots
      /\ Cardinality(Active) = Slots => Active = Index
      /\ Cardinality(Active) \in Nat
  BY <1>1, FS_Subset, FS_CardinalityType
<1>3. \A i \in Active : i \in Holding(entries[i].apid) /\ entries[i].apid \in Apids
  BY DEF Free, Holding, RouterInv, ActiveValid
<1>4. \A i \in Active : entries[i].apid \in Registered
  BY <1>3 DEF Registered
<1>5. \A a \in Registered : \E i \in Active : entries[i].apid = a
  BY DEF Registered, Holding, Free
<1>6. \A i, j \in Active : entries[i].apid = entries[j].apid => i = j
  BY <1>3 DEF RouterInv, OneEntryEach
<1>7. f \in Bijection(Active, Registered)
  BY <1>4, <1>5, <1>6 DEF Bijection, Injection, Surjection, IsInjective
<1>8. Cardinality(Registered) = Cardinality(Active)
  BY <1>2, <1>7, FS_Bijection DEF ExistsBijection
<1>9. Active = Index <=> Free = {}
  BY DEF Free
<1>10. Cardinality(Active) < Slots <=> Active # Index
  BY <1>1, <1>2, RouterAssumption DEF RouterAssumption
<1> QED
  BY <1>8, <1>9, <1>10

\* Whichever entry holds an APID says where its packets go.
RouteMapExact ==
    \A a \in Registered : \A i \in Holding(a) : RouteMap[a] = entries[i].handler

\* The unique entry is the one the search loop finds.
LEMMA RouteMapIs == RouterInv => RouteMapExact
<1> SUFFICES ASSUME RouterInv, NEW a \in Registered, NEW i \in Holding(a)
             PROVE  RouteMap[a] = entries[i].handler
  BY DEF RouteMapExact
<1>1. Holding(a) \in SUBSET Nat
  BY RouterAssumption DEF Holding, Index, RouterAssumption
<1>2. First(Holding(a)) \in Holding(a)
  BY <1>1, FirstIsIn
<1>3. First(Holding(a)) = i
  BY <1>2 DEF RouterInv, OneEntryEach, Registered
<1> QED
  BY <1>3 DEF RouteMap

\* The same after a step.
LEMMA RouteMapIsNext == RouterInv' => RouteMapExact'
BY RouteMapIs, PTL

\* Writing an entry for an APID that no other entry holds sets its route, and
\* the routes of the APIDs in the other entries stay.
LEMMA SetRoutes ==
    ASSUME RouterInv, RouterInv', NEW i \in Index, NEW a \in Apids, NEW h \in Handlers,
           Holding(a) \subseteq {i}, entries[i].active => entries[i].apid = a,
           entries' = [entries EXCEPT ![i] = Entry(a, h)]
    PROVE  RouteMap' = [b \in Registered \cup {a} |-> IF b = a THEN h ELSE RouteMap[b]]
<1>1. Holding(a)' = {i} /\ \A b \in Apids \ {a} : Holding(b)' = Holding(b)
  BY DEF RouterInv, TypeOK, Holding, Entry
<1>2. Registered' = Registered \cup {a}
  BY <1>1 DEF Registered
<1>3. ASSUME NEW b \in Registered' PROVE RouteMap'[b] = IF b = a THEN h ELSE RouteMap[b]
  <2>1. CASE b = a
    BY <1>1, <2>1, RouteMapIsNext DEF RouteMapExact, RouterInv, TypeOK, Entry
  <2>2. CASE b # a
    <3>1. b \in Registered /\ Holding(b)' = Holding(b) /\ i \notin Holding(b)
      BY <1>1, <1>2, <2>2 DEF Registered, Holding
    <3>2. PICK j \in Holding(b) : TRUE
      BY <3>1 DEF Registered
    <3>3. entries'[j] = entries[j]
      BY <3>1, <3>2 DEF RouterInv, TypeOK, Holding
    <3> QED
      BY <2>2, <3>1, <3>2, <3>3, RouteMapIs, RouteMapIsNext DEF RouteMapExact
  <2> QED
    BY <2>1, <2>2
<1>4. RouteMap' = [b \in Registered' |-> RouteMap'[b]]
  BY DEF RouteMap
<1> QED
  BY <1>2, <1>3, <1>4

\* Clearing the entry of an APID removes its route and no other.
LEMMA ClearRoutes ==
    ASSUME RouterInv, RouterInv', NEW a \in Apids, NEW i \in Holding(a),
           entries' = [entries EXCEPT ![i] = Cleared]
    PROVE  RouteMap' = [b \in Registered \ {a} |-> RouteMap[b]]
<1>1. Holding(a)' = {} /\ \A b \in Apids \ {a} : Holding(b)' = Holding(b)
  BY DEF RouterInv, TypeOK, OneEntryEach, Holding, Cleared
<1>2. Registered' = Registered \ {a}
  BY <1>1 DEF Registered
<1>3. ASSUME NEW b \in Registered' PROVE RouteMap'[b] = RouteMap[b]
  <2>1. b \in Registered /\ Holding(b)' = Holding(b) /\ i \notin Holding(b)
    BY <1>1, <1>2 DEF Registered, Holding
  <2>2. PICK j \in Holding(b) : TRUE
    BY <2>1 DEF Registered
  <2>3. entries'[j] = entries[j]
    BY <2>1, <2>2 DEF RouterInv, TypeOK, Holding
  <2> QED
    BY <2>1, <2>2, <2>3, RouteMapIs, RouteMapIsNext DEF RouteMapExact
<1>4. RouteMap' = [b \in Registered' |-> RouteMap'[b]]
  BY DEF RouteMap
<1> QED
  BY <1>2, <1>3, <1>4

\* An action that leaves the entries alone leaves the routes alone.
LEMMA SameRoutes == UNCHANGED entries => UNCHANGED RouteMap
BY DEF RouteMap, Registered, Holding

\* The array of ccsds_router.c implements the partial function of
\* ccsds_router.h: every call has the effect and the result promised.
THEOREM RouterRefinesRoutes == Spec => RoutesRefined
<1>1. Init => Routes!RoutesInit
  <2> SUFFICES ASSUME Init PROVE RouteMap = << >>
    BY DEF Init, Routes!RoutesInit
  <2>1. Registered = {}
    BY DEF Init, Registered, Holding, Cleared
  <2> QED
    BY <2>1 DEF RouteMap
<1>2. RouterInv /\ RouterInv' /\ [Next]_vars => [Routes!RoutesNext]_(Routes!routeVars)
  <2> SUFFICES ASSUME RouterInv, RouterInv', [Next]_vars
               PROVE  [Routes!RoutesNext]_(Routes!routeVars)
    OBVIOUS
  <2>0. /\ \A a \in Apids : a \in DOMAIN RouteMap <=> Holding(a) # {}
        /\ DOMAIN RouteMap = Registered
        /\ \A a \in Apids : Holding(a) # {} => a <= ApidMax
        /\ \A a \in Apids : Holding(a) \in SUBSET Nat
        /\ Free \in SUBSET Nat /\ Apids \subseteq Nat /\ ApidMax \in Nat
    BY RouterAssumption
       DEF RouteMap, Registered, RouterInv, ActiveValid, Holding, Free, Index, RouterAssumption
  <2>card. Cardinality(DOMAIN RouteMap) = Routes!Cardinality(DOMAIN RouteMap)
    BY Zenon DEF Cardinality, Routes!Cardinality, IsFiniteSet, Routes!IsFiniteSet
  <2>1. ASSUME NEW a \in Apids, NEW h \in Handlers, RegisterApid(a, h)
        PROVE  Routes!RoutesRegister(a, h)
    <3>1. CASE a > ApidMax /\ Refuse("EINVAL")
      BY <2>0, <3>1, SameRoutes DEF Refuse, Routes!RoutesRegister
    <3>2. CASE a <= ApidMax /\ Holding(a) # {} /\ Set(First(Holding(a)), Entry(a, h), "ok")
      <4>1. First(Holding(a)) \in Holding(a)
        BY <2>0, <3>2, FirstIsIn
      <4>2. /\ First(Holding(a)) \in Index /\ Holding(a) \subseteq {First(Holding(a))}
            /\ entries[First(Holding(a))].apid = a
        BY <4>1 DEF RouterInv, OneEntryEach, Holding
      <4>3. RouteMap' = [b \in Registered \cup {a} |-> IF b = a THEN h ELSE RouteMap[b]]
        BY <3>2, <4>2, SetRoutes DEF Set
      <4> QED
        BY <2>0, <3>2, <4>3 DEF Set, Routes!RoutesRegister
    <3>3. CASE /\ a <= ApidMax /\ Holding(a) = {} /\ Free # {}
               /\ Set(First(Free), Entry(a, h), "ok")
      <4>1. First(Free) \in Index /\ ~entries[First(Free)].active
        BY <2>0, <3>3, FirstIsIn DEF Free
      <4>2. RouteMap' = [b \in Registered \cup {a} |-> IF b = a THEN h ELSE RouteMap[b]]
        BY <3>3, <4>1, SetRoutes DEF Set
      <4>3. Cardinality(DOMAIN RouteMap) < Slots
        BY <2>0, <3>3, RoomIsFree, RouterAssumption
      <4> QED
        BY <2>0, <3>3, <4>2, <4>3, <2>card DEF Set, Routes!RoutesRegister
    <3>4. CASE a <= ApidMax /\ Holding(a) = {} /\ Free = {} /\ Refuse("ENOSPC")
      <4>1. ~(Cardinality(DOMAIN RouteMap) < Slots)
        BY <2>0, <3>4, RoomIsFree, RouterAssumption
      <4> QED
        BY <2>0, <2>card, <3>4, <4>1, SameRoutes DEF Refuse, Routes!RoutesRegister
    <3> QED
      BY <2>1, <3>1, <3>2, <3>3, <3>4 DEF RegisterApid
  <2>2. ASSUME NEW a \in Apids, UnregisterApid(a)
        PROVE  Routes!RoutesUnregister(a)
    <3>1. RouteMap = [b \in Registered |-> RouteMap[b]]
      BY DEF RouteMap
    <3>2. CASE a > ApidMax /\ Refuse("EINVAL")
      <4>1. Holding(a) = {} /\ UNCHANGED RouteMap
        BY <2>0, <3>2, SameRoutes DEF Refuse
      <4>2. Registered \ {a} = Registered
        BY <4>1 DEF Registered
      <4> QED
        BY <2>0, <3>1, <3>2, <4>1, <4>2 DEF Refuse, Routes!RoutesUnregister, Routes!Restrict
    <3>3. CASE a <= ApidMax /\ Holding(a) # {} /\ Set(First(Holding(a)), Cleared, "ok")
      <4>1. First(Holding(a)) \in Holding(a)
        BY <2>0, <3>3, FirstIsIn
      <4>2. RouteMap' = [b \in Registered \ {a} |-> RouteMap[b]]
        BY <3>3, <4>1, ClearRoutes DEF Set
      <4> QED
        BY <2>0, <3>3, <4>2 DEF Set, Routes!RoutesUnregister, Routes!Restrict
    <3>4. CASE a <= ApidMax /\ Holding(a) = {} /\ Refuse("ENOENT")
      <4>1. UNCHANGED RouteMap /\ Registered \ {a} = Registered
        BY <3>4, SameRoutes DEF Refuse, Registered
      <4> QED
        BY <2>0, <3>1, <3>4, <4>1 DEF Refuse, Routes!RoutesUnregister, Routes!Restrict
    <3> QED
      BY <2>2, <3>2, <3>3, <3>4 DEF UnregisterApid
  <2>3. ASSUME NEW a \in Apids, Dispatch(a)
        PROVE  Routes!RoutesDispatch(a)
    <3>1. UNCHANGED RouteMap
      BY <2>3, SameRoutes DEF Dispatch, Refuse
    <3>2. Holding(a) # {} => RouteMap[a] = entries[First(Holding(a))].handler
      BY DEF RouteMap, Registered
    <3> QED
      BY <2>0, <2>3, <3>1, <3>2 DEF Dispatch, Refuse, Routes!RoutesDispatch
  <2>4. CASE UNCHANGED vars
    BY <2>4, SameRoutes DEF vars, Routes!routeVars
  <2> QED
    BY <2>1, <2>2, <2>3, <2>4 DEF Next, Routes!RoutesNext
<1> QED
  BY <1>1, <1>2, RouterInvariant, PTL DEF Spec, RoutesRefined, Routes!RoutesSpec

-------------------------------------------------------------------------------
(* The adapter and the input *)

Thread == [pc: {"none", "call", "wait", "failed", "callback", "exit", "ending", "ended"},
           fd: Fds \cup {NoFd}, unit: Apids \cup {0}, count: Nat]

Call == [pc: {"idle", "socket", "publish", "create", "close"}, fd: Fds \cup {NoFd},
         closing: Seq(Fds)]

Adapter == [running: BOOLEAN, started: BOOLEAN, rxFd: Fds \cup {NoFd},
            txFd: Fds \cup {NoFd}, received: Nat]

Typed ==
    /\ udp \in Adapter /\ fds \in [Fds -> {"free", "rx", "tx"}] /\ call \in Call
    /\ threads \in [ThreadIds -> Thread] /\ starts \in Nat /\ limit \in Scenarios

\* A thread in the loop was created by the last start, which has returned, and no
\* other start has got past its check; its socket is the instance's, or was taken
\* away by stop.
LoopInv ==
    \A t \in ThreadIds : InLoop(t) =>
        /\ t = starts /\ udp.started /\ call.pc \in {"idle", "close"}
        /\ udp.rxFd \in {threads[t].fd, NoFd} /\ threads[t].fd \in Fds

\* What the application knows while it is in a call
CallInv ==
    /\ ~udp.started => udp.rxFd = NoFd
    /\ call.pc \in {"socket", "publish"} => ~udp.started
    /\ call.pc = "create" => udp.started /\ udp.rxFd = call.fd
    /\ call.pc \in {"publish", "create"} => call.fd \in Fds
    /\ call.pc = "publish" => fds[call.fd] = "rx"
    /\ call.pc = "close" => udp.rxFd = NoFd

Closing == {call.closing[i] : i \in DOMAIN call.closing}

\* The sockets stop has still to close are different, and not in use again.
ClosingInv ==
    /\ udp.txFd \notin Closing
    /\ IF call.pc = "close"
         THEN \/ \E a \in Fds : call.closing = << a >>
              \/ \E a, b \in Fds : a # b /\ call.closing = << a, b >>
         ELSE call.closing = << >>

\* The packet a callback is about to dispatch came out of the decoder.
UnitInv == \A t \in ThreadIds : At(t, "callback") => threads[t].unit \in Apids

UdpInv == Typed /\ LoopInv /\ CallInv /\ ClosingInv /\ SocketsOwned /\ UnitInv

LEMMA LowestIsFree == ASSUME FreeFds # {} PROVE LowestFd \in FreeFds
<1>1. FreeFds \in SUBSET Nat
  BY UdpAssumption DEF FreeFds, Fds, UdpAssumption
<1>2. First(FreeFds) \in FreeFds
  BY <1>1, FirstIsIn
<1> QED
  BY <1>2 DEF First, LowestFd

LEMMA ShortLists == \A a, b \in Fds : << a >> \in Seq(Fds) /\ << a, b >> \in Seq(Fds)
OBVIOUS

LEMMA NoFdIsNone == NoFd \notin Fds
BY UdpAssumption DEF NoFd, Fds, UdpAssumption

LEMMA UdpInvInit == InputInit => UdpInv
<1> SUFFICES ASSUME InputInit PROVE UdpInv
  OBVIOUS
<1>1. Typed
  BY DEF InputInit, UdpInit, Typed, Adapter, Call, Thread, Idle, NoThread
<1>2. LoopInv /\ UnitInv
  BY DEF InputInit, UdpInit, LoopInv, UnitInv, InLoop, At, NoThread
<1>3. CallInv /\ ClosingInv /\ SocketsOwned
  BY DEF InputInit, UdpInit, CallInv, ClosingInv, Closing, SocketsOwned, Idle, NoFd
<1> QED
  BY <1>1, <1>2, <1>3 DEF UdpInv

\* ccsds_udp_start
LEMMA StartKeeps ==
    ASSUME UdpInv, limit' = limit,
           StartCheck \/ StartSocket \/ StartPublish \/ StartCreate
    PROVE  UdpInv'
<1> USE DEF UdpInv, NoFd
<1>1. CASE StartCheck
  <2>1. /\ call = Idle /\ ~udp.started /\ call' = [Idle EXCEPT !.pc = "socket"]
        /\ UNCHANGED << udp, fds, threads, starts >>
    BY <1>1 DEF StartCheck, MayStart
  <2>2. call'.pc = "socket" /\ call'.fd = NoFd /\ call'.closing = << >> /\ call.closing = << >>
    BY <2>1 DEF Idle
  <2>3. Typed'
    BY <2>1 DEF Typed, Call, Idle
  <2>4. LoopInv' /\ UnitInv'
    BY <2>1 DEF LoopInv, InLoop, UnitInv, At
  <2>5. CallInv' /\ ClosingInv'
    BY <2>1, <2>2 DEF CallInv, ClosingInv, Closing
  <2>6. SocketsOwned'
    BY <2>1, <2>2 DEF SocketsOwned, Idle
  <2> QED
    BY <2>3, <2>4, <2>5, <2>6
<1>2. CASE StartSocket
  <2>1. call.pc = "socket" /\ UNCHANGED << udp, threads, starts >>
    BY <1>2 DEF StartSocket
  <2>2. ~udp.started /\ udp.rxFd = NoFd /\ call.closing = << >>
    BY <2>1 DEF CallInv, ClosingInv
  <2>3. \A t \in ThreadIds : ~InLoop(t)
    BY <2>2 DEF LoopInv
  <2>4. LoopInv' /\ UnitInv'
    BY <2>1, <2>3 DEF LoopInv, InLoop, UnitInv, At
  <2>5. CASE call' = Idle /\ UNCHANGED fds
    <3>1. call'.pc = "idle" /\ call'.closing = << >>
      BY <2>5 DEF Idle
    <3>2. Typed'
      BY <2>1, <2>5 DEF Typed, Call, Idle
    <3>3. CallInv' /\ ClosingInv' /\ SocketsOwned'
      BY <2>1, <2>2, <2>5, <3>1 DEF CallInv, ClosingInv, Closing, SocketsOwned
    <3> QED
      BY <2>4, <3>2, <3>3
  <2>6. CASE /\ FreeFds # {} /\ fds' = [fds EXCEPT ![LowestFd] = "rx"]
             /\ call' = [Idle EXCEPT !.pc = "publish", !.fd = LowestFd]
    <3>1. LowestFd \in Fds /\ fds[LowestFd] = "free"
      BY <2>6, LowestIsFree DEF FreeFds
    <3>2. call'.pc = "publish" /\ call'.fd = LowestFd /\ call'.closing = << >>
      BY <2>6 DEF Idle
    <3>3. Typed'
      <4>1. call' \in Call
        <5>1. call' = [pc |-> "publish", fd |-> LowestFd, closing |-> << >>]
          BY <2>6 DEF Idle
        <5> QED
          BY <3>1, <5>1 DEF Call
      <4>2. fds' \in [Fds -> {"free", "rx", "tx"}]
        BY <2>6 DEF Typed
      <4> QED
        BY <2>1, <4>1, <4>2 DEF Typed
    <3>4. \A f \in Fds : fds'[f] = IF f = LowestFd THEN "rx" ELSE fds[f]
      BY <2>6, <3>1 DEF Typed
    <3>5. CallInv' /\ ClosingInv'
      BY <2>1, <2>2, <3>1, <3>2, <3>4 DEF CallInv, ClosingInv, Closing
    <3>6. SocketsOwned'
      BY <2>1, <2>2, <3>1, <3>2, <3>4, NoFdIsNone DEF SocketsOwned, Typed, Adapter
    <3> QED
      BY <2>4, <3>3, <3>5, <3>6
  <2> QED
    BY <1>2, <2>5, <2>6 DEF StartSocket, BindFailed
<1>3. CASE StartPublish
  <2>1. /\ call.pc = "publish" /\ udp' = Published(call.fd)
        /\ call' = [call EXCEPT !.pc = "create"] /\ starts' = starts + 1
        /\ UNCHANGED << fds, threads >>
    BY <1>3 DEF StartPublish
  <2>2. /\ ~udp.started /\ udp.rxFd = NoFd /\ call.closing = << >>
        /\ call.fd \in Fds /\ fds[call.fd] = "rx"
    BY <2>1 DEF CallInv, ClosingInv
  <2>3. /\ udp'.rxFd = call.fd /\ udp'.txFd = udp.txFd /\ udp'.started
        /\ call'.pc = "create" /\ call'.fd = call.fd /\ call'.closing = << >>
    BY <2>1, <2>2 DEF Published, Typed, Call
  <2>4. Typed'
    BY <2>1, <2>2 DEF Typed, Call, Adapter, Published
  <2>5. \A t \in ThreadIds : ~InLoop(t)
    BY <2>2 DEF LoopInv
  <2>6. LoopInv' /\ UnitInv'
    BY <2>1, <2>5 DEF LoopInv, InLoop, UnitInv, At
  <2>7. CallInv' /\ ClosingInv'
    BY <2>1, <2>2, <2>3 DEF CallInv, ClosingInv, Closing
  <2>8. SocketsOwned'
    BY <2>1, <2>2, <2>3, NoFdIsNone DEF SocketsOwned
  <2> QED
    BY <2>4, <2>6, <2>7, <2>8
<1>4. CASE StartCreate
  <2>1. /\ call.pc = "create" /\ call' = Idle /\ UNCHANGED << udp, fds, starts >>
        /\ threads' = [threads EXCEPT ![starts] = [NoThread EXCEPT !.pc = "call", !.fd = call.fd]]
    BY <1>4 DEF StartCreate
  <2>2. udp.started /\ udp.rxFd = call.fd /\ call.fd \in Fds /\ call.closing = << >>
    BY <2>1 DEF CallInv, ClosingInv
  <2>3. call'.pc = "idle" /\ call'.closing = << >>
    BY <2>1 DEF Idle
  <2>4. [NoThread EXCEPT !.pc = "call", !.fd = call.fd] \in Thread
    BY <2>2 DEF NoThread, Thread
  <2>5. Typed'
    <3>1. call' \in Call
      BY <2>1 DEF Call, Idle
    <3>2. threads' \in [ThreadIds -> Thread]
      BY <2>1, <2>4 DEF Typed
    <3> QED
      BY <2>1, <3>1, <3>2 DEF Typed
  <2>6. \A t \in ThreadIds : ~InLoop(t)
    BY <2>1 DEF LoopInv
  <2>7. \A t \in ThreadIds : IF t = starts THEN threads'[t].pc = "call" /\ threads'[t].fd = call.fd
                             ELSE threads'[t] = threads[t]
    BY <2>1 DEF Typed, NoThread
  <2>8. LoopInv' /\ UnitInv'
    BY <2>1, <2>2, <2>3, <2>6, <2>7 DEF LoopInv, InLoop, UnitInv, At
  <2>9. CallInv' /\ ClosingInv'
    BY <2>1, <2>2, <2>3 DEF CallInv, ClosingInv, Closing
  <2>10. SocketsOwned'
    BY <2>1, <2>2, <2>3 DEF SocketsOwned
  <2> QED
    BY <2>5, <2>8, <2>9, <2>10
<1> QED
  BY <1>1, <1>2, <1>3, <1>4

\* ccsds_udp_stop
LEMMA StopKeeps ==
    ASSUME UdpInv, limit' = limit, Stop PROVE UdpInv'
<1> USE DEF UdpInv
<1>1. /\ call = Idle /\ udp' = [udp EXCEPT !.running = FALSE, !.rxFd = NoFd, !.txFd = NoFd]
      /\ call' = IF udp.rxFd = NoFd /\ udp.txFd = NoFd THEN Idle
                 ELSE [Idle EXCEPT !.pc = "close", !.closing = Open(udp.rxFd, udp.txFd)]
      /\ UNCHANGED << fds, threads, starts >>
  BY DEF Stop
<1>2. call.pc = "idle" /\ call.closing = << >>
  BY <1>1 DEF Idle
<1>3. /\ udp'.started = udp.started /\ udp'.rxFd = NoFd /\ udp'.txFd = NoFd /\ udp' \in Adapter
      /\ udp.rxFd \in Fds \cup {NoFd} /\ udp.txFd \in Fds \cup {NoFd}
  BY <1>1 DEF Typed, Adapter
<1>4. udp.rxFd # NoFd => udp.rxFd # udp.txFd
  BY <1>3 DEF SocketsOwned
<1>5. LoopInv' /\ UnitInv' /\ CallInv'
  <2>1. call'.pc \in {"idle", "close"}
    BY <1>1 DEF Idle
  <2> QED
    BY <1>1, <1>3, <2>1 DEF LoopInv, InLoop, UnitInv, CallInv, At
<1>6. CASE udp.rxFd = NoFd /\ udp.txFd = NoFd
  <2>1. call' = call
    BY <1>1, <1>6
  <2> QED
    BY <1>1, <1>2, <1>3, <1>5, <1>6, <2>1 DEF Typed, ClosingInv, Closing, SocketsOwned
<1>7. CASE ~(udp.rxFd = NoFd /\ udp.txFd = NoFd)
  <2>1. call'.pc = "close" /\ call'.closing = Open(udp.rxFd, udp.txFd) /\ call'.fd = NoFd
        /\ call' = [pc |-> "close", fd |-> NoFd, closing |-> Open(udp.rxFd, udp.txFd)]
    BY <1>1, <1>7 DEF Idle
  <2>2. \/ \E a \in Fds : call'.closing = << a >> /\ {udp.rxFd, udp.txFd} \ {NoFd} = {a}
        \/ \E a, b \in Fds : /\ a # b /\ call'.closing = << a, b >>
                             /\ {udp.rxFd, udp.txFd} \ {NoFd} = {a, b}
    BY <1>3, <1>4, <1>7, <2>1, NoFdIsNone DEF Open
  <2>3. Closing' = {udp.rxFd, udp.txFd} \ {NoFd}
    BY <2>2 DEF Closing
  <2>4. call'.closing \in Seq(Fds)
    BY <2>2, ShortLists
  <2>5. Typed'
    BY <1>1, <1>3, <2>1, <2>4 DEF Typed, Call
  <2>6. ClosingInv'
    BY <1>3, <2>1, <2>2, <2>3 DEF ClosingInv
  <2>7. {f \in Fds : fds[f] # "free"} = {udp.rxFd, udp.txFd} \ {NoFd}
    BY <1>2 DEF SocketsOwned
  <2>8. SocketsOwned'
    BY <1>1, <1>3, <2>1, <2>3, <2>7 DEF SocketsOwned, Closing
  <2> QED
    BY <1>5, <2>5, <2>6, <2>8
<1> QED
  BY <1>6, <1>7

\* A thread is woken, and otherwise stays where it was.
LEMMA WokenKeeps ==
    ASSUME threads \in [ThreadIds -> Thread], NEW fd
    PROVE  /\ Woken(fd) \in [ThreadIds -> Thread]
           /\ \A t \in ThreadIds : /\ Woken(fd)[t].fd = threads[t].fd
                                   /\ Woken(fd)[t].unit = threads[t].unit
                                   /\ Woken(fd)[t].pc = threads[t].pc
                                        \/ (threads[t].pc = "wait" /\ Woken(fd)[t].pc = "failed")
<1>1. ASSUME NEW t \in ThreadIds
      PROVE  LET w == IF threads[t].pc = "wait" /\ threads[t].fd = fd
                        THEN [threads[t] EXCEPT !.pc = "failed"] ELSE threads[t]
             IN  /\ w \in Thread /\ w.fd = threads[t].fd /\ w.unit = threads[t].unit
                 /\ w.pc = threads[t].pc \/ (threads[t].pc = "wait" /\ w.pc = "failed")
  BY DEF Thread
<1> QED
  BY <1>1 DEF Woken

LEMMA StopCloseKeeps ==
    ASSUME UdpInv, limit' = limit, StopClose PROVE UdpInv'
<1> USE DEF UdpInv
<1> DEFINE h == Head(call.closing)
<1>1. /\ call.pc = "close" /\ fds' = [fds EXCEPT ![h] = "free"] /\ threads' = Woken(h)
      /\ call' = IF Len(call.closing) = 1 THEN Idle ELSE [call EXCEPT !.closing = Tail(@)]
      /\ UNCHANGED << udp, starts >>
  BY DEF StopClose
<1>2. udp.rxFd = NoFd /\ udp.txFd \notin Closing
  BY <1>1 DEF CallInv, ClosingInv
<1>3. call \in Call /\ fds \in [Fds -> {"free", "rx", "tx"}] /\ udp.txFd \in Fds \cup {NoFd}
  BY DEF Typed, Adapter
<1>4. \/ \E a \in Fds : call.closing = << a >>
      \/ \E a, b \in Fds : a # b /\ call.closing = << a, b >>
  BY <1>1 DEF ClosingInv
<1>5. /\ h \in Fds /\ h \in Closing
      /\ \/ call'.pc = "idle" /\ call'.closing = << >> /\ Closing = {h}
         \/ /\ call'.pc = "close"
            /\ \E b \in Fds : b # h /\ call'.closing = << b >> /\ Closing = {h, b}
      /\ call' \in Call
  <2>1. CASE \E a \in Fds : call.closing = << a >>
    <3>1. PICK a \in Fds : call.closing = << a >>
      BY <2>1
    <3>2. Len(call.closing) = 1 /\ h = a /\ Closing = {a}
      BY <3>1 DEF Closing
    <3>3. call' = Idle
      BY <1>1, <3>2
    <3> QED
      BY <3>2, <3>3 DEF Idle, Call
  <2>2. CASE \E a, b \in Fds : a # b /\ call.closing = << a, b >>
    <3>1. PICK a, b \in Fds : a # b /\ call.closing = << a, b >>
      BY <2>2
    <3>2. Len(call.closing) = 2 /\ h = a /\ Closing = {a, b} /\ Tail(call.closing) = << b >>
      BY <3>1 DEF Closing
    <3>3. call' = [call EXCEPT !.closing = << b >>]
      <4>1. call' = [call EXCEPT !.closing = Tail(call.closing)]
        BY <1>1, <3>2
      <4> QED
        BY <3>2, <4>1, Zenon
    <3>4. call'.pc = "close" /\ call'.closing = << b >> /\ call' \in Call
      <4>1. << b >> \in Seq(Fds)
        BY ShortLists
      <4> QED
        BY <1>1, <1>3, <3>3, <4>1 DEF Call
    <3> QED
      BY <3>1, <3>2, <3>4
  <2> QED
    BY <1>4, <2>1, <2>2
<1> HIDE DEF h
<1>6. Closing' = Closing \ {h}
  <2>1. ASSUME call'.closing = << >> PROVE Closing' = {}
    BY <2>1 DEF Closing
  <2>2. ASSUME NEW b \in Fds, call'.closing = << b >> PROVE Closing' = {b}
    BY <2>2 DEF Closing
  <2> HIDE DEF UdpInv
  <2> QED
    BY <1>5, <2>1, <2>2
<1>7. \A f \in Fds : fds'[f] = IF f = h THEN "free" ELSE fds[f]
  BY <1>1, <1>3, <1>5
<1>8. Typed'
  <2>1. fds' \in [Fds -> {"free", "rx", "tx"}] /\ threads' \in [ThreadIds -> Thread]
    BY <1>1, <1>3, WokenKeeps DEF Typed
  <2> QED
    BY <1>1, <1>5, <2>1 DEF Typed
<1>9. LoopInv' /\ UnitInv'
  BY <1>1, <1>5, WokenKeeps DEF Typed, LoopInv, InLoop, UnitInv, At
<1>10. CallInv' /\ ClosingInv'
  BY <1>1, <1>2, <1>5, <1>6 DEF CallInv, ClosingInv
<1>11. SocketsOwned'
  <2>1. {f \in Fds : fds[f] # "free"} = ({udp.txFd} \cup Closing) \ {NoFd}
    BY <1>1, <1>2 DEF SocketsOwned, Closing
  <2>2. {f \in Fds : fds'[f] # "free"} = ({udp.txFd} \cup Closing') \ {NoFd}
    BY <1>2, <1>5, <1>6, <1>7, <2>1
  <2>3. udp.txFd # NoFd => fds'[udp.txFd] = "tx"
    BY <1>2, <1>3, <1>5, <1>7 DEF SocketsOwned
  <2>4. call'.pc # "publish"
    BY <1>5
  <2> QED
    BY <1>1, <1>2, <2>2, <2>3, <2>4 DEF SocketsOwned, Closing
<1> QED
  BY <1>8, <1>9, <1>10, <1>11

\* A thread that moves inside its loop, or out of it
Moves(t) ==
    /\ UNCHANGED << fds, call, starts, limit >> /\ udp' \in Adapter
    /\ udp'.started = udp.started /\ udp'.rxFd = udp.rxFd /\ udp'.txFd = udp.txFd
    /\ threads' \in [ThreadIds -> Thread] /\ threads'[t].fd = threads[t].fd
    /\ InLoop(t)' => InLoop(t)
    /\ At(t, "callback")' => threads'[t].unit \in Apids
    /\ \A u \in ThreadIds \ {t} : threads'[u] = threads[u]

LEMMA MovesKeeps == ASSUME UdpInv, NEW t \in ThreadIds, Moves(t) PROVE UdpInv'
<1>1. Typed'
  BY DEF UdpInv, Typed, Moves
<1>2. \A u \in ThreadIds : threads'[u].fd = threads[u].fd /\ (InLoop(u)' => InLoop(u))
  BY DEF Moves, InLoop
<1>3. LoopInv' /\ UnitInv'
  BY <1>2 DEF UdpInv, LoopInv, UnitInv, Moves, At
<1>4. CallInv' /\ ClosingInv' /\ SocketsOwned'
  BY DEF UdpInv, CallInv, ClosingInv, Closing, SocketsOwned, Moves
<1> QED
  BY <1>1, <1>3, <1>4 DEF UdpInv

\* The last section of udp_thread_fn
LEMMA ExitKeeps ==
    ASSUME UdpInv, limit' = limit, NEW t \in ThreadIds, ThreadExit(t) PROVE UdpInv'
<1> USE DEF UdpInv
<1> DEFINE own == udp.rxFd = threads[t].fd
<1>1. /\ threads[t].pc = "exit" /\ threads' = [threads EXCEPT ![t].pc = "ending"]
      /\ udp' = [udp EXCEPT !.running = FALSE, !.started = FALSE,
                            !.rxFd = IF own THEN NoFd ELSE udp.rxFd]
      /\ fds' = IF own THEN [fds EXCEPT ![threads[t].fd] = "free"] ELSE fds
      /\ UNCHANGED << call, starts >>
  BY DEF ThreadExit, At, Goto
<1>2. udp \in Adapter /\ threads \in [ThreadIds -> Thread] /\ fds \in [Fds -> {"free", "rx", "tx"}]
  BY DEF Typed
<1>3. /\ t = starts /\ call.pc \in {"idle", "close"} /\ udp.rxFd \in {threads[t].fd, NoFd}
      /\ threads[t].fd \in Fds
  BY <1>1 DEF LoopInv, InLoop
<1>4. /\ udp' \in Adapter /\ udp'.started = FALSE /\ udp'.rxFd = NoFd /\ udp'.txFd = udp.txFd
  BY <1>1, <1>2, <1>3 DEF Adapter
<1>5. /\ threads' \in [ThreadIds -> Thread] /\ threads'[t].pc = "ending"
      /\ \A u \in ThreadIds \ {t} : threads'[u] = threads[u]
  BY <1>1, <1>2 DEF Thread
<1>6. Typed'
  BY <1>1, <1>2, <1>4, <1>5 DEF Typed
<1>7. \A u \in ThreadIds : InLoop(u) => u = t
  BY <1>3 DEF LoopInv
<1>8. \A u \in ThreadIds : ~InLoop(u)' /\ ~At(u, "callback")'
  BY <1>5, <1>7 DEF InLoop, At
<1>9. LoopInv' /\ UnitInv'
  BY <1>8 DEF LoopInv, UnitInv
<1>10. CallInv' /\ ClosingInv'
  BY <1>1, <1>3, <1>4 DEF CallInv, ClosingInv, Closing
<1>11. SocketsOwned'
  <2>1. CASE udp.rxFd = NoFd
    <3>1. fds' = fds
      BY <1>1, <1>3, <2>1, NoFdIsNone
    <3> QED
      BY <1>1, <1>3, <1>4, <2>1, <3>1 DEF SocketsOwned
  <2>2. CASE udp.rxFd # NoFd
    <3>1. udp.rxFd \in Fds /\ fds[udp.rxFd] = "rx" /\ call.pc # "close" /\ call.closing = << >>
      BY <1>3, <2>2 DEF SocketsOwned, CallInv, ClosingInv
    <3>2. \A f \in Fds : fds'[f] = IF f = udp.rxFd THEN "free" ELSE fds[f]
      BY <1>1, <1>2, <1>3, <2>2, <3>1
    <3>3. udp.txFd # udp.rxFd /\ udp.txFd \in Fds \cup {NoFd}
      BY <1>2, <2>2, <3>1 DEF SocketsOwned, Adapter
    <3>4. {f \in Fds : fds[f] # "free"} = {udp.rxFd, udp.txFd} \ {NoFd}
      BY <1>3, <3>1 DEF SocketsOwned
    <3> QED
      BY <1>1, <1>3, <1>4, <2>2, <3>1, <3>2, <3>3, <3>4 DEF SocketsOwned
  <2> QED
    BY <2>1, <2>2
<1> QED
  BY <1>6, <1>9, <1>10, <1>11

\* ccsds_udp_send
LEMMA SendKeeps == ASSUME UdpInv, limit' = limit, Send PROVE UdpInv'
<1> USE DEF UdpInv
<1> DEFINE n == LowestFd
<1>1. /\ udp.txFd = NoFd /\ fds' = [fds EXCEPT ![n] = "tx"]
      /\ udp' = [udp EXCEPT !.txFd = n] /\ UNCHANGED << call, threads, starts >>
  BY DEF Send
<1>2. n \in Fds /\ fds[n] = "free"
  BY LowestIsFree DEF Send, FreeFds
<1> HIDE DEF n
<1>3. udp \in Adapter /\ fds \in [Fds -> {"free", "rx", "tx"}]
  BY DEF Typed
<1>4. udp' \in Adapter /\ udp'.started = udp.started /\ udp'.rxFd = udp.rxFd /\ udp'.txFd = n
  BY <1>1, <1>2, <1>3 DEF Adapter
<1>5. fds' \in [Fds -> {"free", "rx", "tx"}] /\ \A f \in Fds : fds'[f] = IF f = n THEN "tx" ELSE fds[f]
  BY <1>1, <1>2, <1>3
<1>6. Typed'
  BY <1>1, <1>4, <1>5 DEF Typed
<1>7. LoopInv' /\ UnitInv'
  BY <1>1, <1>4 DEF LoopInv, InLoop, UnitInv, At
<1>8. n \notin Closing /\ n # udp.rxFd
  BY <1>2, NoFdIsNone DEF SocketsOwned, Closing
<1>9. CallInv' /\ ClosingInv'
  BY <1>1, <1>2, <1>4, <1>5, <1>8 DEF CallInv, ClosingInv, Closing
<1>10. SocketsOwned'
  <2>1. udp.rxFd # NoFd => udp.rxFd \in Fds /\ fds'[udp.rxFd] = "rx"
    BY <1>3, <1>5, <1>8 DEF SocketsOwned, Adapter
  <2> QED
    BY <1>1, <1>2, <1>4, <1>5, <2>1, NoFdIsNone DEF SocketsOwned
<1> QED
  BY <1>6, <1>7, <1>9, <1>10

LEMMA ThreadKeeps ==
    ASSUME UdpInv, limit' = limit, NEW t \in ThreadIds,
           \/ ThreadRuns(t) \/ RecvFails(t) \/ CallbackReturns(t)
           \/ \E unit \in limit.apids : RecvUnit(t, "fits", unit)
           \/ RecvUnit(t, "refused", 0)
    PROVE  UdpInv'
<1>1. threads \in [ThreadIds -> Thread] /\ udp \in Adapter /\ threads[t] \in Thread
  BY DEF UdpInv, Typed
<1>2. ASSUME NEW pc \in {"call", "wait", "failed", "exit", "ending", "ended"}, Goto(t, pc),
             InLoop(t) \/ pc = "ended", UNCHANGED << udp, fds, call, starts >>
      PROVE  UdpInv'
  <2>1. threads' = [threads EXCEPT ![t].pc = pc]
    BY <1>2 DEF Goto
  <2>2. /\ threads' \in [ThreadIds -> Thread] /\ threads'[t].fd = threads[t].fd
        /\ threads'[t].pc = pc /\ \A u \in ThreadIds \ {t} : threads'[u] = threads[u]
    BY <1>1, <2>1 DEF Thread
  <2>3. Moves(t)
    BY <1>1, <1>2, <2>2 DEF Moves, InLoop, At
  <2> QED
    BY <2>3, MovesKeeps
<1>3. CASE RecvCall(t) \/ RecvFailed(t) \/ RecvFails(t)
  BY <1>2, <1>3 DEF RecvCall, RecvFailed, RecvFails, AfterFailure, InLoop, At
<1>4. CASE ThreadExit(t)
  BY <1>4, ExitKeeps
<1>5. CASE ThreadEnd(t)
  BY <1>2, <1>5 DEF ThreadEnd
<1>6. CASE CallbackReturns(t)
  <2>1. /\ threads' = [threads EXCEPT ![t].pc = "call", ![t].count = @ + 1, ![t].unit = 0]
        /\ threads[t].pc = "callback" /\ UNCHANGED << udp, fds, call, starts >>
    BY <1>6 DEF CallbackReturns, At
  <2>2. /\ threads' \in [ThreadIds -> Thread] /\ threads'[t].fd = threads[t].fd
        /\ threads'[t].pc = "call" /\ \A u \in ThreadIds \ {t} : threads'[u] = threads[u]
    BY <1>1, <2>1 DEF Thread
  <2>3. Moves(t)
    BY <1>1, <2>1, <2>2 DEF Moves, InLoop, At
  <2> QED
    BY <2>3, MovesKeeps
<1>7. CASE RecvUnit(t, "refused", 0)
  BY <1>2, <1>7 DEF RecvUnit, InLoop, At
<1>8. ASSUME NEW unit \in limit.apids, RecvUnit(t, "fits", unit) PROVE UdpInv'
  <2>1. /\ threads' = [threads EXCEPT ![t].pc = "callback", ![t].unit = unit]
        /\ udp' = [udp EXCEPT !.received = @ + 1]
        /\ threads[t].pc = "wait" /\ UNCHANGED << fds, call, starts >>
    BY <1>8 DEF RecvUnit, At
  <2>2. unit \in Apids
    BY InputAssumption DEF InputAssumption, UdpInv, Typed
  <2>3. /\ threads' \in [ThreadIds -> Thread] /\ threads'[t].fd = threads[t].fd
        /\ threads'[t].pc = "callback" /\ threads'[t].unit = unit
        /\ \A u \in ThreadIds \ {t} : threads'[u] = threads[u]
    BY <1>1, <2>1, <2>2 DEF Thread
  <2>4. /\ udp' \in Adapter /\ udp'.started = udp.started
        /\ udp'.rxFd = udp.rxFd /\ udp'.txFd = udp.txFd
    BY <1>1, <2>1 DEF Adapter
  <2>5. Moves(t)
    BY <2>1, <2>2, <2>3, <2>4 DEF Moves, InLoop, At
  <2> QED
    BY <2>5, MovesKeeps
<1> QED
  BY <1>3, <1>4, <1>5, <1>6, <1>7, <1>8 DEF ThreadRuns

\* Every step of the adapter keeps the invariant, and every step, seen from the
\* router, is one of its calls.
LEMMA InputStep == UdpInv /\ [InputNext]_inputVars => UdpInv' /\ [Next]_vars
<1> SUFFICES ASSUME UdpInv, [InputNext]_inputVars PROVE UdpInv' /\ [Next]_vars
  OBVIOUS
<1>1. ASSUME UNCHANGED << udpVars, limit >> PROVE UdpInv'
  BY <1>1 DEF udpVars, UdpInv, Typed, LoopInv, InLoop, CallInv, ClosingInv, Closing,
              SocketsOwned, UnitInv, At
<1>2. CASE UNCHANGED inputVars
  BY <1>1, <1>2 DEF inputVars
<1>3. CASE UdpStep
  <2>1. UNCHANGED << vars, limit >>
    BY <1>3 DEF UdpStep
  <2>2. UdpInv'
    BY <1>3, <2>1, StartKeeps, StopKeeps, StopCloseKeeps, SendKeeps, ThreadKeeps
       DEF UdpStep, CallRuns
  <2> QED
    BY <2>1, <2>2
<1>4. CASE Registration
  <2>1. limit.apids \subseteq Apids
    BY InputAssumption DEF InputAssumption, UdpInv, Typed
  <2>2. Next
    BY <1>4, <2>1 DEF Registration, Next
  <2> QED
    BY <1>1, <1>4, <2>2 DEF Registration
<1>5. CASE \E t \in ThreadIds : DispatchUnit(t)
  <2>1. PICK t \in ThreadIds : DispatchUnit(t)
    BY <1>5
  <2>2. CallbackReturns(t) /\ limit' = limit /\ (Dispatch(threads[t].unit) \/ UNCHANGED vars)
    BY <2>1 DEF DispatchUnit
  <2>3. threads[t].unit \in Apids
    BY <2>2 DEF CallbackReturns, UdpInv, UnitInv
  <2>4. [Next]_vars
    BY <2>2, <2>3 DEF Next
  <2> QED
    BY <2>2, <2>4, ThreadKeeps
<1> QED
  BY <1>2, <1>3, <1>4, <1>5 DEF InputNext

\* The inductive invariant of the adapter holds, and the router's specification does.
LEMMA InputInvariant == InputSpec => []UdpInv /\ Spec
<1>1. InputInit => UdpInv /\ Init
  BY UdpInvInit DEF InputInit
<1>2. UdpInv /\ [InputNext]_inputVars => UdpInv' /\ [Next]_vars
  BY InputStep
<1> QED
  BY <1>1, <1>2, PTL DEF InputSpec, Spec

\* However stop, start, a slow callback and a failing network overlap, at most one
\* thread is in the receive loop and uses the buffer of the instance.
THEOREM UdpOneReceiver == InputSpec => []OneReceiver
<1>1. UdpInv => OneReceiver
  BY DEF UdpInv, LoopInv, OneReceiver
<1> QED
  BY <1>1, InputInvariant, PTL

\* Every open socket has exactly one owner that will close it, and no owner refers
\* to a socket that is closed.
THEOREM UdpSocketsOwned == InputSpec => []SocketsOwned
<1>1. UdpInv => SocketsOwned
  BY DEF UdpInv
<1> QED
  BY <1>1, InputInvariant, PTL

\* The router behind the adapter still implements the partial function of
\* ccsds_router.h: datagrams dispatched by the receive thread and registrations by
\* the application interleave as calls.
THEOREM InputRefinesRoutes == InputSpec => RoutesRefined
BY InputInvariant, RouterRefinesRoutes, PTL

-------------------------------------------------------------------------------
(* The statistics of an instance *)

\* The thread a start is about to create is the next one and has handed over nothing;
\* the counter was cleared before it exists.
CountInv ==
    /\ starts \in 0..MaxStarts
    /\ call.pc \in {"socket", "publish"} => starts < MaxStarts
    /\ \A t \in ThreadIds : t > starts => threads[t] = NoThread
    /\ call.pc = "create" => threads[starts] = NoThread /\ udp.received = 0 /\ starts > 0
    /\ CountsOwnUnits

\* A thread that leaves every counter alone, and neither enters nor leaves a callback
KeepsCount(t) ==
    /\ UNCHANGED << call, starts >> /\ udp'.received = udp.received
    /\ \A u \in ThreadIds \ {t} : threads'[u] = threads[u]
    /\ threads'[t].count = threads[t].count /\ threads[t].pc # "none"
    /\ At(t, "callback")' <=> At(t, "callback")

LEMMA KeepsCountKeeps ==
    ASSUME UdpInv, CountInv, NEW t \in ThreadIds, KeepsCount(t),
           call.pc = "create" => t # starts
    PROVE  CountInv'
<1>1. t <= starts
  BY UdpAssumption DEF CountInv, KeepsCount, NoThread, ThreadIds, UdpAssumption
<1>2. starts \in Nat /\ t \in Nat
  BY UdpAssumption DEF CountInv, ThreadIds, UdpAssumption
<1>3. CountsOwnUnits'
  BY <1>1, <1>2 DEF CountInv, CountsOwnUnits, KeepsCount, At, ThreadIds
<1> QED
  BY <1>1, <1>2, <1>3 DEF CountInv, KeepsCount, ThreadIds

LEMMA CountInit == InputInit => CountInv
BY UdpAssumption DEF InputInit, UdpInit, CountInv, CountsOwnUnits, Idle, UdpAssumption

LEMMA CountCallKeeps ==
    ASSUME UdpInv, CountInv,
           StartCheck \/ StartSocket \/ StartPublish \/ StartCreate \/ Stop \/ Send
    PROVE  CountInv'
<1> USE DEF CountInv, ThreadIds
<1>0. MaxStarts \in Nat
  BY UdpAssumption DEF UdpAssumption
<1>1. CASE StartCheck
  BY <1>1, <1>0 DEF StartCheck, Idle, CountsOwnUnits, At
<1>2. CASE StartSocket
  <2>1. call.pc = "socket" /\ call'.pc \in {"idle", "publish"} /\ UNCHANGED << udp, threads, starts >>
    <3>1. \/ call' = Idle
          \/ call' = [Idle EXCEPT !.pc = "publish", !.fd = LowestFd]
      BY <1>2, Zenon DEF StartSocket
    <3>2. \A n : [Idle EXCEPT !.pc = "publish", !.fd = n].pc = "publish"
      BY DEF Idle
    <3>3. Idle.pc = "idle"
      BY DEF Idle
    <3>4. call'.pc \in {"idle", "publish"}
      BY <3>1, <3>2, <3>3, Zenon
    <3> QED
      BY <1>2, <3>4 DEF StartSocket
  <2> QED
    BY <2>1 DEF CountsOwnUnits, At
<1>3. CASE StartPublish
  <2>1. /\ call.pc = "publish" /\ udp'.received = 0 /\ starts' = starts + 1
        /\ call' = [call EXCEPT !.pc = "create"] /\ threads' = threads
    BY <1>3 DEF StartPublish, Published
  <2>2. call'.pc = "create"
    BY <2>1 DEF UdpInv, Typed, Call
  <2>3. starts' \in 1..MaxStarts /\ threads'[starts'] = NoThread
    BY <2>1, <1>0
  <2> QED
    BY <2>1, <2>2, <2>3, <1>0 DEF CountsOwnUnits, At, NoThread
<1>4. CASE StartCreate
  <2>1. /\ call.pc = "create" /\ call' = Idle /\ UNCHANGED << udp, starts >>
        /\ threads' = [threads EXCEPT ![starts] = [NoThread EXCEPT !.pc = "call", !.fd = call.fd]]
    BY <1>4 DEF StartCreate
  <2>2. starts \in ThreadIds /\ threads \in [ThreadIds -> Thread] /\ udp.received = 0
    BY <2>1, <1>0 DEF UdpInv, Typed
  <2>3. /\ threads'[starts].count = 0 /\ threads'[starts].pc = "call"
        /\ \A u \in ThreadIds \ {starts} : threads'[u] = threads[u]
    BY <2>1, <2>2 DEF NoThread
  <2> QED
    BY <2>1, <2>2, <2>3, <1>0 DEF CountsOwnUnits, At, Idle
<1>5. CASE Stop
  <2>1. /\ call'.pc \in {"idle", "close"} /\ udp'.received = udp.received
        /\ UNCHANGED << threads, starts >>
    BY <1>5 DEF Stop, Idle, UdpInv, Typed, Adapter
  <2> QED
    BY <2>1 DEF CountsOwnUnits, At
<1>6. CASE Send
  <2>1. udp'.received = udp.received /\ UNCHANGED << call, threads, starts >>
    BY <1>6 DEF Send, UdpInv, Typed, Adapter
  <2> QED
    BY <2>1 DEF CountsOwnUnits, At
<1> QED
  BY <1>1, <1>2, <1>3, <1>4, <1>5, <1>6

\* Closing a socket wakes threads and counts nothing.
LEMMA CountCloseKeeps == ASSUME UdpInv, CountInv, StopClose PROVE CountInv'
<1>0. MaxStarts \in Nat
  BY UdpAssumption DEF UdpAssumption
<1>1. /\ call.pc = "close" /\ threads' = Woken(Head(call.closing)) /\ UNCHANGED << udp, starts >>
      /\ call' = IF Len(call.closing) = 1 THEN Idle ELSE [call EXCEPT !.closing = Tail(@)]
  BY DEF StopClose
<1>2. call'.pc \in {"idle", "close"}
  BY <1>1 DEF Idle, UdpInv, Typed, Call
<1>3. \A t \in ThreadIds :
         /\ threads'[t].count = threads[t].count
         /\ At(t, "callback")' <=> At(t, "callback")
         /\ threads[t] = NoThread => threads'[t] = NoThread
  BY <1>1 DEF Woken, UdpInv, Typed, Thread, At, NoThread
<1> QED
  BY <1>0, <1>1, <1>2, <1>3 DEF CountInv, CountsOwnUnits, ThreadIds

LEMMA CountThreadKeeps ==
    ASSUME UdpInv, CountInv, NEW t \in ThreadIds,
           \/ ThreadRuns(t) \/ RecvFails(t) \/ CallbackReturns(t)
           \/ \E unit \in limit.apids : RecvUnit(t, "fits", unit)
           \/ RecvUnit(t, "refused", 0)
    PROVE  CountInv'
<1>0. MaxStarts \in Nat
  BY UdpAssumption DEF UdpAssumption
<1>1. threads \in [ThreadIds -> Thread] /\ udp \in Adapter /\ threads[t] \in Thread
  BY DEF UdpInv, Typed
<1>2. InLoop(t) => t = starts /\ call.pc # "create"
  BY DEF UdpInv, LoopInv
<1>3. ASSUME NEW pc \in {"call", "wait", "failed", "exit", "ending", "ended"}, Goto(t, pc),
             threads[t].pc \in {"call", "wait", "failed", "exit", "ending"},
             UNCHANGED << call, starts >>, udp'.received = udp.received
      PROVE  CountInv'
  <2>1. /\ threads'[t].pc = pc /\ threads'[t].count = threads[t].count
        /\ \A u \in ThreadIds \ {t} : threads'[u] = threads[u]
    BY <1>1, <1>3 DEF Goto, Thread
  <2>2. KeepsCount(t)
    BY <1>3, <2>1 DEF KeepsCount, At
  <2>3. call.pc = "create" => t # starts
    BY <1>3 DEF CountInv, NoThread
  <2> QED
    BY <2>2, <2>3, KeepsCountKeeps
<1>4. CASE RecvCall(t) \/ RecvFailed(t) \/ RecvFails(t) \/ ThreadEnd(t)
  BY <1>3, <1>4 DEF RecvCall, RecvFailed, RecvFails, ThreadEnd, AfterFailure, At
<1>5. CASE ThreadExit(t)
  <2>1. udp'.received = udp.received
    BY <1>1, <1>5 DEF ThreadExit, Adapter
  <2> QED
    BY <1>3, <1>5, <2>1 DEF ThreadExit, At
<1>6. CASE RecvUnit(t, "refused", 0)
  BY <1>3, <1>6 DEF RecvUnit, At
<1>7. ASSUME NEW unit \in limit.apids, RecvUnit(t, "fits", unit) PROVE CountInv'
  <2>1. /\ threads' = [threads EXCEPT ![t].pc = "callback", ![t].unit = unit]
        /\ udp' = [udp EXCEPT !.received = @ + 1]
        /\ threads[t].pc = "wait" /\ UNCHANGED << fds, call, starts >>
    BY <1>7 DEF RecvUnit, At
  <2>2. /\ threads'[t].pc = "callback" /\ threads'[t].count = threads[t].count
        /\ \A u \in ThreadIds \ {t} : threads'[u] = threads[u]
        /\ udp'.received = udp.received + 1
    BY <1>1, <2>1 DEF Thread, Adapter
  <2>3. t = starts /\ call.pc # "create" /\ threads[t].count \in Nat /\ udp.received \in Nat
    BY <1>1, <1>2, <2>1 DEF InLoop, Thread, Adapter
  <2>4. CountsOwnUnits'
    BY <2>1, <2>2, <2>3 DEF CountInv, CountsOwnUnits, At
  <2>5. \A u \in ThreadIds : u > starts => threads'[u] = threads[u]
    BY <1>0, <2>2, <2>3 DEF ThreadIds
  <2> QED
    BY <2>1, <2>3, <2>4, <2>5 DEF CountInv
<1>8. CASE CallbackReturns(t)
  <2>1. /\ threads' = [threads EXCEPT ![t].pc = "call", ![t].count = @ + 1, ![t].unit = 0]
        /\ threads[t].pc = "callback" /\ UNCHANGED << udp, fds, call, starts >>
    BY <1>8 DEF CallbackReturns, At
  <2>2. /\ threads'[t].pc = "call" /\ threads'[t].count = threads[t].count + 1
        /\ \A u \in ThreadIds \ {t} : threads'[u] = threads[u]
    BY <1>1, <2>1 DEF Thread
  <2>3. t = starts /\ call.pc # "create" /\ threads[t].count \in Nat /\ udp.received \in Nat
    BY <1>1, <1>2, <2>1 DEF InLoop, Thread, Adapter
  <2>4. CountsOwnUnits'
    BY <2>1, <2>2, <2>3 DEF CountInv, CountsOwnUnits, At
  <2>5. \A u \in ThreadIds : u > starts => threads'[u] = threads[u]
    BY <1>0, <2>2, <2>3 DEF ThreadIds
  <2> QED
    BY <2>1, <2>3, <2>4, <2>5 DEF CountInv
<1> QED
  BY <1>4, <1>5, <1>6, <1>7, <1>8 DEF ThreadRuns

LEMMA CountStep == UdpInv /\ CountInv /\ [InputNext]_inputVars => CountInv'
<1> SUFFICES ASSUME UdpInv, CountInv, [InputNext]_inputVars PROVE CountInv'
  OBVIOUS
<1>1. ASSUME UNCHANGED udpVars PROVE CountInv'
  BY <1>1 DEF udpVars, CountInv, CountsOwnUnits, At
<1>2. CASE UNCHANGED inputVars
  BY <1>1, <1>2 DEF inputVars
<1>3. CASE UdpStep
  BY <1>3, CountCallKeeps, CountCloseKeeps, CountThreadKeeps DEF UdpStep, CallRuns
<1>4. CASE Registration
  BY <1>1, <1>4 DEF Registration
<1>5. CASE \E t \in ThreadIds : DispatchUnit(t)
  BY <1>5, CountThreadKeeps DEF DispatchUnit
<1> QED
  BY <1>2, <1>3, <1>4, <1>5 DEF InputNext

\* datagrams_received is, at every moment and for every number of restarts, the
\* number of datagrams of the last start: no callback of an earlier start is counted
\* in it and none of its own is missed.
THEOREM UdpCountsOwnUnits == InputSpec => []CountsOwnUnits
<1>1. InputInit => CountInv
  BY CountInit
<1>2. UdpInv /\ CountInv /\ [InputNext]_inputVars => CountInv'
  BY CountStep
<1>3. CountInv => CountsOwnUnits
  BY DEF CountInv
<1> QED
  BY <1>1, <1>2, <1>3, InputInvariant, PTL DEF InputSpec

===============================================================================

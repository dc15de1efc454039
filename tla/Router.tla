-------------------------------- MODULE Router ---------------------------------
(***************************************************************************)
(* The APID router, src/ccsds_router.c: an array of entries, each active or    *)
(* not, searched from the front.  An entry keeps the APID and the handler; the *)
(* handler stands for the callback together with its user_data.                *)
(***************************************************************************)
EXTENDS Integers, FiniteSets

CONSTANTS Apids, ApidMax, Handlers,
          Slots                \* CONFIG_CCSDS_ROUTER_MAX_APIDS: entries 1..Slots

ASSUME RouterAssumption == Apids \subseteq Nat /\ ApidMax \in Nat /\ Slots \in Nat

VARIABLES entries,             \* router->entries
          result               \* what the last call returned

vars == << entries, result >>

Cleared == [active |-> FALSE, apid |-> 0, handler |-> "NULL"]    \* memset to zero

Entry(a, h) == [active |-> TRUE, apid |-> a, handler |-> h]

Index == 1..Slots

\* The entries active for an APID, and the first of a set of entries
Holding(a) == {i \in Index : entries[i].active /\ entries[i].apid = a}

Free == {i \in Index : ~entries[i].active}

First(I) == CHOOSE i \in I : \A j \in I : i <= j

\* ccsds_router_init
Init == entries = [i \in Index |-> Cleared] /\ result = "none"

Set(i, e, r) == entries' = [entries EXCEPT ![i] = e] /\ result' = r

Refuse(r) == result' = r /\ UNCHANGED entries

-------------------------------------------------------------------------------
\* Mutant: one loop takes the first entry that is free or holds the APID.
RegisterApidOneLoop(a, h) ==
    \/ a > ApidMax /\ Refuse("EINVAL")
    \/ /\ a <= ApidMax /\ Holding(a) \cup Free # {}
       /\ Set(First(Holding(a) \cup Free), Entry(a, h), "ok")
    \/ a <= ApidMax /\ Holding(a) \cup Free = {} /\ Refuse("ENOSPC")

\* ccsds_router_register_apid
RegisterApid(a, h) ==
    \/ a > ApidMax /\ Refuse("EINVAL")
    \/ /\ a <= ApidMax /\ Holding(a) # {}
       /\ Set(First(Holding(a)), Entry(a, h), "ok")
    \/ /\ a <= ApidMax /\ Holding(a) = {} /\ Free # {}
       /\ Set(First(Free), Entry(a, h), "ok")
    \/ a <= ApidMax /\ Holding(a) = {} /\ Free = {} /\ Refuse("ENOSPC")

\* ccsds_router_unregister_apid
UnregisterApid(a) ==
    \/ a > ApidMax /\ Refuse("EINVAL")
    \/ a <= ApidMax /\ Holding(a) # {} /\ Set(First(Holding(a)), Cleared, "ok")
    \/ a <= ApidMax /\ Holding(a) = {} /\ Refuse("ENOENT")

\* ccsds_router_dispatch: the result is that of the handler called
Dispatch(a) ==
    \/ a > ApidMax /\ Refuse("EINVAL")
    \/ a <= ApidMax /\ Holding(a) # {} /\ Refuse(entries[First(Holding(a))].handler)
    \/ a <= ApidMax /\ Holding(a) = {} /\ Refuse("ENOENT")

Next == \E a \in Apids : \/ \E h \in Handlers : RegisterApid(a, h)
                         \/ UnregisterApid(a)
                         \/ Dispatch(a)

Spec == Init /\ [][Next]_vars

-------------------------------------------------------------------------------
(* Properties *)

\* The entries are entries, and no invalid APID gets into one.
TypeOK == entries \in [Index -> [active : BOOLEAN, apid : {a \in Apids : a <= ApidMax} \cup {0},
                                 handler : Handlers \cup {"NULL"}]]

\* No APID is active in two entries: an unregistered APID would live on in the
\* second, although entries that fill and empty in any order leave free ones in
\* front of it (the two loops of ccsds_router_register_apid).
OneEntryEach == \A a \in Apids : \A i, j \in Holding(a) : i = j

\* The function the array stands for
Registered == {a \in Apids : Holding(a) # {}}

RouteMap == [a \in Registered |-> entries[First(Holding(a))].handler]

Routes == INSTANCE ApidRoutes WITH Capacity <- Slots, routes <- RouteMap

\* The array is that function: registering, replacing, removing and dispatching
\* have the effect and the result that ccsds_router.h promises.
RoutesRefined == Routes!RoutesSpec

================================================================================

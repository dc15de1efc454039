------------------------------ MODULE ApidRoutes -------------------------------
(***************************************************************************)
(* What the APID router promises, include/ccsds/ccsds_router.h: it is a        *)
(* partial function from APIDs to handlers with room for Capacity of them.     *)
(* A packet goes to the handler last registered for its APID.                  *)
(***************************************************************************)
EXTENDS Integers, FiniteSets, Functions

CONSTANTS Apids,               \* numbers offered as APIDs
          ApidMax,             \* CCSDS_APID_MAX: larger ones are invalid
          Handlers,            \* handlers, each with its user_data
          Capacity             \* CONFIG_CCSDS_ROUTER_MAX_APIDS

VARIABLES routes,              \* the function
          result               \* what the last call returned

routeVars == << routes, result >>

RoutesInit == routes = << >> /\ result = "none"

\* Registering replaces the handler of a known APID, full or not.
RoutesRegister(a, h) ==
    LET known == a \in DOMAIN routes
        fits == known \/ Cardinality(DOMAIN routes) < Capacity
    IN  /\ result' = IF a > ApidMax THEN "EINVAL" ELSE IF fits THEN "ok" ELSE "ENOSPC"
        /\ routes' = IF a <= ApidMax /\ fits
                       THEN [b \in DOMAIN routes \cup {a} |-> IF b = a THEN h ELSE routes[b]]
                       ELSE routes

RoutesUnregister(a) ==
    /\ result' = IF a > ApidMax THEN "EINVAL" ELSE IF a \in DOMAIN routes THEN "ok" ELSE "ENOENT"
    /\ routes' = Restrict(routes, DOMAIN routes \ {a})

\* The result of the dispatch is that of the one handler called.
RoutesDispatch(a) ==
    /\ result' = IF a > ApidMax THEN "EINVAL"
                 ELSE IF a \in DOMAIN routes THEN routes[a] ELSE "ENOENT"
    /\ UNCHANGED routes

RoutesNext ==
    \E a \in Apids : \/ \E h \in Handlers : RoutesRegister(a, h)
                     \/ RoutesUnregister(a)
                     \/ RoutesDispatch(a)

RoutesSpec == RoutesInit /\ [][RoutesNext]_routeVars

================================================================================

------------------------------- MODULE CfdpLink -------------------------------
(***************************************************************************)
(* What the two CFDP entities of a transfer share: the PDUs they exchange   *)
(* (include/ccsds/ccsds_cfdp_pdu.h) and the Unitdata Transfer service that   *)
(* carries them (struct ccsds_cfdp_ut_ops, supplied by the application).     *)
(*                                                                         *)
(* The service queues a PDU and returns, and delivers it later by calling    *)
(* ccsds_cfdp_entity_receive_pdu: `net' is the bag of PDUs in flight. It      *)
(* keeps no order, and it may lose, duplicate or damage a PDU.               *)
(*                                                                         *)
(* A file is a sequence of units of one segment. Every unit of the file of   *)
(* transaction `id' carries the value `id', so that data of another          *)
(* transaction or damaged data is told apart, and the checksum of a file is  *)
(* modelled by its content (any of the non-null checksum types).             *)
(***************************************************************************)
EXTENDS Naturals, Sequences, FiniteSets, Bags

CONSTANTS SeqModulus,          \* 256^transaction_sequence_number_len
          Scenarios            \* configurations and bounds: one is chosen at the start

ASSUME LinkAssumption ==
    /\ SeqModulus \in Nat \ {0}
    /\ \A s \in Scenarios :
         s \in [modes: SUBSET {"ack", "unack"}, closures: SUBSET BOOLEAN, sizes: SUBSET (0..8),
               puts: Nat, losses: Nat, dups: Nat, damages: Nat, faults: Nat,
               timely: BOOLEAN, ordered: BOOLEAN, rounds: Nat \ {0}]

VARIABLES net,                 \* bag of PDUs in flight, both directions
          limit,               \* the scenario: what may be put, and what may go wrong
          spent                \* losses, duplications, damages and faults so far

linkVars == << net, limit, spent >>

MaxNakRounds == limit.rounds   \* CCSDS_CFDP_MAX_NAK_ROUNDS

Ids       == 0..(SeqModulus - 1)
BadData   == SeqModulus        \* a damaged unit
Hole      == SeqModulus + 1    \* a unit of a temporary file not written yet

\* The file of a transaction, and the checksum sent with it.
SourceFile(id, size) == [u \in 0..(size - 1) |-> id]

\* Toward the receiver
MetadataPdu(id, mode, closure, size) ==
    [to |-> "receiver", type |-> "METADATA", id |-> id, mode |-> mode,
     closure |-> closure, size |-> size]
FileDataPdu(id, off, data) ==
    [to |-> "receiver", type |-> "FILEDATA", id |-> id, off |-> off, data |-> data]
EofPdu(id, size, cksum) ==
    [to |-> "receiver", type |-> "EOF", id |-> id, size |-> size, cksum |-> cksum]
AckFinishedPdu(id) == [to |-> "receiver", type |-> "ACK", id |-> id]

\* Toward the sender
AckEofPdu(id) == [to |-> "sender", type |-> "ACK", id |-> id]
NakPdu(id, size, ranges) ==
    [to |-> "sender", type |-> "NAK", id |-> id, size |-> size, ranges |-> ranges]
FinishedPdu(id, cond) ==
    [to |-> "sender", type |-> "FINISHED", id |-> id, cond |-> cond]

\* A PDU whose header is intact and whose body no decoder accepts.
GarbledPdu(to, id) == [to |-> to, type |-> "GARBLED", id |-> id]

InFlight == BagToSet(net)

\* A deadline may pass.  In a timely scenario none does while a PDU is in flight.
DeadlinesPass == limit.timely => InFlight = {}

\* One call of an entity consumes the PDUs `in' and hands the PDUs `out' to
\* send_pdu (no call sends the same PDU twice).
Exchange(in, out) == net' = (net (-) SetToBag(in)) (+) SetToBag(out)

\* A fault is a filestore or send_pdu callback that returns an error; a call of
\* an entity meets at most one.
SpendFault(f) ==
    /\ spent.faults + Cardinality(f) <= limit.faults
    /\ spent' = [spent EXCEPT !.faults = @ + Cardinality(f)]

OneFaultOf(S) == {{}} \cup {{x} : x \in S}

LinkInit ==
    /\ net = EmptyBag
    /\ limit \in Scenarios
    /\ spent = [losses |-> 0, dups |-> 0, damages |-> 0, faults |-> 0]

Lose(p) ==
    /\ spent.losses < limit.losses /\ spent' = [spent EXCEPT !.losses = @ + 1]
    /\ Exchange({p}, {})

Duplicate(p) ==
    /\ spent.dups < limit.dups /\ spent' = [spent EXCEPT !.dups = @ + 1]
    /\ Exchange({}, {p})

Damage(p) ==
    /\ spent.damages < limit.damages /\ spent' = [spent EXCEPT !.damages = @ + 1]
    /\ \/ /\ p.type = "FILEDATA"
          /\ Exchange({p}, {[p EXCEPT !.data = BadData]})
       \/ Exchange({p}, {GarbledPdu(p.to, p.id)})

LinkStep(p) == Lose(p) \/ Duplicate(p) \/ Damage(p)

===============================================================================

---------------------------------- MODULE Udp ----------------------------------
(***************************************************************************)
(* The UDP adapter, src/ccsds_udp.c: an application thread that starts and      *)
(* stops an instance, the receive threads it creates, and threads that send.    *)
(* Every section under udp->lock is one step; between two of them, and around   *)
(* the calls of the socket layer made without the lock, other threads run.      *)
(*                                                                         *)
(* The numbers of sockets matter: the receive thread keeps a copy of its own,   *)
(* and the socket layer gives a number that was closed to the next socket.      *)
(* Values that only report (last_error, datagrams_sent) are left out.           *)
(***************************************************************************)
EXTENDS Integers, Sequences, FiniteSets

CONSTANTS MaxFd,               \* socket numbers are 0 .. MaxFd
          MaxStarts, MaxUnits  \* bounds of the model: successful starts, datagrams

ASSUME UdpAssumption == {MaxFd, MaxStarts, MaxUnits} \subseteq Nat

VARIABLES udp,                 \* struct ccsds_udp: running, thread_started, rx_fd, tx_fd
                               \* and datagrams_received
          fds,                 \* what each socket number stands for
          call,                \* the call of start or stop the application is in
          threads,             \* the receive threads, by the start that created them
          starts, units        \* successful starts and datagrams so far

udpVars == << udp, fds, call, threads, starts, units >>

NoFd == -1
Fds == 0 .. MaxFd
ThreadIds == 1 .. MaxStarts

Idle == [pc |-> "idle", fd |-> NoFd, closing |-> << >>]

\* count is the number of datagrams a thread has handed to the callback.
NoThread == [pc |-> "none", fd |-> NoFd, unit |-> 0, count |-> 0]

\* ccsds_udp_init
UdpInit ==
    /\ udp = [running |-> FALSE, started |-> FALSE, rxFd |-> NoFd, txFd |-> NoFd,
              received |-> 0]
    /\ fds = [f \in Fds |-> "free"]
    /\ call = Idle /\ threads = [t \in ThreadIds |-> NoThread]
    /\ starts = 0 /\ units = 0

-------------------------------------------------------------------------------
(* The socket layer *)

FreeFds == {f \in Fds : fds[f] = "free"}
LowestFd == CHOOSE f \in FreeFds : \A g \in FreeFds : f <= g

\* The one port of the instance is bound as long as a receive socket is open.
PortBound == \E f \in Fds : fds[f] = "rx"

\* A thread that waits in recv on the socket that is closed returns with an error.
Woken(fd) ==
    [t \in ThreadIds |-> IF threads[t].pc = "wait" /\ threads[t].fd = fd
                           THEN [threads[t] EXCEPT !.pc = "failed"] ELSE threads[t]]

-------------------------------------------------------------------------------
(* ccsds_udp_start *)

\* Mutant: a thread that is still ending does not count.
MayStartRunning == ~udp.running

\* The first section under the lock; otherwise -EALREADY.
MayStart == ~udp.running /\ ~udp.started

StartCheck ==
    /\ call = Idle /\ starts < MaxStarts /\ MayStart
    /\ call' = [Idle EXCEPT !.pc = "socket"]
    /\ UNCHANGED << udp, fds, threads, starts, units >>

\* Mutant: a socket that cannot be bound is left open.
BindFailedOpen == fds' = [fds EXCEPT ![LowestFd] = "unbound"]

\* The socket is closed again.
BindFailed == UNCHANGED fds

\* socket and bind: either may fail, and bind does while the port is bound.
StartSocket ==
    /\ call.pc = "socket"
    /\ \/ call' = Idle /\ UNCHANGED fds
       \/ FreeFds # {} /\ BindFailed /\ call' = Idle
       \/ /\ FreeFds # {} /\ ~PortBound
          /\ fds' = [fds EXCEPT ![LowestFd] = "rx"]
          /\ call' = [Idle EXCEPT !.pc = "publish", !.fd = LowestFd]
    /\ UNCHANGED << udp, threads, starts, units >>

\* Mutant: the statistics of the last start are kept.
PublishedKept(fd) ==
    [udp EXCEPT !.running = TRUE, !.started = TRUE, !.rxFd = fd]

\* The second section under the lock
Published(fd) ==
    [running |-> TRUE, started |-> TRUE, rxFd |-> fd, txFd |-> udp.txFd, received |-> 0]

StartPublish ==
    /\ call.pc = "publish"
    /\ udp' = Published(call.fd)
    /\ call' = [call EXCEPT !.pc = "create"] /\ starts' = starts + 1
    /\ UNCHANGED << fds, threads, units >>

\* k_thread_create
StartCreate ==
    /\ call.pc = "create"
    /\ threads' = [threads EXCEPT ![starts] = [NoThread EXCEPT !.pc = "call", !.fd = call.fd]]
    /\ call' = Idle
    /\ UNCHANGED << udp, fds, starts, units >>

-------------------------------------------------------------------------------
(* ccsds_udp_stop *)

\* The sockets that are open, in the order in which they are closed
Open(rx, tx) ==
    IF rx = NoFd THEN << tx >> ELSE IF tx = NoFd THEN << rx >> ELSE << rx, tx >>

Stop ==
    /\ call = Idle
    /\ udp' = [udp EXCEPT !.running = FALSE, !.rxFd = NoFd, !.txFd = NoFd]
    /\ call' = IF udp.rxFd = NoFd /\ udp.txFd = NoFd THEN Idle
               ELSE [Idle EXCEPT !.pc = "close", !.closing = Open(udp.rxFd, udp.txFd)]
    /\ UNCHANGED << fds, threads, starts, units >>

\* The sockets are closed after the lock was given back.
StopClose ==
    /\ call.pc = "close"
    /\ fds' = [fds EXCEPT ![Head(call.closing)] = "free"]
    /\ threads' = Woken(Head(call.closing))
    /\ call' = IF Len(call.closing) = 1 THEN Idle
               ELSE [call EXCEPT !.closing = Tail(@)]
    /\ UNCHANGED << udp, starts, units >>

-------------------------------------------------------------------------------
(* udp_thread_fn *)

At(t, pc) == threads[t].pc = pc
Goto(t, pc) == threads' = [threads EXCEPT ![t].pc = pc]

\* zsock_recv: fails at once if the number is not a socket, waits otherwise.
RecvCall(t) ==
    /\ At(t, "call") /\ Goto(t, IF fds[threads[t].fd] = "free" THEN "failed" ELSE "wait")
    /\ UNCHANGED << udp, fds, call, starts, units >>

\* A datagram arrives: it is empty or above max_unit_len and refused as a whole,
\* or it is counted.  ccsds_udp_dispatch_datagram up to the callback
RecvUnit(t, size, unit) ==
    /\ At(t, "wait") /\ fds[threads[t].fd] = "rx" /\ units < MaxUnits
    /\ units' = units + 1
    /\ IF size = "fits"
         THEN /\ threads' = [threads EXCEPT ![t].pc = "callback", ![t].unit = unit]
              /\ udp' = [udp EXCEPT !.received = @ + 1]
         ELSE Goto(t, "call") /\ UNCHANGED udp
    /\ UNCHANGED << fds, call, starts >>

\* The callback has returned, whatever its result.
CallbackReturns(t) ==
    /\ At(t, "callback")
    /\ threads' = [threads EXCEPT ![t].pc = "call", ![t].count = @ + 1, ![t].unit = 0]
    /\ UNCHANGED << udp, fds, call, starts, units >>

\* The network fails while the thread waits.
RecvFails(t) ==
    /\ At(t, "wait") /\ Goto(t, "failed") /\ UNCHANGED << udp, fds, call, starts, units >>

\* Mutant: an error never ends the loop.
AfterFailureLoop == "call"

\* running is read under the lock, after recv has failed.
AfterFailure == IF udp.running THEN "call" ELSE "exit"

RecvFailed(t) ==
    /\ At(t, "failed") /\ Goto(t, AfterFailure) /\ UNCHANGED << udp, fds, call, starts, units >>

\* The last section under the lock: the adapter may be started again from here on,
\* although the thread has not ended.
ThreadExit(t) ==
    /\ At(t, "exit") /\ Goto(t, "ending")
    /\ LET own == udp.rxFd = threads[t].fd
       IN  /\ udp' = [udp EXCEPT !.running = FALSE, !.started = FALSE,
                                 !.rxFd = IF own THEN NoFd ELSE @]
           /\ fds' = IF own THEN [fds EXCEPT ![threads[t].fd] = "free"] ELSE fds
    /\ UNCHANGED << call, starts, units >>

ThreadEnd(t) ==
    /\ At(t, "ending") /\ Goto(t, "ended") /\ UNCHANGED << udp, fds, call, starts, units >>

-------------------------------------------------------------------------------
\* ccsds_udp_send, on any thread, under the lock throughout: the socket is opened
\* when it is needed, started or not; otherwise, and if that fails, nothing changes.
Send ==
    /\ udp.txFd = NoFd /\ FreeFds # {}
    /\ fds' = [fds EXCEPT ![LowestFd] = "tx"]
    /\ udp' = [udp EXCEPT !.txFd = LowestFd]
    /\ UNCHANGED << call, threads, starts, units >>

\* The steps the scheduler gives a thread and the application's call in the end
ThreadRuns(t) == RecvCall(t) \/ RecvFailed(t) \/ ThreadExit(t) \/ ThreadEnd(t)
CallRuns == StartSocket \/ StartPublish \/ StartCreate \/ StopClose

-------------------------------------------------------------------------------
(* Properties *)

\* At most one thread is in the receive loop, however stop, start and a slow
\* callback overlap: the buffer of the instance has one user.  (The thread before
\* it may still have to end.)
InLoop(t) == threads[t].pc \in {"call", "wait", "failed", "callback", "exit"}
OneReceiver == \A t, u \in ThreadIds : InLoop(t) /\ InLoop(u) => t = u

\* No socket is lost and none is closed twice: every open socket is one the
\* instance refers to, or the call in progress does, and what they refer to is open.
SocketsOwned ==
    /\ {f \in Fds : fds[f] # "free"} =
         ({udp.rxFd, udp.txFd} \cup {call.closing[i] : i \in DOMAIN call.closing}
            \cup (IF call.pc = "publish" THEN {call.fd} ELSE {})) \ {NoFd}
    /\ udp.rxFd # NoFd => fds[udp.rxFd] = "rx"
    /\ udp.txFd # NoFd => fds[udp.txFd] = "tx"

\* datagrams_received counts the datagrams of the last start and no other: a
\* callback that outlives stop is not counted again after the next start.
CountsOwnUnits ==
    starts > 0 => udp.received = threads[starts].count
                                   + (IF At(starts, "callback") THEN 1 ELSE 0)

\* The thread waits on a socket that is not its own: ccsds_udp_send, called between
\* stop and the thread's next recv, was given the number of the closed socket.
Stranded == \E t \in ThreadIds : At(t, "wait") /\ fds[threads[t].fd] = "tx"

\* A stopped adapter may be started again in the end, unless its thread is stranded.
StopReleases == (~udp.running /\ udp.started) ~> (udp.running \/ ~udp.started \/ Stranded)

===============================================================================

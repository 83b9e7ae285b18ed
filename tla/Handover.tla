------------------------------ MODULE Handover ------------------------------
(* Handing a listening socket from one process to the next, and the route      *)
(* that tells the threads of the new one which listener serves                 *)
(* (src/src/libraries/supervisor/socket_handover.c), with the older one-byte   *)
(* transfer of src/src/libraries/deploy/fd_pass.c on the same socket.          *)
(*                                                                             *)
(* The peer sends listeners, each of a generation of its own, over a control   *)
(* socket that keeps the bounds of messages.  Publishers of the receiving      *)
(* process take a message and publish its listener; acceptors ask the route    *)
(* for a duplicate of the listener that serves and close it when they are      *)
(* done; a taker withdraws the listener when the process shuts down.  A        *)
(* descriptor is a number in the table of the process: a number that was       *)
(* closed is handed out again.                                                 *)
EXTENDS Naturals, Sequences, FiniteSets

CONSTANTS
    Publishers, Acceptors, Taker,  \* the threads of the receiving process
    Fds,         \* its descriptor table, a set of numbers
    Generations, \* the listeners, named by their generation; the first is served at start
    First,
    Room,        \* messages the control socket holds
    NoFd         \* -1

\* Descriptors are numbers; each thread has one part to play; 0 is no listener.
ASSUME HandoverAssumption ==
    /\ Fds \subseteq Nat /\ Fds # {} /\ IsFiniteSet(Fds) /\ NoFd \notin Fds
    /\ First \in Generations /\ 0 \notin Generations /\ Room \in Nat
    /\ Publishers \cap Acceptors = {} /\ Taker \notin Publishers \cup Acceptors

VARIABLES
    table,   \* descriptor -> the listener it refers to, 0 when closed
    wire,    \* the control socket's messages
    sent,    \* the generations the peer has handed out
    route,   \* alrios_listener_route_t
    lock,    \* route->lock, the set of the threads inside
    pc, held, got,  \* per thread: where it is, the descriptor it owns, the generation told
    leaked   \* descriptors that no code remembers

handoverVars == <<table, wire, sent, route, lock, pc, held, got, leaked>>

Threads == Publishers \cup Acceptors \cup {Taker}

OpenFds == {f \in Fds : table[f] # 0}

HandoverInit ==
    /\ table = [f \in Fds |-> IF \A g \in Fds : f <= g THEN First ELSE 0]
    /\ wire = <<>>
    /\ sent = {First}
    /\ route = [active |-> CHOOSE f \in Fds : \A g \in Fds : f <= g,
                generation |-> First, initialized |-> TRUE]
    /\ lock = {}
    /\ pc = [t \in Threads |-> "idle"]
    /\ held = [t \in Threads |-> NoFd]
    /\ got = [t \in Threads |-> 0]
    /\ leaked = {}

----------------------------------------------------------------------------
\* alrios_socket_handover_send and alrios_send_live_fd: a frame, or a single
\* byte, with the listener beside it.  A full socket lets the poll of the
\* first run into its deadline; nothing was sent then.  A sender that is not
\* this library may attach nothing or a frame of another version.
PeerSends ==
    /\ Len(wire) < Room
    /\ \E g \in Generations \ sent, form \in {"frame", "byte", "foreign"} :
           /\ wire' = Append(wire, [form |-> form, listener |-> g])
           /\ sent' = sent \cup {g}
    /\ UNCHANGED <<table, route, lock, pc, held, got, leaked>>

PeerSendsNone ==
    /\ Len(wire) < Room
    /\ wire' = Append(wire, [form |-> "frame", listener |-> 0])
    /\ UNCHANGED <<table, sent, route, lock, pc, held, got, leaked>>

Go(t, place) == pc' = [pc EXCEPT ![t] = place]

LowestFd(S) == CHOOSE f \in S : \A g \in S : f <= g

\* What recvmsg leaves behind: the kernel installs the descriptor in the lowest
\* free number, or drops it (MSG_CTRUNC) when there is none.
Installed(listener) ==
    IF listener = 0 \/ OpenFds = Fds THEN NoFd ELSE LowestFd(Fds \ OpenFds)

\* The checks after recvmsg: size and flags, magic and version, the control message.
FrameAccepted(m, fd, form) == m.form = form /\ fd # NoFd

\* alrios_socket_handover_receive (form "frame") and alrios_recv_live_fd
\* ("byte"): the poll may time out first; a message that is refused after
\* recvmsg leaves its descriptor open and forgotten.
Receives(t) ==
    /\ pc[t] = "idle"
    /\ wire # <<>>
    /\ wire' = Tail(wire)
    /\ LET m == Head(wire)
           fd == Installed(m.listener)
       IN  /\ table' = IF fd = NoFd THEN table ELSE [table EXCEPT ![fd] = m.listener]
           /\ \E form \in {"frame", "byte"} :
                  \/ /\ FrameAccepted(m, fd, form)
                     /\ held' = [held EXCEPT ![t] = fd]
                     /\ got' = [got EXCEPT ![t] = m.listener]
                     /\ Go(t, IF form = "frame" THEN "flags" ELSE "received")
                     /\ UNCHANGED leaked
                  \/ /\ ~FrameAccepted(m, fd, form)
                     /\ leaked' = leaked \cup ({fd} \ {NoFd})
                     /\ UNCHANGED <<pc, held, got>>
    /\ UNCHANGED <<sent, route, lock>>

\* close() of what the thread owns; the number is free again.
Closes(t) ==
    /\ table' = [table EXCEPT ![held[t]] = 0]
    /\ held' = [held EXCEPT ![t] = NoFd]

\* FD_CLOEXEC and O_NONBLOCK; a failure closes the descriptor.
SetsFlags(t) ==
    /\ pc[t] = "flags"
    /\ \/ Go(t, "received") /\ UNCHANGED <<table, held>>
       \/ Go(t, "idle") /\ Closes(t)
    /\ UNCHANGED <<wire, sent, route, lock, got, leaked>>

\* atomic_flag_test_and_set found the flag clear.
LockFree == lock = {}

\* The spin of route_publish, route_acquire and route_take.
Locks(t, from, to) ==
    /\ pc[t] = from
    /\ LockFree
    /\ lock' = lock \cup {t}
    /\ Go(t, to)
    /\ UNCHANGED <<table, wire, sent, route, held, got, leaked>>

\* alrios_listener_route_publish, inside: the descriptors change hands, ...
PublishSwaps(t) ==
    /\ pc[t] = "publish"
    /\ \/ /\ ~route.initialized
          /\ lock' = lock \ {t}
          /\ Go(t, "close")
          /\ UNCHANGED <<route, held>>
       \/ /\ route.initialized
          /\ route' = [route EXCEPT !.active = held[t]]
          /\ held' = [held EXCEPT ![t] = route.active]
          /\ Go(t, "generation")
          /\ UNCHANGED lock
    /\ UNCHANGED <<table, wire, sent, got, leaked>>

\* ... then the generation is written and the lock cleared.
PublishEnds(t) ==
    /\ pc[t] = "generation"
    /\ route' = [route EXCEPT !.generation = got[t]]
    /\ lock' = lock \ {t}
    /\ Go(t, "close")
    /\ UNCHANGED <<table, wire, sent, held, got, leaked>>

\* Mutant: the route's own descriptor is handed out.
MutNoDup == [to |-> route.active, table |-> table]

\* fcntl(F_DUPFD_CLOEXEC), and dup when that failed.
Duplicate ==
    LET fd == LowestFd(Fds \ OpenFds)
    IN  [to |-> fd, table |-> [table EXCEPT ![fd] = table[route.active]]]

\* alrios_listener_route_acquire, inside: the duplicate, ...
AcquireDups(t) ==
    /\ pc[t] = "acquire"
    /\ \/ /\ ~route.initialized \/ OpenFds = Fds
          /\ lock' = lock \ {t}
          /\ Go(t, "idle")
          /\ UNCHANGED <<table, held>>
       \/ /\ route.initialized /\ OpenFds # Fds
          /\ table' = Duplicate.table
          /\ held' = [held EXCEPT ![t] = Duplicate.to]
          /\ Go(t, "tell")
          /\ UNCHANGED lock
    /\ UNCHANGED <<wire, sent, route, got, leaked>>

\* ... then the generation it belongs to.
AcquireTells(t) ==
    /\ pc[t] = "tell"
    /\ got' = [got EXCEPT ![t] = route.generation]
    /\ lock' = lock \ {t}
    /\ Go(t, "serve")
    /\ UNCHANGED <<table, wire, sent, route, held, leaked>>

\* alrios_listener_route_take, inside
Takes(t) ==
    /\ pc[t] = "take"
    /\ IF route.initialized
       THEN /\ held' = [held EXCEPT ![t] = route.active]
            /\ route' = [route EXCEPT !.active = NoFd, !.initialized = FALSE]
            /\ Go(t, "close")
       ELSE Go(t, "idle") /\ UNCHANGED <<held, route>>
    /\ lock' = lock \ {t}
    /\ UNCHANGED <<table, wire, sent, got, leaked>>

\* The owner closes what the header says it owns: the previous listener, the
\* one it could not publish, its duplicate, the one it took.
ThreadCloses(t) ==
    /\ pc[t] \in {"close", "serve"}
    /\ Closes(t)
    /\ Go(t, "idle")
    /\ UNCHANGED <<wire, sent, route, lock, got, leaked>>

PublisherStep(t) ==
    \/ Receives(t) \/ SetsFlags(t)
    \/ Locks(t, "received", "publish") \/ PublishSwaps(t) \/ PublishEnds(t)

AcceptorStep(t) ==
    Locks(t, "idle", "acquire") \/ AcquireDups(t) \/ AcquireTells(t)

TakerStep(t) == Locks(t, "idle", "take") \/ Takes(t)

HandoverNext ==
    \/ PeerSends \/ PeerSendsNone
    \/ \E t \in Publishers : PublisherStep(t)
    \/ \E t \in Acceptors : AcceptorStep(t)
    \/ TakerStep(Taker)
    \/ \E t \in Threads : ThreadCloses(t)

HandoverSpec == HandoverInit /\ [][HandoverNext]_handoverVars

----------------------------------------------------------------------------
\* The shape of the state.
HandoverTypeOK ==
    /\ table \in [Fds -> Generations \cup {0}]
    /\ Len(wire) <= Room
    /\ route.active \in Fds \cup {NoFd} /\ route.generation \in Generations
    /\ lock \subseteq Threads /\ Cardinality(lock) <= 1
    /\ held \in [Threads -> Fds \cup {NoFd}]
    /\ got \in [Threads -> Generations \cup {0}]

\* What the header says about ownership (socket_handover.h:43 and :62): through any
\* order of transfers, swaps, duplicates and the final take, each open
\* descriptor has one owner that will close it (the route, one thread, or
\* nobody after a refused message), nobody owns a number that is closed, and
\* the duplicate of an acceptor is of the generation it was told.
ListenersHaveOneOwner ==
    LET ofThreads == {held[t] : t \in Threads} \ {NoFd}
        ofRoute == {route.active} \ {NoFd}
    IN  /\ OpenFds = ofThreads \cup ofRoute \cup leaked
        /\ Cardinality(OpenFds) = Cardinality({t \in Threads : held[t] # NoFd})
                                    + Cardinality(ofRoute) + Cardinality(leaked)
        /\ \A t \in Acceptors : pc[t] = "serve" => table[held[t]] = got[t]
        /\ lock = {} /\ route.initialized => table[route.active] = route.generation
=============================================================================

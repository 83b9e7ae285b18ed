----------------------------- MODULE EventDaemon -----------------------------
(***************************************************************************)
(* The event daemon of daemons/ar_eventd/main.c: one thread that polls its *)
(* listening socket and its clients, and drives the broker.  clients[] is  *)
(* compacted by moving its last element into the hole, while the results   *)
(* of poll stay at the positions they were taken for.  Peers connect, send *)
(* datagrams, read and hang up at any moment.                              *)
(***************************************************************************)
EXTENDS EventBroker

CONSTANTS Conns,            \* connections, each made at most once
          OwnerOf,          \* the credentials of each connection
          MaxClients,       \* AR_EVENTD_MAX_CLIENTS
          MaxSubsPerClient, \* AR_EVENTD_MAX_SUBS_PER_CLIENT
          SendRoom,         \* frames a socket buffer holds
          Junk,             \* what an unwritten pollfd entry can read as
          MaxSent,          \* bound: datagrams the peers send
          MaxInbox          \* bound: datagrams waiting in a socket

Events == {"IN", "HUP"}

ASSUME DaemonAssumption ==
  /\ Junk \subseteq SUBSET Events /\ Junk # {}
  /\ OwnerOf \in [Conns -> Owners]
  /\ MaxClients \in Nat \ {0} /\ MaxSubsPerClient \in Nat \ {0}
  /\ SendRoom \in Nat \ {0} /\ MaxSent \in Nat /\ MaxInbox \in Nat \ {0}
  \* ar_eventd_authorize: the same uid and principal may unsubscribe.
  /\ \A o \in Owners : <<o, o>> \in MayUnsubscribe

VARIABLES peer,     \* each peer: not connected, open, hung up
          backlog,  \* connections not yet accepted, in order
          clients,  \* clients[]: connection and subs[]
          inbox,    \* datagrams each peer sent that the daemon has not read
          sent,     \* number of datagrams sent by all peers
          outbox,   \* frames in each socket buffer towards the peer
          revents,  \* pfds[1..].revents
          at, idx,  \* the daemon: its place, the client it looks at
          di, si    \* dispatch_pending_events: client and subscription

peers == <<peer, inbox, sent, outbox>>
daemonVars == <<backlog, clients, revents, at, idx, di, si>>
vars == <<brokerVars, peers, daemonVars>>

Requests ==
  [kind : {"subscribe"}, topic : Topics, policy : Policies]
    \cup [kind : {"unsubscribe", "emit"}, topic : Topics]
    \cup [kind : {"bad", "foreign"}]   \* undecodable; from another process

ConnsServed == {clients[i].conn : i \in DOMAIN clients}
Connected == {c \in ConnsServed \cup Range(backlog) : peer[c] = "open"}

Init ==
  /\ BrokerInit
  /\ peer = [c \in Conns |-> "none"]
  /\ inbox = [c \in Conns |-> <<>>]
  /\ sent = 0
  /\ outbox = [c \in Conns |-> 0]
  /\ backlog = <<>>
  /\ clients = <<>>
  /\ revents = [i \in 1..MaxClients |-> {}]
  /\ at = "poll" /\ idx = 1 /\ di = 1 /\ si = 1

-----------------------------------------------------------------------------
(* External: the peers. *)

Connect(c) ==
  /\ peer[c] = "none" /\ at # "exit"
  /\ peer' = [peer EXCEPT ![c] = "open"]
  /\ backlog' = Append(backlog, c)
  /\ UNCHANGED <<brokerVars, inbox, sent, outbox, clients, revents, at,
                 idx, di, si>>

SendDatagram(c, r) ==
  /\ c \in Connected
  /\ sent < MaxSent /\ Len(inbox[c]) < MaxInbox
  /\ sent' = sent + 1
  /\ inbox' = [inbox EXCEPT ![c] = Append(@, r)]
  /\ UNCHANGED <<brokerVars, peer, outbox, daemonVars>>

ReadFrame(c) ==
  /\ c \in Connected
  /\ outbox[c] > 0
  /\ outbox' = [outbox EXCEPT ![c] = @ - 1]
  /\ UNCHANGED <<brokerVars, peer, inbox, sent, daemonVars>>

HangUp(c) ==
  /\ c \in Connected
  /\ peer' = [peer EXCEPT ![c] = "hung"]
  /\ outbox' = [outbox EXCEPT ![c] = 0]
  /\ UNCHANGED <<brokerVars, inbox, sent, daemonVars>>

-----------------------------------------------------------------------------
(* The poll loop. *)

MutIgnoresHangup(c) == IF inbox[c] # <<>> THEN {"IN"} ELSE {}
\* What poll reports of a connection.
Ready(c) == (IF peer[c] = "hung" THEN {"HUP"} ELSE {})
              \cup (IF inbox[c] # <<>> \/ peer[c] = "hung" THEN {"IN"} ELSE {})

\* poll fills the entries of the clients it was given; the entries above are
\* never written, so they read as anything.
Poll ==
  /\ at = "poll"
  /\ \E junk \in Junk :
       revents' = [i \in 1..MaxClients |->
                     IF i <= Len(clients) THEN Ready(clients[i].conn) ELSE junk]
  /\ at' = IF backlog # <<>> THEN "accept" ELSE "scan"
  /\ idx' = 1
  /\ UNCHANGED <<brokerVars, peers, backlog, clients, di, si>>

HasRoom == Len(clients) < MaxClients

\* A connection beyond the limit, or without credentials, is closed at once.
Accept ==
  /\ at = "accept"
  /\ backlog' = Tail(backlog)
  /\ \/ /\ HasRoom
        /\ clients' = Append(clients, [conn |-> Head(backlog), subs |-> <<>>])
        /\ UNCHANGED inbox
     \/ /\ UNCHANGED clients
        /\ inbox' = [inbox EXCEPT ![Head(backlog)] = <<>>]
  /\ at' = "scan"
  /\ UNCHANGED <<brokerVars, peer, sent, outbox, revents, idx, di, si>>

\* The last client takes the place of the one that leaves.
ClientsWithout(i) == Front([clients EXCEPT ![i] = Last(clients)])

MutKeepsSubscriptions(i) == UNCHANGED brokerVars
\* Everything the client subscribed to is unsubscribed.
ReleaseSubscriptions(i) == Release(clients[i].subs)

\* client_disconnect; close discards what the socket still holds.
Disconnect(i) ==
  LET c == clients[i].conn IN
    /\ ReleaseSubscriptions(i)
    /\ clients' = ClientsWithout(i)
    /\ inbox' = [inbox EXCEPT ![c] = <<>>]
    /\ outbox' = [outbox EXCEPT ![c] = 0]
    /\ UNCHANGED <<peer, sent>>

Looking == at = "scan" /\ idx <= Len(clients)
Conn == clients[idx].conn

ScanHangup ==
  /\ Looking
  /\ "HUP" \in revents[idx]
  /\ Disconnect(idx)
  /\ UNCHANGED <<backlog, revents, at, idx, di, si>>

ScanNothing ==
  /\ Looking
  /\ \/ revents[idx] = {}
     \* recvmsg on an open connection without a datagram: EAGAIN.
     \/ revents[idx] = {"IN"} /\ inbox[Conn] = <<>> /\ peer[Conn] = "open"
  /\ idx' = idx + 1
  /\ UNCHANGED <<brokerVars, peers, backlog, clients, revents, at, di, si>>

ScanDone ==
  /\ at = "scan" /\ idx > Len(clients)
  /\ at' = "poll" /\ idx' = 1
  /\ revents' = [i \in 1..MaxClients |-> {}]   \* pfds goes out of scope
  /\ UNCHANGED <<brokerVars, peers, backlog, clients, di, si>>

-----------------------------------------------------------------------------
(* handle_client_datagram, on a client whose entry says POLLIN. *)

Handling == Looking /\ revents[idx] = {"IN"}

\* End of file on the connection.
RecvEof ==
  /\ Handling
  /\ inbox[Conn] = <<>> /\ peer[Conn] = "hung"
  /\ Disconnect(idx)
  /\ UNCHANGED <<backlog, revents, at, idx, di, si>>

Arrived(kind) ==
  /\ Handling
  /\ inbox[Conn] # <<>>
  /\ Head(inbox[Conn]).kind = kind

Recv(kind) ==
  /\ Arrived(kind)
  /\ inbox' = [inbox EXCEPT ![Conn] = Tail(@)]
  /\ UNCHANGED <<peer, sent, backlog, revents>>

\* send with MSG_DONTWAIT succeeds only into free room of an open peer.
CanSend(c) == peer[c] = "open" /\ outbox[c] < SendRoom
Answer == outbox' = IF CanSend(Conn) THEN [outbox EXCEPT ![Conn] = @ + 1]
                                     ELSE outbox

\* ACK or NACK, and on to the next client.
Answered == Answer /\ idx' = idx + 1 /\ UNCHANGED <<at, di, si>>

\* SCM_CREDENTIALS of another process.
RecvForeign ==
  /\ Arrived("foreign")
  /\ Disconnect(idx)
  /\ UNCHANGED <<backlog, revents, at, idx, di, si>>

\* A datagram shorter than its header gets no answer, any other bad one NACK.
RecvBad ==
  /\ Recv("bad")
  /\ Answer \/ UNCHANGED outbox
  /\ idx' = idx + 1
  /\ UNCHANGED <<brokerVars, clients, at, di, si>>

RecvSubscribe ==
  /\ Recv("subscribe")
  /\ LET r == Head(inbox[Conn])
         k == [owner |-> OwnerOf[Conn], topic |-> r.topic]
     IN  \/ /\ Len(clients[idx].subs) < MaxSubsPerClient
            /\ Subscribe(k, r.policy)
            /\ clients' = [clients EXCEPT ![idx].subs = Append(@, k)]
         \/ /\ Len(clients[idx].subs) >= MaxSubsPerClient \/ ~SubscribeAllowed(k)
            /\ UNCHANGED <<brokerVars, clients>>
  /\ Answered

\* client_remove_subscription_index: the last one takes the place.
SubsWithout(subs, k) == SwapRemove(subs, k)

RecvUnsubscribe ==
  /\ Recv("unsubscribe")
  /\ LET k == [owner |-> OwnerOf[Conn], topic |-> Head(inbox[Conn]).topic]
     IN  \/ /\ k \in Range(clients[idx].subs)
            /\ Unsubscribe(OwnerOf[Conn], k)
            /\ clients' = [clients EXCEPT ![idx].subs = SubsWithout(@, k)]
         \/ /\ k \notin Range(clients[idx].subs)
            /\ UNCHANGED <<brokerVars, clients>>
  /\ Answered

MutStartsAtSender == idx
\* dispatch_pending_events begins with the first client, whoever emitted.
DispatchFrom == 1

\* NACK when the sequence numbers are used up, else ACK and dispatch.
RecvEmit ==
  /\ Recv("emit")
  /\ \/ /\ Emit(Head(inbox[Conn]).topic)
        /\ at' = "dispatch" /\ di' = DispatchFrom
        /\ UNCHANGED <<idx, si>>
     \/ /\ next_sequence = MaxSequence
        /\ idx' = idx + 1
        /\ UNCHANGED <<brokerVars, at, di, si>>
  /\ Answer
  /\ UNCHANGED clients

-----------------------------------------------------------------------------
(* dispatch_pending_events: every client, every subscription. *)

Dispatching == at = "dispatch" /\ di <= Len(clients)
Key == clients[di].subs[si]

NextClient ==
  /\ Dispatching
  /\ si > Len(clients[di].subs)
  /\ di' = di + 1 /\ si' = 1
  /\ UNCHANGED <<brokerVars, peers, backlog, clients, revents, at, idx>>

\* Nothing pending in this subscription.
NextSubscription ==
  /\ Dispatching
  /\ si <= Len(clients[di].subs)
  /\ ring[Key].count = 0
  /\ si' = si + 1
  /\ UNCHANGED <<brokerVars, peers, backlog, clients, revents, at, idx, di>>

\* The event is taken from the queue first; when send fails it is gone, and
\* the subscription is left for the next one.
Deliver ==
  /\ Dispatching
  /\ si <= Len(clients[di].subs)
  /\ Receive(Key)
  /\ LET c == clients[di].conn IN
       IF CanSend(c)
       THEN /\ outbox' = [outbox EXCEPT ![c] = @ + 1]
            /\ UNCHANGED si
       ELSE UNCHANGED outbox /\ si' = si + 1
  /\ UNCHANGED <<peer, inbox, sent, backlog, clients, revents, at, idx, di>>

DispatchDone ==
  /\ at = "dispatch" /\ di > Len(clients)
  /\ at' = "scan" /\ idx' = idx + 1 /\ di' = 1 /\ si' = 1
  /\ UNCHANGED <<brokerVars, peers, backlog, clients, revents>>

-----------------------------------------------------------------------------
(* A signal ends the loop: every client is disconnected, then the exit. *)

Signal ==
  /\ at = "poll"
  /\ at' = "cleanup"
  /\ UNCHANGED <<brokerVars, peers, backlog, clients, revents, idx, di, si>>

Cleanup ==
  /\ at = "cleanup"
  /\ IF clients # <<>> THEN Disconnect(1) /\ UNCHANGED <<backlog, at>>
     ELSE /\ at' = "exit"
          /\ backlog' = <<>>   \* the listening socket is closed
          /\ UNCHANGED <<brokerVars, peers, clients>>
  /\ UNCHANGED <<revents, idx, di, si>>

-----------------------------------------------------------------------------
DaemonStep ==
  \/ Poll \/ Accept \/ ScanHangup \/ ScanNothing \/ ScanDone
  \/ RecvEof \/ RecvForeign \/ RecvBad \/ RecvSubscribe \/ RecvUnsubscribe
  \/ RecvEmit
  \/ NextClient \/ NextSubscription \/ Deliver \/ DispatchDone
  \/ Cleanup

PeerStep(c) ==
  \/ Connect(c) \/ ReadFrame(c) \/ HangUp(c)
  \/ \E r \in Requests : SendDatagram(c, r)

Next == DaemonStep \/ Signal \/ \E c \in Conns : PeerStep(c)

\* The daemon's loop runs; peers and signals owe nothing.
Spec == Init /\ [][Next]_vars
FairSpec == Spec /\ WF_vars(DaemonStep)

-----------------------------------------------------------------------------
(* Properties. *)

\* Every variable keeps its type; positions stay inside the arrays.
DaemonTypeOK ==
  /\ peer \in [Conns -> {"none", "open", "hung"}]
  /\ Range(backlog) \subseteq Conns
  /\ Len(clients) <= MaxClients
  /\ \A i \in DOMAIN clients : /\ clients[i].conn \in Conns
                               /\ clients[i].subs \in Seq(Keys)
  /\ outbox \in [Conns -> 0..SendRoom]
  /\ revents \in [1..MaxClients -> SUBSET Events]
  /\ at \in {"poll", "accept", "scan", "dispatch", "cleanup", "exit"}
  /\ idx \in 1..MaxClients + 1 /\ di \in 1..MaxClients + 1

\* No client holds a pointer to a freed subscription and no subscription is
\* left without its client, through swaps in both arrays, hang-ups in the
\* middle of a scan and connections of the same identity.
SubscriptionsHaveOneHolder ==
  /\ DaemonTypeOK
  /\ \A i \in DOMAIN clients :
       /\ Range(clients[i].subs) \subseteq {k \in Subscribed :
                                              k.owner = OwnerOf[clients[i].conn]}
       /\ Len(clients[i].subs) = Cardinality(Range(clients[i].subs))
  /\ \A k \in Subscribed :
       Cardinality({i \in DOMAIN clients : k \in Range(clients[i].subs)}) = 1

\* An event never stays behind in a ring: when a dispatch ends every event was
\* sent, or lost to a peer that does not read.  The daemon relies on it, since
\* it never polls for room to send: what stayed would wait for the next emit.
NothingLeftQueued ==
  at # "dispatch" => \A k \in Subscribed : ring[k].count = 0

\* main.c:292 "Socket error: client will be disconnected on next poll": a
\* peer that hung up is forgotten by the daemon.
HungIsForgotten ==
  \A c \in Conns :
    peer[c] = "hung" ~> (c \notin ConnsServed /\ c \notin Range(backlog))

\* main.c:289,292 "slow consumer isolation", "client will be disconnected on
\* next poll": the daemon's loop disconnects the client that failed (hung up,
\* or sent with other credentials), never a healthy one.
OnlyFailedDisconnected ==
  [][\A c \in Conns :
       /\ at = "scan" /\ c \in ConnsServed
       /\ peer[c] = "open" /\ \A i \in DOMAIN inbox[c] : inbox[c][i].kind # "foreign"
       => c \in ConnsServed']_vars
=============================================================================

---------------------------- MODULE GuestRouter ----------------------------
(***************************************************************************)
(* The guest router of the supervisor and the channels below it            *)
(* (libraries/supervisor/guest_router.c, libraries/ipc/guest_channel.c):   *)
(* one entry per guest with a ring of messages that did not fit into the   *)
(* guest's socket, and a dispatch pass that polls all guests and hands     *)
(* what they sent to a handler.  The handler may call the router again.    *)
(*                                                                         *)
(* The router is used by one thread; the guests read, send and hang up     *)
(* between any two of its system calls.  A socket pair is a datagram       *)
(* channel: a frame arrives whole or not at all.  A message is its number, *)
(* counted per guest and modulo Ids, and whether the channel would refuse  *)
(* its size or flags; a frame of a guest is one of the kinds that          *)
(* ar_guest_channel_receive tells apart.  The sockets of a guest are named *)
(* by its entry and forgotten with it.  The ring of an entry is a bounded  *)
(* sequence; statistics are left out.                                      *)
(***************************************************************************)
EXTENDS Naturals, Sequences, FiniteSets, SequencesExt

CONSTANTS Apps,         \* application ids
          NoApp,        \* the id of a free entry
          MaxGuests,    \* config.max_guests
          QueueDepth,   \* config.max_queue_depth
          FloodPolicy,  \* "drop", "backpressure" or "disconnect"
          Quota,        \* frames per guest and pass (16)
          SocketRoom,   \* datagrams that a socket buffers
          Senders,      \* the guests that send
          Frames,       \* the kinds of frames that they send
          Refused,      \* whether messages are sent that the channel refuses
          Ids           \* bound: numbers of messages

ASSUME RouterAssumption == /\ NoApp \notin Apps
                           /\ {MaxGuests, QueueDepth, Quota, SocketRoom} \subseteq Nat \ {0}
                           /\ FloodPolicy \in {"drop", "backpressure", "disconnect"}
                           /\ Frames \subseteq {"good", "foreign", "malformed", "empty"}
                           /\ Refused \subseteq BOOLEAN
                           /\ Ids \in Nat \ {0, 1}

Slots == 1..MaxGuests

VARIABLES entry,       \* router->entries
          guest_count,
          down, up,    \* the datagrams on their way to and from each guest
          peer,        \* each guest's end: open, closed, reset
          due,         \* the messages accepted for each guest that it has not read
          dropped,     \* the guests for which a message was dropped
          call,        \* the send, broadcast or flush that is under way
          at,          \* where dispatch is
          pass         \* its position, quota and poll results

guestVars == <<down, up, peer, due, dropped>>
vars == <<entry, guest_count, guestVars, call, at, pass>>

Msg == [id : 0..(Ids - 1), bad : BOOLEAN]

FreeEntry == [app |-> NoApp, quarantined |-> FALSE, queue |-> <<>>]

NoCall == [op |-> "none", slot |-> 0, bad |-> FALSE]

NoPass == [pos |-> 0, quota |-> 0, revents |-> [i \in Slots |-> {}]]

Active(i) == entry[i].app # NoApp
Live(i) == Active(i) /\ ~entry[i].quarantined

Init == /\ entry = [i \in Slots |-> FreeEntry]
        /\ guest_count = 0
        /\ down = [i \in Slots |-> <<>>] /\ up = [i \in Slots |-> <<>>]
        /\ peer = [i \in Slots |-> "closed"]
        /\ due = [i \in Slots |-> <<>>]
        /\ dropped = {}
        /\ call = NoCall /\ at = "idle" /\ pass = NoPass

\* The application calls the router, from outside or from the handler.
MayCall == call = NoCall /\ at \in {"idle", "handler"}

Quarantine(i) == entry' = [entry EXCEPT ![i].quarantined = TRUE]

\* A fresh socket pair, or none.
Socket(i, end) == /\ down' = [down EXCEPT ![i] = <<>>] /\ up' = [up EXCEPT ![i] = <<>>]
                  /\ peer' = [peer EXCEPT ![i] = end]
                  /\ due' = [due EXCEPT ![i] = <<>>] /\ dropped' = dropped \ {i}

(***************************************************************************)
(* Registration                                                            *)
(***************************************************************************)

\* find_entry and the limit, in register and again in attach.
CanRegister(a) == /\ \A i \in Slots : entry[i].app # a
                  /\ guest_count < MaxGuests

FirstFree == CHOOSE i \in Slots : ~Active(i) /\ \A j \in Slots : ~Active(j) => i <= j

Register(a) ==
  /\ MayCall /\ CanRegister(a)
  /\ entry' = [entry EXCEPT ![FirstFree] = [FreeEntry EXCEPT !.app = a]]
  /\ guest_count' = guest_count + 1
  /\ Socket(FirstFree, "open")
  /\ UNCHANGED <<call, at, pass>>

\* The channel is closed and what the ring still holds is freed.
Unregister(i) ==
  /\ MayCall /\ Active(i)
  /\ entry' = [entry EXCEPT ![i] = FreeEntry]
  /\ guest_count' = guest_count - 1
  /\ Socket(i, "closed")
  /\ UNCHANGED <<call, at, pass>>

Destroy ==
  /\ call = NoCall /\ at = "idle" /\ at' = "destroyed"
  /\ entry' = [i \in Slots |-> FreeEntry] /\ guest_count' = 0
  /\ down' = [i \in Slots |-> <<>>] /\ up' = down' /\ due' = down'
  /\ peer' = [i \in Slots |-> "closed"] /\ dropped' = {}
  /\ UNCHANGED <<call, pass>>

(***************************************************************************)
(* Sending                                                                 *)
(***************************************************************************)
\* What ar_guest_channel_send returns, apart from other system errors.
SendStatus(i, bad) == IF bad THEN "limit"
                      ELSE IF peer[i] # "open" THEN "closed"
                      ELSE IF Len(down[i]) >= SocketRoom THEN "would_block"
                      ELSE "ok"

\* A call of ar_guest_channel_send by the router, and its status r.
ChannelSend(i, bad, r) ==
  r = SendStatus(i, bad) \/ (r = "system" /\ ~bad)

Put(i, m) == down' = [down EXCEPT ![i] = Append(@, m)]

Accept(i, m) ==
  due' = IF peer[i] = "open" THEN [due EXCEPT ![i] = Append(@, m)] ELSE due

\* broadcast goes on with the next guest, another call returns.
Targets(i) == {j \in Slots : j > i /\ Live(j)}

Lowest(S) == CHOOSE j \in S : \A k \in S : j <= k

Return(i) ==
  call' = IF call.op = "broadcast" /\ Targets(i) # {}
          THEN [call EXCEPT !.slot = Lowest(Targets(i))] ELSE NoCall

Call(op, i, bad) == /\ call' = [op |-> op, slot |-> i, bad |-> bad]
                    /\ UNCHANGED <<entry, guest_count, guestVars, at, pass>>

Send(i, bad) == MayCall /\ Live(i) /\ Call("send", i, bad)

Broadcast(bad) == MayCall /\ Targets(0) # {} /\ Call("broadcast", Lowest(Targets(0)), bad)

\* ar_guest_router_flush does not ask whether the guest is quarantined.
Flush(i) == MayCall /\ Active(i) /\ entry[i].queue # <<>> /\ Call("flush", i, FALSE)

\* The socket did not take it, or older messages wait: queue a copy, for
\* which there may be no memory.
QueueOrDrop(i, m) ==
  IF Len(entry[i].queue) < QueueDepth
  THEN \/ /\ entry' = [entry EXCEPT ![i].queue = Append(@, m)]
          /\ Accept(i, m) /\ UNCHANGED dropped
       \/ UNCHANGED <<entry, due, dropped>>
  ELSE /\ IF FloodPolicy = "disconnect" THEN Quarantine(i) ELSE UNCHANGED entry
       /\ dropped' = dropped \cup {i} /\ UNCHANGED due

\* The message of the call, as the next one for guest i.
NewMsg(i) == [id |-> IF due[i] = <<>> THEN 0 ELSE (Last(due[i]).id + 1) % Ids,
              bad |-> call.bad]

\* flush_entry_queue: the oldest message goes out ...
FlushOne ==
  LET i == call.slot  m == Head(entry[i].queue)
  IN  /\ call # NoCall /\ entry[i].queue # <<>>
      /\ ChannelSend(i, m.bad, "ok") /\ Put(i, m)
      /\ entry' = [entry EXCEPT ![i].queue = Tail(@)]
      /\ UNCHANGED <<guest_count, up, peer, due, dropped, call, at, pass>>

\* ... until one does not, whatever the reason.  A new message then queues
\* up behind the others.
FlushStops ==
  LET i == call.slot  m == Head(entry[i].queue)
  IN  /\ call # NoCall /\ entry[i].queue # <<>>
      /\ \E r \in {"limit", "closed", "would_block", "system"} : ChannelSend(i, m.bad, r)
      /\ IF call.op \in {"send", "broadcast"} THEN QueueOrDrop(i, NewMsg(i))
         ELSE UNCHANGED <<entry, due, dropped>>
      /\ Return(i)
      /\ UNCHANGED <<guest_count, down, up, peer, at, pass>>

FlushDone == /\ call.op \in {"flush", "dispatch"} /\ entry[call.slot].queue = <<>>
             /\ call' = NoCall
             /\ UNCHANGED <<entry, guest_count, guestVars, at, pass>>

MarkClosed(i, r) == IF r = "closed" THEN Quarantine(i) ELSE UNCHANGED entry

\* Mutant: a message is sent as soon as the socket has room.
MutOvertakes(i) == entry[i].queue = <<>> \/ SendStatus(i, FALSE) = "ok"

\* Only when nothing waits is a message sent directly.
NothingWaits(i) == entry[i].queue = <<>>

SendDirect ==
  LET i == call.slot  m == NewMsg(i)
  IN  /\ call.op \in {"send", "broadcast"} /\ NothingWaits(i)
      /\ \E r \in {"ok", "limit", "closed", "would_block", "system"} :
           /\ ChannelSend(i, m.bad, r)
           /\ IF r = "ok" THEN Put(i, m) /\ Accept(i, m) /\ UNCHANGED <<entry, dropped>>
              ELSE IF r = "would_block" THEN QueueOrDrop(i, m) /\ UNCHANGED down
              ELSE MarkClosed(i, r) /\ UNCHANGED <<down, due, dropped>>
      /\ Return(i)
      /\ UNCHANGED <<guest_count, up, peer, at, pass>>

(***************************************************************************)
(* ar_guest_router_dispatch                                                *)
(***************************************************************************)
\* What poll reports for the guest of entry i.  A hang-up of a socket of
\* this kind is reported together with POLLIN.
Revents(i) ==
  IF ~Live(i) THEN {}
  ELSE (IF up[i] # <<>> \/ peer[i] # "open" THEN {"in"} ELSE {})
       \cup (IF peer[i] # "open" THEN {"hup"} ELSE {})
       \cup (IF entry[i].queue # <<>> /\ Len(down[i]) < SocketRoom THEN {"out"} ELSE {})

Poll == /\ call = NoCall /\ at = "idle"
        /\ \E i \in Slots : Revents(i) # {}
        /\ at' = "judge"
        /\ pass' = [pos |-> 1, quota |-> 0, revents |-> [i \in Slots |-> Revents(i)]]
        /\ UNCHANGED <<entry, guest_count, guestVars, call>>

NextSlot == IF pass.pos < MaxGuests
            THEN /\ at' = "judge"
                 /\ pass' = [pass EXCEPT !.pos = @ + 1, !.quota = 0, !.revents[pass.pos] = {}]
            ELSE at' = "idle" /\ pass' = NoPass

\* Mutant: a hang-up is final even if there is something to read.
MutHangupFirst(re) == "hup" \in re

HungUp(re) == "hup" \in re /\ "in" \notin re

\* The poll results are those of the time of poll; the entry may have
\* been freed or given to another guest by the handler since then.
Judge ==
  LET i == pass.pos  re == pass.revents[i]
  IN  /\ at = "judge"
      /\ IF HungUp(re) THEN Quarantine(i) /\ NextSlot /\ UNCHANGED call
         ELSE /\ call' = IF "out" \in re /\ entry[i].queue # <<>>
                         THEN [op |-> "dispatch", slot |-> i, bad |-> FALSE] ELSE NoCall
              /\ at' = "receive"
              /\ pass' = [pass EXCEPT !.quota = IF "in" \in re THEN Quota ELSE 0]
              /\ UNCHANGED entry
      /\ UNCHANGED <<guest_count, guestVars>>

\* ar_guest_channel_receive: no channel any more, then the socket's error,
\* the end, and a datagram of length 0, which looks like the end.
ReceiveStatus(i) == IF ~Active(i) THEN "invalid"
                    ELSE IF peer[i] = "reset" THEN "closed"
                    ELSE IF up[i] = <<>>
                         THEN IF peer[i] = "closed" THEN "closed" ELSE "would_block"
                    ELSE IF Head(up[i]) = "empty" THEN "closed"
                    ELSE Head(up[i])

\* drain_datagram, or the second recvmsg.
TakeFrame(i) == up' = [up EXCEPT ![i] = Tail(@)]

SpendQuota == pass' = [pass EXCEPT !.quota = @ - 1]

ReceiveFrame == /\ at = "receive" /\ call = NoCall
                /\ pass.quota > 0 /\ ReceiveStatus(pass.pos) = "good"
                /\ TakeFrame(pass.pos)
                /\ SpendQuota /\ at' = "handler"
                /\ UNCHANGED <<entry, guest_count, down, peer, due, dropped, call>>

HandlerReturns == /\ at = "handler" /\ call = NoCall
                  /\ at' = "receive"
                  /\ UNCHANGED <<entry, guest_count, guestVars, call, pass>>

\* The end of the loop over one guest's frames; any receive may fail with
\* a system error.
ReceiveEnds ==
  LET i == pass.pos
  IN  /\ at = "receive" /\ call = NoCall
      /\ \E r \in {IF pass.quota = 0 THEN "ok" ELSE ReceiveStatus(i), "system"} :
           /\ r # "good"
           /\ MarkClosed(i, r)
           /\ IF r \in {"foreign", "malformed"} THEN TakeFrame(i) ELSE UNCHANGED up
      /\ NextSlot
      /\ UNCHANGED <<guest_count, down, peer, due, dropped, call>>

(***************************************************************************)
(* The guests                                                              *)
(***************************************************************************)
GuestReads(i) ==
  /\ peer[i] = "open" /\ down[i] # <<>>
  /\ down' = [down EXCEPT ![i] = Tail(@)] /\ due' = [due EXCEPT ![i] = Tail(@)]
  /\ UNCHANGED <<entry, guest_count, up, peer, dropped, call, at, pass>>

GuestSends(i, f) ==
  /\ peer[i] = "open" /\ entry[i].app \in Senders /\ Len(up[i]) < SocketRoom
  /\ up' = [up EXCEPT ![i] = Append(@, f)]
  /\ UNCHANGED <<entry, guest_count, down, peer, due, dropped, call, at, pass>>

\* A guest that leaves datagrams unread resets the connection; they are
\* lost, and what is still queued for it is of no use.
GuestHangsUp(i) ==
  /\ peer[i] = "open"
  /\ peer' = [peer EXCEPT ![i] = IF down[i] = <<>> THEN "closed" ELSE "reset"]
  /\ down' = [down EXCEPT ![i] = <<>>] /\ due' = [due EXCEPT ![i] = <<>>]
  /\ UNCHANGED <<entry, guest_count, up, dropped, call, at, pass>>

InCall == FlushOne \/ FlushStops \/ FlushDone \/ SendDirect
InPass == Judge \/ ReceiveFrame \/ ReceiveEnds

Next == \/ \E a \in Apps : Register(a)
        \/ \E i \in Slots : Unregister(i) \/ Flush(i)
        \/ \E i \in Slots, bad \in Refused : Send(i, bad)
        \/ \E bad \in Refused : Broadcast(bad)
        \/ InCall \/ InPass \/ Poll \/ HandlerReturns \/ Destroy
        \/ \E i \in Slots : GuestReads(i) \/ GuestHangsUp(i)
        \/ \E i \in Slots, f \in Frames : GuestSends(i, f)

Spec == Init /\ [][Next]_vars

(***************************************************************************)
(* Properties                                                              *)
(***************************************************************************)
\* Types, and that router->guest_count, which limits registration, is the
\* number of entries in use, each for an id of its own.
RouterTypeOK ==
  /\ \A i \in Slots :
       /\ entry[i].app \in Apps \cup {NoApp} /\ entry[i].quarantined \in BOOLEAN
       /\ entry[i].queue \in Seq(Msg) /\ Len(entry[i].queue) <= QueueDepth
  /\ guest_count = Cardinality({i \in Slots : Active(i)})
  /\ \A i, j \in Slots : (Active(i) /\ i # j) => entry[i].app # entry[j].app
  /\ at \in {"idle", "judge", "receive", "handler", "destroyed"}

\* No message that was accepted is lost, doubled or overtaken on its way to
\* a guest, whether it went out directly, through the ring, or in the
\* middle of a dispatch pass.
AcceptedInOrder ==
  \A i \in Slots : (Active(i) /\ peer[i] = "open") => down[i] \o entry[i].queue = due[i]

\* A guest is cut off only for what it did itself: it hung up, sent the
\* empty datagram that looks like the end, or let a message be dropped
\* under the policy that disconnects for it; never for the poll result of
\* the guest whose entry it took over in the middle of a pass.
QuarantinedForCause ==
  \A i \in Slots :
    (Active(i) /\ entry[i].quarantined) =>
      \/ peer[i] # "open"
      \/ up[i] # <<>> /\ Head(up[i]) = "empty"
      \/ FloodPolicy = "disconnect" /\ i \in dropped
=============================================================================

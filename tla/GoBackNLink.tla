---------------------------- MODULE GoBackNLink ----------------------------
(***************************************************************************)
(* Two GoBackN endpoints, one at each end of a UDP path that loses,        *)
(* duplicates and reorders packets: the set-up of tests/Test.GoBackN.cpp,  *)
(* where the owners forward goBackNSendRaw to a raw socket and every       *)
(* packet they read to recvFromSocket.  Either side sends messages at any  *)
(* time; the timer of each fires whenever it is started.                   *)
(*                                                                         *)
(* The owner of an endpoint whose keep-alive runs out closes the           *)
(* connection: the endpoint takes no further step.                         *)
(***************************************************************************)
EXTENDS GoBackN, FiniteSets

CONSTANTS A, B,          \* the two peers
          KeepAlive,     \* whether keep-alive is on (setKeepAlive with 0 turns it off)
          MaxMessages,   \* bound: [peer -> number of messages it sends]
          MaxPieces,     \* bound: pieces a message is split in
          MaxDuplicates  \* bound: packets the network delivers twice

Peers == {A, B}
Other(p) == IF p = A THEN B ELSE A

ASSUME LinkAssumption ==
  /\ A # B
  /\ KeepAlive \in BOOLEAN
  /\ MaxMessages \in [Peers -> Nat]
  /\ MaxPieces \in Nat \ {0}
  /\ MaxDuplicates \in Nat

VARIABLES
  ep,          \* the endpoint of each peer
  net,         \* packets on their way to each peer
  closed,      \* peers that had goBackNTimeout
  duplicates,  \* packets the network duplicated so far
  log,         \* history: every piece a peer created, in order of creation
  sent,        \* history: number of messages a peer was asked to send
  delivered    \* history: the messages handed to goBackNRecvMsg at each peer

vars == <<ep, net, closed, duplicates, log, sent, delivered>>

Init ==
  /\ ep = [p \in Peers |-> NewEndpoint(KeepAlive)]
  /\ net = [p \in Peers |-> {}]
  /\ closed = [p \in Peers |-> FALSE]
  /\ duplicates = 0
  /\ log = [p \in Peers |-> << >>]
  /\ sent = [p \in Peers |-> 0]
  /\ delivered = [p \in Peers |-> << >>]

\* The n-th message of a peer is named n.
Send(p, count) ==
  /\ ~closed[p]
  /\ sent[p] < MaxMessages[p]
  /\ LET msg == sent[p] + 1
         pieces == NewPieces(ep[p], msg, count)
     IN  /\ sent' = [sent EXCEPT ![p] = msg]
         /\ ep' = [ep EXCEPT ![p] = SendViaGoBackN(ep[p], msg, count)]
         /\ log' = [log EXCEPT ![p] = log[p] \o pieces]
         /\ net' = [net EXCEPT ![Other(p)] = @ \cup {pieces[i] : i \in 1 .. count}]
  /\ UNCHANGED <<closed, duplicates, delivered>>

Expire(p) ==
  /\ ~closed[p]
  /\ ep[p].sendTimer = "started"
  /\ ep' = [ep EXCEPT ![p] = TimerExpired(ep[p])]
  /\ net' = [net EXCEPT ![Other(p)] = @ \cup TimerPackets(ep[p])]
  /\ closed' = [closed EXCEPT ![p] = TimesOut(ep[p])]
  /\ UNCHANGED <<duplicates, log, sent, delivered>>

\* A packet reaches p; dup tells whether a copy of it stays in the network.
Receive(p, pkt, dup) ==
  /\ ~closed[p]
  /\ pkt \in net[p]
  /\ dup => duplicates < MaxDuplicates
  /\ duplicates' = IF dup THEN duplicates + 1 ELSE duplicates
  /\ ep' = [ep EXCEPT ![p] = RecvFromSocket(ep[p], pkt)]
  /\ net' = [net EXCEPT ![p] = IF dup THEN @ ELSE @ \ {pkt},
                        ![Other(p)] = @ \cup RecvPackets(ep[p], pkt)]
  /\ delivered' = [delivered EXCEPT ![p] =
                     IF pkt.kind = "data" /\ Delivers(ep[p], pkt)
                       THEN Append(@, pkt.msg) ELSE @]
  /\ UNCHANGED <<closed, log, sent>>

Lose(p, pkt) ==
  /\ pkt \in net[p]
  /\ net' = [net EXCEPT ![p] = @ \ {pkt}]
  /\ UNCHANGED <<ep, closed, duplicates, log, sent, delivered>>

Next ==
  \E p \in Peers :
    \/ \E count \in 1 .. MaxPieces : Send(p, count)
    \/ Expire(p)
    \/ \E pkt \in net[p] : (\E dup \in BOOLEAN : Receive(p, pkt, dup)) \/ Lose(p, pkt)

Spec == Init /\ [][Next]_vars

-----------------------------------------------------------------------------
(* Fairness: the event loop polls the TimerManager, so a started timer     *)
(* fires; a packet that is sent again and again is not lost every time.    *)

MaxSequence(p) == MaxMessages[p] * MaxPieces

DataArrives(p, n) ==
  \E pkt \in net[p] : pkt.kind = "data" /\ pkt.sequence = n /\ Receive(p, pkt, FALSE)

AckArrives(p, n) ==
  \E pkt \in net[p] : pkt.kind = "ack" /\ pkt.sequence = n /\ Receive(p, pkt, FALSE)

Fairness ==
  \A p \in Peers :
    /\ WF_vars(Expire(p))
    /\ \A n \in 1 .. MaxSequence(Other(p)) : SF_vars(DataArrives(p, n))
    /\ \A n \in 1 .. MaxSequence(p) : SF_vars(AckArrives(p, n))

FairSpec == Spec /\ Fairness

-----------------------------------------------------------------------------
(* Correctness.                                                            *)

Data(p) == {pkt \in net[p] : pkt.kind = "data"}

\* The pieces of p that left its send list, all of them by an acknowledgement.
Acknowledged(p) == ep[p].sendSequence - Len(ep[p].sendList)

PieceType == [kind : {"data"}, sequence : Nat, msg : Nat, index : Nat, count : Nat \ {0}]
PacketType == PieceType \cup [kind : {"ack"}, sequence : Nat] \cup {NullMsg}

EndpointType ==
  [sendSequence : Nat, recvSequence : Nat, ackSequence : Nat,
   sendList : Seq(PieceType), sendListPos : Nat, recvBuffer : Seq(PieceType),
   sendTimer : {"stopped", "started"}, keepAlive : BOOLEAN, countDown : 0 .. KeepAliveTicks,
   skipNextKeepAlive : BOOLEAN]

\* Every variable has the shape the class declarations give it, and the resend
\* cursor _sendListPos points into the list it iterates over.
TypeOK ==
  /\ ep \in [Peers -> EndpointType]
  /\ \A p \in Peers : ep[p].sendListPos \in 0 .. Len(ep[p].sendList)
  /\ net \in [Peers -> SUBSET PacketType]
  /\ closed \in [Peers -> BOOLEAN]
  /\ duplicates \in 0 .. MaxDuplicates
  /\ log \in [Peers -> Seq(PieceType)]
  /\ sent \in [Peers -> Nat]
  /\ delivered \in [Peers -> Seq(Nat)]

\* Whatever the network does, the messages handed to goBackNRecvMsg are the
\* first messages the other side sent, each once and in the order of sending.
InOrderDelivery ==
  \A p \in Peers :
    /\ Len(delivered[p]) <= sent[Other(p)]
    /\ \A i \in 1 .. Len(delivered[p]) : delivered[p][i] = i

\* A piece leaves the send list only after the other side has received it, and
\* no side has received a piece that was never sent: the loop that pops the
\* list on an AckSequence never forgets a piece that is still needed.
AckedWasReceived ==
  \A p \in Peers :
    Acknowledged(p) <= ep[Other(p)].recvSequence
      /\ ep[Other(p)].recvSequence <= ep[p].sendSequence

\* _sendList is exactly the window of pieces created and not acknowledged, in
\* order; sendViaGoBackN asserts a part of this (GoBackN.cpp:95).
SendListIsWindow ==
  \A p \in Peers : \A i \in 1 .. Len(ep[p].sendList) :
    ep[p].sendList[i] = log[p][Acknowledged(p) + i]

\* Reassembly never throws away a message whose pieces were all acknowledged.
ReassemblySucceeds ==
  \A p \in Peers : \A pkt \in Data(p) : ~FailsToDecode(ep[p], pkt)

\* When every piece was received, every message was delivered: none is left
\* behind in _recvBuffer.
ReceivedIsDelivered ==
  \A p \in Peers :
    ep[p].recvSequence = ep[Other(p)].sendSequence => Len(delivered[p]) = sent[Other(p)]

\* An open endpoint with something to resend has its timer running: the early
\* returns of timerExpired never leave a piece without a retransmission.
UnackedIsTimed ==
  \A p \in Peers : ep[p].sendList # << >> /\ ~closed[p] => ep[p].sendTimer = "started"

\* With keep-alive off, every piece is eventually acknowledged, so that the
\* timer can stop and the link goes quiet.
EventuallyAcknowledged == \A p \in Peers : []<>(ep[p].sendList = << >>)

\* No piece is unsent: an acknowledgement takes nothing but a prefix off the
\* send list, and a send only adds behind what is there.
WindowSlides ==
  [][\A p \in Peers :
       /\ Acknowledged(p)' >= Acknowledged(p)
       /\ ep'[p].sendSequence >= ep[p].sendSequence
       /\ ep'[p].ackSequence >= ep[p].ackSequence]_vars

-----------------------------------------------------------------------------
(* The inductive invariant behind the properties above (GoBackNLink_proofs). *)
(* Its parts speak of a history l of pieces, of n messages.                  *)

\* The history numbers its pieces, and lists message after message, the pieces
\* of each one together and in order.
LogIsWellFormed(l, n) ==
  /\ l = << >> => n = 0
  /\ l # << >> => IsLastMessage(l[Len(l)]) /\ l[Len(l)].msg = n
  /\ \A i \in 1 .. Len(l) :
       /\ l[i].sequence = i
       /\ l[i].index < l[i].count
       /\ l[i].msg \in 1 .. n
       /\ i = 1 => l[i].msg = 1 /\ l[i].index = 0
       /\ i > 1 => IF IsLastMessage(l[i - 1])
                     THEN l[i].msg = l[i - 1].msg + 1 /\ l[i].index = 0
                     ELSE /\ l[i].msg = l[i - 1].msg
                          /\ l[i].index = l[i - 1].index + 1
                          /\ l[i].count = l[i - 1].count

\* A send list is the end of the history.
IsWindow(list, l) ==
  /\ Len(list) <= Len(l)
  /\ \A i \in 1 .. Len(list) : list[i] = l[Len(l) - Len(list) + i]

IsPieceOf(pkt, l) == pkt.sequence \in 1 .. Len(l) /\ pkt = l[pkt.sequence]

\* After the first r pieces of the history, the messages they complete are
\* delivered and the pieces of the message they leave incomplete are buffered.
ReceiverIsAt(l, r, buffer, d) ==
  IF r = 0 THEN buffer = << >> /\ Len(d) = 0
  ELSE IF IsLastMessage(l[r]) THEN buffer = << >> /\ Len(d) = l[r].msg
  ELSE /\ Len(buffer) = l[r].index + 1
       /\ \A i \in 1 .. Len(buffer) : buffer[i].msg = l[r].msg /\ buffer[i].index = i - 1
       /\ Len(d) + 1 = l[r].msg

\* One direction of the link: sender g created the n messages of history l,
\* receiver h handed over d; ahead and back are the packets to and from h.
DirectionHolds(g, h, l, n, ahead, back, d) ==
  /\ Len(l) = g.sendSequence
  /\ LogIsWellFormed(l, n)
  /\ IsWindow(g.sendList, l)
  /\ Len(l) - Len(g.sendList) <= h.recvSequence
  /\ h.recvSequence <= Len(l)
  /\ \A pkt \in ahead : pkt.kind = "data" => IsPieceOf(pkt, l)
  /\ \A pkt \in back : pkt.kind = "ack" => pkt.sequence <= h.recvSequence
  /\ ReceiverIsAt(l, h.recvSequence, h.recvBuffer, d)
  /\ \A i \in 1 .. Len(d) : d[i] = i

Direction(p, q) ==
  DirectionHolds(ep[p], ep[q], log[p], sent[p], net[q], net[p], delivered[q])

\* The inductive invariant: every conjunct is preserved with the help of the
\* others, and together they give the safety properties of the link.
Inductive ==
  /\ TypeOK
  /\ UnackedIsTimed
  /\ \A p \in Peers : Direction(p, Other(p))

-----------------------------------------------------------------------------
(* The link implements a pair of reliable first-in first-out channels.     *)

Channel == INSTANCE ReliableChannel
ChannelSpec == Channel!Spec
ChannelFairSpec == Channel!FairSpec
=============================================================================

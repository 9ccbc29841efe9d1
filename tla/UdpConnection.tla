--------------------------- MODULE UdpConnection ---------------------------
(***************************************************************************)
(* UDP connections (lib/UdpSocket.cpp): a server socket, its child         *)
(* sockets, and the client sockets that connect to it.  Every connection   *)
(* has a GoBackN endpoint at each end.                                     *)
(*                                                                         *)
(* The handshake is made of reliable messages: a ConnectRequest opens a    *)
(* child, the child answers ConnectReply, the client that gets it is       *)
(* connected and sends ConnectFinal, and the child that gets that is       *)
(* connected and accepted.  A Disconnect is sent raw, three times.         *)
(*                                                                         *)
(* The owner of the server calls accept() in its socketAccepted callback,  *)
(* as MainApp, DllMain, SmartSocket and the tests do, so _acceptedSocket   *)
(* is empty between two steps and a connected child has an owner.  Either  *)
(* owner may disconnect at any time.  Every client socket has an address   *)
(* of its own; the network delays and reorders packets, and loses or       *)
(* duplicates them as the constants say (for a safety property, a packet   *)
(* that is never delivered is a lost one).                                 *)
(***************************************************************************)
EXTENDS GoBackN, FiniteSets

CONSTANTS Clients,      \* the client sockets
          MaxChildren,  \* bound: child sockets opened per client address
          MaxMessages,  \* bound: reliable messages a side sends on a connection
          MaxRaw,       \* bound: unreliable messages a side sends
          Lossy,        \* whether the network loses packets
          Duplicating   \* whether it delivers a packet more than once

ASSUME ConnectionAssumption ==
  /\ MaxChildren \in Nat \ {0}
  /\ MaxMessages \in Nat
  /\ MaxRaw \in Nat
  /\ Lossy \in BOOLEAN
  /\ Duplicating \in BOOLEAN

VARIABLES
  server,    \* "listening" or "closed"
  client,    \* [Clients -> client socket]
  child,     \* [Clients -> child socket for the address of that client]
  toServer,  \* packets on their way from each client
  toClient,  \* packets on their way to each client
  opened,    \* children opened for each client so far
  heard      \* history: reliable messages read by the owner of each end

sockets == <<server, client, child, opened>>
vars == <<server, client, child, toServer, toClient, opened, heard>>

-----------------------------------------------------------------------------
(* Messages.  A message of an owner names the socket that sent it, by its  *)
(* number among the children of the address (0 for the client), and its    *)
(* rank among the messages of that socket.                                 *)

Control(type) == [type |-> type, by |-> 0, n |-> 0]
ConnectRequest == Control("ConnectRequest")
ConnectReply   == Control("ConnectReply")
ConnectFinal   == Control("ConnectFinal")
Message(by, n) == [type |-> "Message", by |-> by, n |-> n]

Disconnect == Raw(Control("Disconnect"))
Unreliable(by) == Raw([type |-> "Unreliable", by |-> by, n |-> 0])

-----------------------------------------------------------------------------
(* A socket: connection state, GoBackN endpoint, messages sent.            *)

Socket(state, gbn) == [state |-> state, gbn |-> gbn, sent |-> 0, raw |-> 0]

NoSocket == Socket("none", NewEndpoint(FALSE))

Open(s) == s.state \in {"connecting", "connected"}

\* send() of a reliable message; what goes out is the piece just numbered.
Send(s, msg) == [s EXCEPT !.gbn = SendViaGoBackN(@, msg, 1)]
Outgoing(s, msg) == {NewPieces(s.gbn, msg, 1)[1]}

\* Wrong: what was not acknowledged stays to be resent.
ClosedResending(s) == [s EXCEPT !.state = "disconnected", !.gbn = SetKeepAlive(@, FALSE)]

\* disconnect(): an end that is connected tells the other one, and GoBackN is
\* silenced.
Closed(s) == [s EXCEPT !.state = "disconnected", !.gbn = SetKeepAlive(Reset(@), FALSE)]
Farewell(s) == IF s.state = "connected" THEN {Disconnect} ELSE {}

\* Wrong: takes an unset keep-alive, 0.
ConnectedUnwatched(s) == [s EXCEPT !.state = "connected", !.gbn = SetKeepAlive(@, FALSE)]

\* A socket that becomes connected sets the keep-alive of its endpoint.
Connected(s) == [s EXCEPT !.state = "connected", !.gbn = SetKeepAlive(@, TRUE)]

Init ==
  /\ server = "listening"
  /\ client = [c \in Clients |-> NoSocket]
  /\ child = [c \in Clients |-> NoSocket]
  /\ toServer = [c \in Clients |-> {}]
  /\ toClient = [c \in Clients |-> {}]
  /\ opened = [c \in Clients |-> 0]
  /\ heard = [c \in Clients |-> [client |-> << >>, child |-> << >>]]

\* What is left of the network's packets when one of them is delivered.
Taken(net, pkt) == IF Duplicating THEN net ELSE net \ {pkt}

\* Packets a child sends go out by the server socket, while there is one.
ToServer(c, packets) == toServer' = [toServer EXCEPT ![c] = @ \cup packets]
ToClient(c, packets) ==
  toClient' = [toClient EXCEPT ![c] = IF server = "listening" THEN @ \cup packets ELSE @]

-----------------------------------------------------------------------------
(* The client socket.                                                      *)

Connect(c) ==
  /\ client[c].state = "none"
  /\ LET s == Socket("connecting", NewEndpoint(TRUE)) IN
       /\ client' = [client EXCEPT ![c] = Send(s, ConnectRequest)]
       /\ ToServer(c, Outgoing(s, ConnectRequest))
  /\ UNCHANGED <<server, child, toClient, opened, heard>>

\* The GoBackN endpoint hands over a message while the client socket is s.
ClientRecvMsg(s, msg) ==
  IF s.state = "connecting" /\ msg = ConnectReply
    THEN LET t == [s EXCEPT !.state = "connected"] IN Connected(Send(t, ConnectFinal))
    ELSE s

ClientReplies(s, msg) ==
  IF s.state = "connecting" /\ msg = ConnectReply THEN Outgoing(s, ConnectFinal) ELSE {}

ClientReceive(c, pkt) ==
  /\ Open(client[c])
  /\ pkt \in toClient[c]
  /\ toClient' = [toClient EXCEPT ![c] = Taken(@, pkt)]
  /\ LET g == client[c].gbn
         s == [client[c] EXCEPT !.gbn = RecvFromSocket(g, pkt)]
         got == pkt.kind = "data" /\ Delivers(g, pkt)
     IN IF pkt = Disconnect
          THEN /\ client' = [client EXCEPT ![c] = Closed(@)]
               /\ ToServer(c, Farewell(client[c]))
               /\ UNCHANGED heard
          ELSE /\ client' = [client EXCEPT ![c] = IF got THEN ClientRecvMsg(s, pkt.msg) ELSE s]
               /\ ToServer(c, RecvPackets(g, pkt) \cup
                                IF got THEN ClientReplies(s, pkt.msg) ELSE {})
               /\ heard' = [heard EXCEPT ![c].client =
                              IF got /\ pkt.msg.type = "Message" THEN Append(@, pkt.msg) ELSE @]
  /\ UNCHANGED <<server, child, opened>>

\* timerExpired, then goBackNTimeout when nothing was heard for too long.
ClientExpire(c) ==
  /\ client[c].gbn.sendTimer = "started"
  /\ LET s == [client[c] EXCEPT !.gbn = TimerExpired(@)]
         late == TimesOut(client[c].gbn)
     IN /\ client' = [client EXCEPT ![c] = IF late THEN Closed(s) ELSE s]
        /\ ToServer(c, TimerPackets(client[c].gbn) \cup IF late THEN Farewell(s) ELSE {})
  /\ UNCHANGED <<server, child, toClient, opened, heard>>

\* The owner sends once it is connected.
ClientSend(c) ==
  /\ client[c].state = "connected" /\ client[c].sent < MaxMessages
  /\ LET msg == Message(0, client[c].sent + 1) IN
       /\ client' = [client EXCEPT ![c] = [Send(client[c], msg) EXCEPT !.sent = client[c].sent + 1]]
       /\ ToServer(c, Outgoing(client[c], msg))
  /\ UNCHANGED <<server, child, toClient, opened, heard>>

ClientSendRaw(c) ==
  /\ client[c].state = "connected" /\ client[c].raw < MaxRaw
  /\ client' = [client EXCEPT ![c].gbn = DelayKeepAliveOnce(@), ![c].raw = @ + 1]
  /\ ToServer(c, {Unreliable(0)})
  /\ UNCHANGED <<server, child, toClient, opened, heard>>

ClientDisconnect(c) ==
  /\ Open(client[c])
  /\ client' = [client EXCEPT ![c] = Closed(@)]
  /\ ToServer(c, Farewell(client[c]))
  /\ UNCHANGED <<server, child, toClient, opened, heard>>

-----------------------------------------------------------------------------
(* The server socket and its children.                                     *)

\* Wrong: accepts on the request.
ChildRecvMsgAtOnce(s, msg) ==
  IF s.state = "connecting" /\ msg = ConnectRequest THEN Connected(Send(s, ConnectReply)) ELSE s

\* Wrong: the reply is sent once and not kept.
ChildRecvMsgUnnumbered(s, msg) ==
  IF s.state = "connecting" /\ msg = ConnectFinal THEN Connected(s) ELSE s

ChildRecvMsg(s, msg) ==
  CASE s.state = "connecting" /\ msg = ConnectRequest -> Send(s, ConnectReply)
    [] s.state = "connecting" /\ msg = ConnectFinal   -> Connected(s)
    [] OTHER -> s

ChildReplies(s, msg) ==
  IF s.state = "connecting" /\ msg = ConnectRequest THEN Outgoing(s, ConnectReply) ELSE {}

\* A packet read by child socket s of client c.
ChildReceive(c, s, pkt) ==
  LET t == [s EXCEPT !.gbn = RecvFromSocket(@, pkt)]
      got == pkt.kind = "data" /\ Delivers(s.gbn, pkt)
  IN IF pkt = Disconnect
       THEN \* only a connected child heeds it
            /\ child' = [child EXCEPT ![c] = IF s.state = "connected" THEN Closed(s) ELSE s]
            /\ ToClient(c, Farewell(s))
            /\ UNCHANGED heard
       ELSE /\ child' = [child EXCEPT ![c] = IF got THEN ChildRecvMsg(t, pkt.msg) ELSE t]
            /\ ToClient(c, RecvPackets(s.gbn, pkt) \cup
                             IF got THEN ChildReplies(t, pkt.msg) ELSE {})
            /\ heard' = [heard EXCEPT ![c].child =
                           IF got /\ pkt.msg.type = "Message" THEN Append(@, pkt.msg) ELSE @]

\* socketReadAddressed: only a connect request opens a child.
ServerReceive(c, pkt) ==
  /\ server = "listening"
  /\ pkt \in toServer[c]
  /\ toServer' = [toServer EXCEPT ![c] = Taken(@, pkt)]
  /\ IF Open(child[c])
       THEN ChildReceive(c, child[c], pkt) /\ UNCHANGED opened
     ELSE IF pkt.kind = "data" /\ pkt.msg = ConnectRequest
       THEN /\ opened[c] < MaxChildren
            /\ opened' = [opened EXCEPT ![c] = @ + 1]
            /\ ChildReceive(c, Socket("connecting", NewEndpoint(TRUE)), pkt)
     ELSE UNCHANGED <<child, toClient, opened, heard>>
  /\ UNCHANGED <<server, client>>

ChildExpire(c) ==
  /\ child[c].gbn.sendTimer = "started"
  /\ LET s == [child[c] EXCEPT !.gbn = TimerExpired(@)]
         late == TimesOut(child[c].gbn)
     IN /\ child' = [child EXCEPT ![c] = IF late THEN Closed(s) ELSE s]
        /\ ToClient(c, TimerPackets(child[c].gbn) \cup IF late THEN Farewell(s) ELSE {})
  /\ UNCHANGED <<server, client, toServer, opened, heard>>

ChildSend(c) ==
  /\ child[c].state = "connected" /\ child[c].sent < MaxMessages
  /\ LET msg == Message(opened[c], child[c].sent + 1) IN
       /\ child' = [child EXCEPT ![c] = [Send(child[c], msg) EXCEPT !.sent = child[c].sent + 1]]
       /\ ToClient(c, Outgoing(child[c], msg))
  /\ UNCHANGED <<server, client, toServer, opened, heard>>

ChildSendRaw(c) ==
  /\ child[c].state = "connected" /\ child[c].raw < MaxRaw
  /\ child' = [child EXCEPT ![c].gbn = DelayKeepAliveOnce(@), ![c].raw = @ + 1]
  /\ ToClient(c, {Unreliable(opened[c])})
  /\ UNCHANGED <<server, client, toServer, opened, heard>>

\* The owner of an accepted socket lets it go.
ChildDisconnect(c) ==
  /\ child[c].state = "connected"
  /\ child' = [child EXCEPT ![c] = Closed(@)]
  /\ ToClient(c, Farewell(child[c]))
  /\ UNCHANGED <<server, client, toServer, opened, heard>>

\* The server socket says goodbye for its children, connected or not, and
\* leaves them without a parent: they hear and send nothing any more.
ServerDisconnect ==
  /\ server = "listening"
  /\ server' = "closed"
  /\ toClient' = [c \in Clients |-> toClient[c] \cup
                                      IF Open(child[c]) THEN {Disconnect} ELSE {}]
  /\ UNCHANGED <<client, child, toServer, opened, heard>>

Lose(c) ==
  /\ Lossy
  /\ \/ \E pkt \in toServer[c] : toServer' = [toServer EXCEPT ![c] = @ \ {pkt}] /\ UNCHANGED toClient
     \/ \E pkt \in toClient[c] : toClient' = [toClient EXCEPT ![c] = @ \ {pkt}] /\ UNCHANGED toServer
  /\ UNCHANGED <<sockets, heard>>

ClientNext(c) ==
  \/ Connect(c) \/ ClientExpire(c) \/ ClientSend(c) \/ ClientSendRaw(c) \/ ClientDisconnect(c)
  \/ \E pkt \in toClient[c] : ClientReceive(c, pkt)

ChildNext(c) ==
  \/ ChildExpire(c) \/ ChildSend(c) \/ ChildSendRaw(c) \/ ChildDisconnect(c)
  \/ \E pkt \in toServer[c] : ServerReceive(c, pkt)

Next == ServerDisconnect \/ \E c \in Clients : ClientNext(c) \/ ChildNext(c) \/ Lose(c)

Spec == Init /\ [][Next]_vars

-----------------------------------------------------------------------------
(* Fairness: the event loop runs, so started timers fire; a reliable piece *)
(* that is sent again and again gets through.  Nothing is assumed of       *)
(* Disconnect packets, which are sent once.                                *)

DataToServer(c) == \E pkt \in toServer[c] : pkt.kind = "data" /\ ServerReceive(c, pkt)
DataToClient(c) == \E pkt \in toClient[c] : pkt.kind = "data" /\ ClientReceive(c, pkt)

Fairness ==
  \A c \in Clients :
    /\ WF_vars(ClientExpire(c)) /\ WF_vars(ChildExpire(c))
    /\ SF_vars(DataToServer(c)) /\ SF_vars(DataToClient(c))

FairSpec == Spec /\ Fairness

-----------------------------------------------------------------------------
(* Correctness.                                                            *)

MessageType ==
  [type : {"ConnectRequest", "ConnectReply", "ConnectFinal", "Message"},
   by : 0 .. MaxChildren, n : 0 .. MaxMessages]

PieceType == [kind : {"data"}, sequence : Nat, msg : MessageType, index : {0}, count : {1}]
PacketType ==
  PieceType \cup [kind : {"ack"}, sequence : Nat] \cup {NullMsg, Disconnect}
    \cup {Unreliable(by) : by \in 0 .. MaxChildren}

EndpointType ==
  [sendSequence : Nat, recvSequence : Nat, ackSequence : Nat,
   sendList : Seq(PieceType), sendListPos : Nat, recvBuffer : {<< >>},
   sendTimer : {"stopped", "started"}, keepAlive : BOOLEAN, countDown : 0 .. KeepAliveTicks,
   skipNextKeepAlive : BOOLEAN]

SocketType ==
  [state : {"none", "connecting", "connected", "disconnected"}, gbn : EndpointType,
   sent : 0 .. MaxMessages, raw : 0 .. MaxRaw]

\* Every variable has the shape the class declarations give it, and no resend
\* cursor is left behind in a list that was cleared.
TypeOK ==
  /\ server \in {"listening", "closed"}
  /\ client \in [Clients -> SocketType]
  /\ child \in [Clients -> SocketType]
  /\ \A c \in Clients : \A s \in {client[c], child[c]} : s.gbn.sendListPos <= Len(s.gbn.sendList)
  /\ toServer \in [Clients -> SUBSET PacketType]
  /\ toClient \in [Clients -> SUBSET PacketType]
  /\ opened \in [Clients -> 0 .. MaxChildren]
  /\ heard \in [Clients -> [client : Seq(MessageType), child : Seq(MessageType)]]

\* A child is accepted only when its client got as far as being connected: the
\* two never disagree on whether the handshake was completed.
AcceptedWasConnected ==
  \A c \in Clients : child[c].state = "connected" => client[c].state \in {"connected", "disconnected"}

\* A socket that is closed stays silent: its endpoint holds nothing to resend.
ClosedIsSilent ==
  \A c \in Clients : \A s \in {client[c], child[c]} :
    ~Open(s) => s.gbn.sendList = << >> /\ s.gbn.sendTimer = "stopped"

\* As long as a client was given one child, each owner reads the messages of
\* the other one in order, none missing and none twice.  (A second child, opened
\* by a late copy of the request, starts to number its messages from 1 again.)
StreamsIntact ==
  \A c \in Clients : opened[c] <= 1 =>
    /\ \A i \in 1 .. Len(heard[c].client) : heard[c].client[i] = Message(1, i)
    /\ \A i \in 1 .. Len(heard[c].child) : heard[c].child[i] = Message(0, i)

\* A client does not wait for ever: it becomes connected or gives up.
ConnectSettles ==
  \A c \in Clients : client[c].state = "connecting" ~> client[c].state # "connecting"

\* Whatever was lost, an end that is gone is noticed by the other one: a client's
\* end by its child, a child's by its client, unless a late copy of the client's
\* request opened another child that answers it, and the server's by every client.
GoneIsNoticed ==
  \A c \in Clients :
    /\ client[c].state = "disconnected" ~> ~Open(child[c])
    /\ child[c].state = "disconnected" ~> ~Open(client[c]) \/ Open(child[c])
    /\ server = "closed" /\ Open(client[c]) ~> ~Open(client[c])
=============================================================================

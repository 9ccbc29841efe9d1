------------------------ MODULE UdpConnection_proofs ------------------------
(***************************************************************************)
(* Proofs about UdpConnection for every number of clients, of children of  *)
(* an address, of messages and of keep-alive ticks, whatever the network   *)
(* loses, repeats and reorders: the type invariant, that a closed socket   *)
(* is silent, that only a connected client's child is accepted, and that   *)
(* messages arrive in order and complete in both directions.               *)
(***************************************************************************)
EXTENDS UdpConnection, SequenceTheorems, TLAPS

-----------------------------------------------------------------------------
(* One endpoint.                                                           *)

\* What an endpoint may have to resend.
Pieces(g) == {g.sendList[i] : i \in 1 .. Len(g.sendList)}

\* The send list is numbered without a gap up to the last piece created.
Numbered(g) ==
  /\ Len(g.sendList) <= g.sendSequence
  /\ \A i \in 1 .. Len(g.sendList) :
       g.sendList[i].sequence = (g.sendSequence - Len(g.sendList)) + i

Sound(g) == g \in EndpointType /\ g.sendListPos <= Len(g.sendList) /\ Numbered(g)

Quiet(g) == g.sendList = << >> /\ g.sendTimer = "stopped"

\* A fresh endpoint is sound and has nothing to resend.
LEMMA NewIsSound ==
  \A k \in BOOLEAN : Sound(NewEndpoint(k)) /\ Quiet(NewEndpoint(k))
<1> TAKE k \in BOOLEAN
<1>1. NewEndpoint(k) \in EndpointType
  BY KeepAliveTicksAssumption DEF NewEndpoint, EndpointType
<1>2. /\ NewEndpoint(k).sendList = << >> /\ NewEndpoint(k).sendTimer = "stopped"
      /\ NewEndpoint(k).sendSequence = 0 /\ NewEndpoint(k).sendListPos = 0
  BY DEF NewEndpoint
<1> QED
  BY <1>1, <1>2 DEF Sound, Quiet, Numbered

\* An endpoint whose send list and numbers stay is as sound as before.
LEMMA SoundCopy ==
  ASSUME NEW g, Sound(g), NEW h \in EndpointType,
         h.sendList = g.sendList, h.sendListPos = g.sendListPos, h.sendSequence = g.sendSequence
  PROVE  Sound(h) /\ Pieces(h) = Pieces(g)
  BY DEF Sound, Numbered, Pieces

\* refreshKeepAlive sets the count-down.
LEMMA RefreshIsSound ==
  ASSUME NEW g \in EndpointType
  PROVE  LET h == RefreshKeepAlive(g) IN
         /\ h \in EndpointType
         /\ h.sendSequence = g.sendSequence /\ h.recvSequence = g.recvSequence
         /\ h.ackSequence = g.ackSequence /\ h.sendList = g.sendList
         /\ h.sendListPos = g.sendListPos /\ h.recvBuffer = g.recvBuffer
         /\ h.sendTimer = g.sendTimer
<1>1. PICK n \in 0 .. KeepAliveTicks : n = IF g.keepAlive THEN KeepAliveTicks ELSE 0
  BY KeepAliveTicksAssumption
<1>2. RefreshKeepAlive(g) = [g EXCEPT !.countDown = n]
  BY <1>1 DEF RefreshKeepAlive
<1> QED
  BY <1>2 DEF EndpointType

\* setKeepAlive changes nothing but the keep-alive.
LEMMA KeepAliveIsSound ==
  ASSUME NEW g, Sound(g), NEW k \in BOOLEAN
  PROVE  LET h == SetKeepAlive(g, k) IN
         Sound(h) /\ h.sendList = g.sendList /\ h.sendTimer = g.sendTimer /\ Pieces(h) = Pieces(g)
<1>1. PICK a \in EndpointType : a = g
  BY DEF Sound
<1>2. PICK b : b = [a EXCEPT !.keepAlive = k]
  OBVIOUS
<1>3. /\ b \in EndpointType /\ b.sendList = a.sendList /\ b.sendListPos = a.sendListPos
      /\ b.sendSequence = a.sendSequence /\ b.sendTimer = a.sendTimer
  BY <1>2 DEF EndpointType
<1>4. PICK h : h = RefreshKeepAlive(b)
  OBVIOUS
<1>5. /\ h \in EndpointType /\ h.sendList = b.sendList /\ h.sendListPos = b.sendListPos
      /\ h.sendSequence = b.sendSequence /\ h.sendTimer = b.sendTimer
  BY <1>3, <1>4, RefreshIsSound
<1>6. h = SetKeepAlive(g, k)
  BY <1>1, <1>2, <1>4 DEF SetKeepAlive
<1> QED
  BY <1>1, <1>3, <1>5, <1>6, SoundCopy

\* delayKeepAliveOnce changes nothing but its flag.
LEMMA DelayIsSound ==
  ASSUME NEW g, Sound(g)
  PROVE  LET h == DelayKeepAliveOnce(g) IN Sound(h) /\ Pieces(h) = Pieces(g)
<1>1. g \in EndpointType
  BY DEF Sound
<1>2. PICK h : h = DelayKeepAliveOnce(g)
  OBVIOUS
<1>3. /\ h \in EndpointType /\ h.sendList = g.sendList /\ h.sendListPos = g.sendListPos
      /\ h.sendSequence = g.sendSequence
  BY <1>1, <1>2 DEF DelayKeepAliveOnce, EndpointType
<1> QED
  BY <1>2, <1>3, SoundCopy

\* reset leaves nothing to resend, and no timer.
LEMMA ResetIsSound ==
  ASSUME NEW g, Sound(g)
  PROVE  Sound(Reset(g)) /\ Quiet(Reset(g))
<1>1. PICK a \in EndpointType : a = g
  BY DEF Sound
<1>2. << >> \in Seq(PieceType)
  OBVIOUS
<1>3. PICK list \in Seq(PieceType) : list = << >>
  BY <1>2
<1>4. PICK h : h = [a EXCEPT !.sendSequence = 0, !.recvSequence = 0, !.sendList = list,
                             !.sendListPos = 0, !.sendTimer = "stopped"]
  OBVIOUS
<1>5. /\ h \in EndpointType /\ h.sendList = << >> /\ h.sendListPos = 0
      /\ h.sendSequence = 0 /\ h.sendTimer = "stopped"
  BY <1>3, <1>4 DEF EndpointType
<1>6. h = Reset(g)
  BY <1>1, <1>3, <1>4 DEF Reset, EndpointType
<1>7. Len(h.sendList) = 0
  BY <1>5
<1> QED
  BY <1>5, <1>6, <1>7 DEF Sound, Quiet, Numbered

\* Before it looks at a packet an endpoint may start its timer.
LEMMA HeardIsSound ==
  ASSUME NEW g, Sound(g)
  PROVE  LET h == Heard(g) IN
         /\ Sound(h) /\ Pieces(h) = Pieces(g)
         /\ h.sendList = g.sendList /\ h.sendSequence = g.sendSequence
         /\ h.recvSequence = g.recvSequence /\ h.recvBuffer = << >>
<1>1. PICK a \in EndpointType : a = g
  BY DEF Sound
<1>2. PICK b \in EndpointType : b = RefreshKeepAlive(a)
  BY RefreshIsSound
<1>3. PICK h : h = [b EXCEPT !.sendTimer = "started"]
  OBVIOUS
<1>4. /\ h \in EndpointType /\ h.sendList = b.sendList /\ h.sendListPos = b.sendListPos
      /\ h.sendSequence = b.sendSequence /\ h.recvSequence = b.recvSequence
  BY <1>3 DEF EndpointType
<1>5. Heard(g) = h \/ Heard(g) = a
  BY <1>1, <1>2, <1>3 DEF Heard, CheckAndStartTimer
<1>6. a.recvBuffer = << >> /\ h.recvBuffer = << >>
  BY <1>4 DEF EndpointType
<1> QED
  BY <1>1, <1>2, <1>4, <1>5, <1>6, RefreshIsSound, SoundCopy

\* A message sent whole is the piece after the last one.
LEMMA SendIsSound ==
  ASSUME NEW g, Sound(g), NEW msg \in MessageType
  PROVE  LET h == SendViaGoBackN(g, msg, 1)
             p == NewPieces(g, msg, 1)[1]
         IN  /\ Sound(h) /\ Pieces(h) = Pieces(g) \cup {p}
             /\ p \in PieceType /\ p.msg = msg
<1> DEFINE p == NewPieces(g, msg, 1)[1]
<1>1. g \in EndpointType /\ g.sendList \in Seq(PieceType) /\ g.sendSequence \in Nat
  BY DEF Sound, EndpointType
<1>2. p = Piece(g.sendSequence + 1, msg, 0, 1) /\ NewPieces(g, msg, 1) = <<p>>
  BY DEF NewPieces
<1>3. p \in PieceType /\ p.msg = msg /\ p.sequence = g.sendSequence + 1
  BY <1>1, <1>2 DEF Piece, PieceType
<1> HIDE DEF p
<1>4. PICK list \in Seq(PieceType) : list = g.sendList
  BY <1>1
<1>5. PICK q \in PieceType : q = p
  BY <1>3
<1>6. Append(list, q) \in Seq(PieceType)
  OBVIOUS
<1>7. PICK longer \in Seq(PieceType) : longer = Append(list, p)
  BY <1>5, <1>6
<1>8. /\ Len(longer) = Len(list) + 1
      /\ \A i \in 1 .. Len(list) : longer[i] = list[i]
      /\ longer[Len(list) + 1] = p
  BY <1>3, <1>7
<1>9. PICK h : h = SendViaGoBackN(g, msg, 1)
  OBVIOUS
<1>10. list \o <<p>> = longer
  BY <1>3, <1>7
<1>11. PICK a \in EndpointType : a = g
  BY <1>1
<1>12. PICK n \in Nat : n = a.sendSequence + 1
  BY <1>1, <1>11
<1>13. h = [a EXCEPT !.sendSequence = n, !.sendList = longer, !.sendTimer = "started"]
  BY <1>2, <1>4, <1>9, <1>10, <1>11, <1>12 DEF SendViaGoBackN, CheckAndStartTimer, EndpointType
<1>14. /\ h \in EndpointType /\ h.sendList = longer /\ h.sendListPos = g.sendListPos
       /\ h.sendSequence = g.sendSequence + 1
  BY <1>13, <1>11, <1>12 DEF EndpointType
<1>15. Sound(h)
  <2>1. g.sendListPos <= Len(list) /\ g.sendListPos \in Nat /\ Len(list) \in Nat
    BY <1>1, <1>4 DEF Sound, EndpointType
  <2>2. /\ Len(list) <= g.sendSequence
        /\ \A i \in 1 .. Len(list) : list[i].sequence = (g.sendSequence - Len(list)) + i
    BY <1>4 DEF Sound, Numbered
  <2>3. \A i \in 1 .. Len(longer) :
          longer[i].sequence = ((g.sendSequence + 1) - Len(longer)) + i
    <3> TAKE i \in 1 .. Len(longer)
    <3>1. CASE i \in 1 .. Len(list)
      <4>1. longer[i].sequence = (g.sendSequence - Len(list)) + i
        BY <1>8, <2>2, <3>1
      <4> QED
        BY <1>1, <1>8, <2>1, <3>1, <4>1
    <3>2. CASE i = Len(list) + 1
      BY <1>1, <1>3, <1>8, <2>1, <3>2
    <3> QED
      BY <1>8, <2>1, <3>1, <3>2
  <2>4. h.sendListPos <= Len(h.sendList) /\ Len(h.sendList) <= h.sendSequence
    <3>1. PICK l \in Nat, s \in Nat, x \in Nat :
            l = Len(list) /\ s = g.sendSequence /\ x = g.sendListPos
      BY <1>1, <2>1
    <3>2. x <= l + 1 /\ l + 1 <= s + 1
      BY <2>1, <2>2, <3>1
    <3> QED
      BY <1>8, <1>14, <3>1, <3>2
  <2>5. Numbered(h)
    <3>1. Len(h.sendList) = Len(longer) /\ h.sendSequence = g.sendSequence + 1
      BY <1>14
    <3>2. ASSUME NEW i \in 1 .. Len(h.sendList)
          PROVE  h.sendList[i].sequence = (h.sendSequence - Len(h.sendList)) + i
      <4>1. i \in 1 .. Len(longer) /\ h.sendList[i] = longer[i]
        BY <1>14, <3>1, <3>2
      <4>2. longer[i].sequence = ((g.sendSequence + 1) - Len(longer)) + i
        BY <4>1, <2>3
      <4>3. h.sendSequence - Len(h.sendList) = (g.sendSequence + 1) - Len(longer)
        BY <3>1, Zenon
      <4> QED
        BY <4>1, <4>2, <4>3, Zenon
    <3> QED
      BY <2>4, <3>2 DEF Numbered
  <2> QED
    BY <1>14, <2>4, <2>5 DEF Sound
<1>16. Pieces(h) = Pieces(g) \cup {p}
  <2>1. Len(list) \in Nat
    OBVIOUS
  <2> QED
    BY <1>4, <1>8, <1>14, <2>1 DEF Pieces
<1> QED
  BY <1>3, <1>9, <1>15, <1>16 DEF p

\* On a list numbered base+1, base+2, ... an acknowledgement pops a prefix.
LEMMA PoppedIsPrefix ==
  ASSUME NEW list \in Seq(PieceType), NEW base \in Nat, NEW n \in Nat,
         \A i \in 1 .. Len(list) : list[i].sequence = base + i
  PROVE  Popped(list, n) \in 0 .. Len(list)
<1> DEFINE k == IF n <= base THEN 0
                ELSE IF n - base >= Len(list) THEN Len(list) ELSE n - base
<1>1. k \in 0 .. Len(list)
  OBVIOUS
<1>2. \A i \in 1 .. k : list[i].sequence <= n
  OBVIOUS
<1>3. k < Len(list) => list[k + 1].sequence > n
  OBVIOUS
<1> HIDE DEF k
<1> QED
  BY <1>1, <1>2, <1>3 DEF Popped

\* An acknowledgement leaves the end of the send list.
LEMMA AckIsSound ==
  ASSUME NEW g, Sound(g), NEW n \in Nat
  PROVE  Sound(RecvAck(g, n)) /\ Pieces(RecvAck(g, n)) \subseteq Pieces(g)
<1>1. PICK u \in EndpointType : u = Heard(g)
  BY HeardIsSound DEF Sound
<1>2. u.sendList = g.sendList /\ u.sendSequence = g.sendSequence /\ Sound(u)
  BY <1>1, HeardIsSound
<1>3. PICK list \in Seq(PieceType) : list = g.sendList
  BY <1>1, <1>2 DEF EndpointType
<1>4. PICK base \in Nat : base = u.sendSequence - Len(list)
  BY <1>2, <1>3 DEF Sound, Numbered, EndpointType
<1>5. \A i \in 1 .. Len(list) : list[i].sequence = base + i
  BY <1>2, <1>3, <1>4 DEF Sound, Numbered
<1>6. PICK k \in 0 .. Len(list) : k = Popped(list, n)
  BY <1>5, PoppedIsPrefix
<1>7. SubSeq(list, k + 1, Len(list)) \in Seq(PieceType)
  BY <1>6
<1>8. PICK rest \in Seq(PieceType) : rest = SubSeq(list, k + 1, Len(list))
  BY <1>7
<1>9. Len(rest) = Len(list) - k /\ \A i \in 1 .. Len(rest) : rest[i] = list[k + i]
  BY <1>6, <1>8
<1>10. PICK a \in Nat : a = IF n > u.ackSequence THEN n ELSE u.ackSequence
  BY DEF EndpointType
<1>11. PICK h : h = RecvAck(g, n)
  OBVIOUS
<1>12. h = [u EXCEPT !.ackSequence = a, !.sendList = rest, !.sendListPos = 0]
  BY <1>1, <1>2, <1>3, <1>6, <1>8, <1>10, <1>11 DEF RecvAck, EndpointType
<1>13. /\ h \in EndpointType /\ h.sendList = rest /\ h.sendListPos = 0
       /\ h.sendSequence = u.sendSequence
  BY <1>12 DEF EndpointType
<1>14. Sound(h)
  <2>1. Len(list) \in Nat /\ u.sendSequence \in Nat
    BY DEF EndpointType
  <2>2. \A i \in 1 .. Len(rest) : rest[i].sequence = (u.sendSequence - Len(rest)) + i
    <3> TAKE i \in 1 .. Len(rest)
    <3>1. k + i \in 1 .. Len(list) /\ rest[i] = list[k + i]
      BY <1>6, <1>9, <2>1
    <3>2. list[k + i].sequence = base + (k + i)
      BY <1>5, <3>1
    <3> QED
      BY <1>4, <1>6, <1>9, <2>1, <3>1, <3>2
  <2>3. Len(rest) <= u.sendSequence
    BY <1>4, <1>6, <1>9, <2>1
  <2> QED
    BY <1>13, <2>2, <2>3 DEF Sound, Numbered
<1>15. Pieces(h) \subseteq Pieces(g)
  <2>1. \A i \in 1 .. Len(rest) : k + i \in 1 .. Len(list)
    BY <1>6, <1>9
  <2> QED
    BY <1>3, <1>9, <1>13, <2>1 DEF Pieces
<1> QED
  BY <1>11, <1>14, <1>15

\* A data piece, which is never split here, counts or is ignored.
LEMMA DataIsSound ==
  ASSUME NEW g, Sound(g), NEW p \in PieceType
  PROVE  LET h == RecvData(g, p) IN
         Sound(h) /\ Pieces(h) = Pieces(g) /\ h.recvSequence \in Nat
<1>1. PICK u \in EndpointType : u = Heard(g)
  BY HeardIsSound DEF Sound
<1>2. /\ Sound(u) /\ Pieces(u) = Pieces(g) /\ u.recvBuffer = << >>
      /\ u.recvSequence \in Nat
  BY <1>1, HeardIsSound DEF EndpointType
<1>3. ~IsSplit(p)
  BY DEF IsSplit, PieceType
<1>4. PICK h : h = RecvData(g, p)
  OBVIOUS
<1>5. PICK n \in Nat : n = u.recvSequence + 1
  BY <1>2
<1>6. h = u \/ h = [u EXCEPT !.recvSequence = n]
  BY <1>1, <1>2, <1>3, <1>4, <1>5 DEF RecvData, EndpointType
<1>7. /\ h \in EndpointType /\ h.sendList = u.sendList /\ h.sendListPos = u.sendListPos
      /\ h.sendSequence = u.sendSequence /\ h.recvSequence \in Nat
  BY <1>6 DEF EndpointType
<1> QED
  BY <1>2, <1>4, <1>7, SoundCopy

\* A packet of kind "data" is a piece, one of kind "ack" has a number.
LEMMA PacketKinds ==
  ASSUME NEW pkt \in PacketType
  PROVE  /\ pkt.kind = "data" => pkt \in PieceType
         /\ pkt.kind = "ack" => pkt.sequence \in Nat
  BY DEF PacketType, PieceType, NullMsg, Disconnect, Unreliable, Raw, Control

\* Receiving adds nothing to what is to be resent, and answers with an
\* acknowledgement at most.
LEMMA ReceiveIsSound ==
  ASSUME NEW g, Sound(g), NEW pkt \in PacketType
  PROVE  /\ Sound(RecvFromSocket(g, pkt))
         /\ Pieces(RecvFromSocket(g, pkt)) \subseteq Pieces(g)
         /\ RecvPackets(g, pkt) \subseteq PacketType
         /\ \A q \in RecvPackets(g, pkt) : q.kind = "ack"
<1>1. CASE pkt.kind = "data"
  <2>1. pkt \in PieceType
    BY <1>1, PacketKinds
  <2>2. PICK h : h = RecvData(g, pkt)
    OBVIOUS
  <2>3. Sound(h) /\ Pieces(h) = Pieces(g) /\ h.recvSequence \in Nat
    BY <2>1, <2>2, DataIsSound
  <2>4. RecvFromSocket(g, pkt) = h /\ RecvPackets(g, pkt) = {Ack(h.recvSequence)}
    BY <1>1, <2>2 DEF RecvFromSocket, RecvPackets
  <2>5. Ack(h.recvSequence) \in PacketType /\ Ack(h.recvSequence).kind = "ack"
    BY <2>3 DEF Ack, PacketType
  <2> QED
    BY <2>3, <2>4, <2>5
<1>2. CASE pkt.kind = "ack"
  <2>1. RecvFromSocket(g, pkt) = RecvAck(g, pkt.sequence) /\ RecvPackets(g, pkt) = {}
    BY <1>2 DEF RecvFromSocket, RecvPackets
  <2> QED
    BY <1>2, <2>1, AckIsSound, PacketKinds
<1>3. CASE pkt.kind # "data" /\ pkt.kind # "ack"
  <2>1. RecvFromSocket(g, pkt) = Heard(g) /\ RecvPackets(g, pkt) = {}
    BY <1>3 DEF RecvFromSocket, RecvPackets
  <2> QED
    BY <2>1, HeardIsSound
<1> QED
  BY <1>1, <1>2, <1>3

\* The timer resends a piece of the list or keeps alive.
LEMMA ExpireIsSound ==
  ASSUME NEW g, Sound(g)
  PROVE  /\ Sound(TimerExpired(g)) /\ Pieces(TimerExpired(g)) = Pieces(g)
         /\ TimerPackets(g) \subseteq Pieces(g) \cup {NullMsg}
<1>1. g \in EndpointType /\ g.sendList \in Seq(PieceType) /\ g.sendListPos \in Nat
      /\ g.sendListPos <= Len(g.sendList) /\ g.countDown \in 0 .. KeepAliveTicks
  BY DEF Sound, EndpointType
<1>2. PICK h : h = TimerExpired(g)
  OBVIOUS
<1>3. PICK pos : pos = IF g.sendList = << >> THEN g.sendListPos
                       ELSE IF ResendPos(g) = Len(g.sendList) THEN 0 ELSE ResendPos(g) + 1
  OBVIOUS
<1>4. g.sendList # << >> => ResendPos(g) \in 1 .. Len(g.sendList)
  BY <1>1 DEF ResendPos
<1>5. pos \in Nat /\ pos <= Len(g.sendList)
  BY <1>1, <1>3, <1>4
<1>6. PICK a \in EndpointType : a = g
  BY <1>1
<1>7. PICK q \in Nat : q = pos
  BY <1>5
<1>8. PICK skip \in BOOLEAN : skip = (a.skipNextKeepAlive /\ (a.sendList # << >> \/ ~a.keepAlive))
  OBVIOUS
<1>9. PICK n \in 0 .. KeepAliveTicks :
         n = IF a.keepAlive /\ a.countDown > 0 THEN a.countDown - 1 ELSE a.countDown
  BY <1>1, <1>6, KeepAliveTicksAssumption
<1>10. PICK t \in {"stopped", "started"} :
         t = IF Idle(a) \/ TimesOut(a) THEN "stopped" ELSE "started"
  OBVIOUS
<1>11. h = [a EXCEPT !.sendListPos = q, !.skipNextKeepAlive = skip, !.countDown = n,
                     !.sendTimer = t]
  BY <1>2, <1>3, <1>6, <1>7, <1>8, <1>9, <1>10 DEF TimerExpired, EndpointType
<1>12. /\ h \in EndpointType /\ h.sendList = g.sendList /\ h.sendListPos = pos
      /\ h.sendSequence = g.sendSequence
  BY <1>6, <1>7, <1>11 DEF EndpointType
<1>13. Sound(h) /\ Pieces(h) = Pieces(g)
  BY <1>5, <1>12 DEF Sound, Numbered, Pieces
<1>14. TimerPackets(g) \subseteq Pieces(g) \cup {NullMsg}
  BY <1>4 DEF TimerPackets, Pieces
<1> QED
  BY <1>2, <1>13, <1>14

-----------------------------------------------------------------------------
(* One socket.                                                             *)

\* A socket of the right type, with a sound endpoint, that is silent if closed.
SocketHolds(s) ==
  /\ s \in SocketType
  /\ Sound(s.gbn)
  /\ ~Open(s) => Quiet(s.gbn)

\* The endpoint of a socket is replaced.
LEMMA WithEndpoint ==
  ASSUME NEW s \in SocketType, NEW g, Sound(g), NEW x,
         x \in {"none", "connecting", "connected", "disconnected"}
  PROVE  LET t == [s EXCEPT !.gbn = g]
             u == [s EXCEPT !.state = x, !.gbn = g]
         IN  /\ t \in SocketType /\ t.gbn = g /\ t.state = s.state /\ t.sent = s.sent /\ t.raw = s.raw
             /\ u \in SocketType /\ u.gbn = g /\ u.state = x
<1>1. PICK h \in EndpointType : h = g
  BY DEF Sound
<1>2. PICK t : t = [s EXCEPT !.gbn = h]
  OBVIOUS
<1>3. PICK u : u = [s EXCEPT !.state = x, !.gbn = h]
  OBVIOUS
<1>4. t \in SocketType /\ t.gbn = h /\ t.state = s.state /\ t.sent = s.sent /\ t.raw = s.raw
  BY <1>2 DEF SocketType
<1>5. u \in SocketType /\ u.gbn = h /\ u.state = x
  BY <1>3 DEF SocketType
<1> QED
  BY <1>1, <1>2, <1>3, <1>4, <1>5

\* A socket with a fresh endpoint, the one that is not there yet or one that connects.
LEMMA FreshSocketHolds ==
  ASSUME NEW x \in {"none", "connecting"}, NEW k \in BOOLEAN
  PROVE  LET s == Socket(x, NewEndpoint(k)) IN
         SocketHolds(s) /\ Pieces(s.gbn) = {} /\ s.state = x
<1>1. Sound(NewEndpoint(k)) /\ Quiet(NewEndpoint(k))
  BY NewIsSound
<1>2. PICK g \in EndpointType : g = NewEndpoint(k)
  BY <1>1 DEF Sound
<1>3. PICK s : s = Socket(x, NewEndpoint(k))
  OBVIOUS
<1>4. 0 \in 0 .. MaxMessages /\ 0 \in 0 .. MaxRaw
  BY ConnectionAssumption
<1>5. s = [state |-> x, gbn |-> g, sent |-> 0, raw |-> 0]
  BY <1>2, <1>3 DEF Socket
<1>6. s \in SocketType /\ s.gbn = g /\ s.state = x
  BY <1>4, <1>5 DEF SocketType
<1>7. Pieces(g) = {}
  BY <1>1, <1>2 DEF Quiet, Pieces
<1> QED
  BY <1>1, <1>2, <1>3, <1>6, <1>7 DEF SocketHolds

\* disconnect() silences the endpoint.
LEMMA ClosedHolds ==
  ASSUME NEW s \in SocketType, Sound(s.gbn)
  PROVE  /\ SocketHolds(Closed(s)) /\ Closed(s).state = "disconnected"
         /\ Pieces(Closed(s).gbn) = {}
<1>1. PICK r : r = Reset(s.gbn)
  OBVIOUS
<1>2. Sound(r) /\ Quiet(r)
  BY <1>1, ResetIsSound
<1>3. PICK g : g = SetKeepAlive(r, FALSE)
  OBVIOUS
<1>4. Sound(g) /\ Quiet(g)
  BY <1>2, <1>3, KeepAliveIsSound DEF Quiet
<1>5. PICK t : t = Closed(s)
  OBVIOUS
<1>6. t = [s EXCEPT !.state = "disconnected", !.gbn = g]
  BY <1>1, <1>3, <1>5 DEF Closed, SocketType
<1>7. t \in SocketType /\ t.gbn = g /\ t.state = "disconnected"
  BY <1>4, <1>6, WithEndpoint
<1> QED
  BY <1>4, <1>5, <1>7 DEF SocketHolds, Pieces, Quiet

\* What disconnect() sends is a packet, and no piece.
LEMMA FarewellType ==
  \A s : Farewell(s) \subseteq PacketType /\ \A pkt \in Farewell(s) : pkt.kind = "raw"
  BY DEF Farewell, PacketType, Disconnect, Raw, Control

\* The keep-alive is set once a socket is connected.
LEMMA ConnectedHolds ==
  ASSUME NEW s \in SocketType, Sound(s.gbn)
  PROVE  /\ SocketHolds(Connected(s)) /\ Connected(s).state = "connected"
         /\ Pieces(Connected(s).gbn) = Pieces(s.gbn)
<1>1. PICK g : g = SetKeepAlive(s.gbn, TRUE)
  OBVIOUS
<1>2. Sound(g) /\ Pieces(g) = Pieces(s.gbn)
  BY <1>1, KeepAliveIsSound
<1>3. PICK t : t = Connected(s)
  OBVIOUS
<1>4. t = [s EXCEPT !.state = "connected", !.gbn = g]
  BY <1>1, <1>3 DEF Connected, SocketType
<1>5. t \in SocketType /\ t.gbn = g /\ t.state = "connected"
  BY <1>2, <1>4, WithEndpoint
<1> QED
  BY <1>2, <1>3, <1>5 DEF SocketHolds, Open

\* A message sent is one more piece, which goes out.
LEMMA SendHolds ==
  ASSUME NEW s \in SocketType, Sound(s.gbn), Open(s), NEW msg \in MessageType
  PROVE  LET t == Send(s, msg) IN
         /\ SocketHolds(t) /\ t.state = s.state /\ t.sent = s.sent /\ t.raw = s.raw
         /\ Pieces(t.gbn) = Pieces(s.gbn) \cup Outgoing(s, msg)
         /\ Outgoing(s, msg) \subseteq PieceType
         /\ \A p \in Outgoing(s, msg) : p.msg = msg
<1>1. PICK g : g = SendViaGoBackN(s.gbn, msg, 1)
  OBVIOUS
<1>2. PICK p : p = NewPieces(s.gbn, msg, 1)[1]
  OBVIOUS
<1>3. Sound(g) /\ Pieces(g) = Pieces(s.gbn) \cup {p} /\ p \in PieceType /\ p.msg = msg
  BY <1>1, <1>2, SendIsSound
<1>4. Outgoing(s, msg) = {p}
  BY <1>2 DEF Outgoing
<1>5. PICK t : t = Send(s, msg)
  OBVIOUS
<1>6. t = [s EXCEPT !.gbn = g]
  BY <1>1, <1>5 DEF Send, SocketType
<1>7. /\ t \in SocketType /\ t.gbn = g /\ t.state = s.state /\ t.sent = s.sent /\ t.raw = s.raw
  BY <1>3, <1>6, WithEndpoint DEF SocketType
<1> QED
  BY <1>3, <1>4, <1>5, <1>7 DEF SocketHolds, Open

\* The socket's timer expired.
ExpiredSocket(s) ==
  LET t == [s EXCEPT !.gbn = TimerExpired(@)] IN IF TimesOut(s.gbn) THEN Closed(t) ELSE t
ExpiredPackets(s) ==
  LET t == [s EXCEPT !.gbn = TimerExpired(@)]
  IN  TimerPackets(s.gbn) \cup IF TimesOut(s.gbn) THEN Farewell(t) ELSE {}

\* A socket whose timer runs is open; when it expires, the socket stays as it is or
\* is closed, and sends nothing but what it had to send, and its goodbye.
LEMMA ExpireHolds ==
  ASSUME NEW s, SocketHolds(s), s.gbn.sendTimer = "started"
  PROVE  /\ SocketHolds(ExpiredSocket(s))
         /\ Pieces(ExpiredSocket(s).gbn) \subseteq Pieces(s.gbn)
         /\ ExpiredSocket(s).state \in {s.state, "disconnected"}
         /\ ExpiredPackets(s) \subseteq PacketType
         /\ \A pkt \in ExpiredPackets(s) : pkt.kind = "data" => pkt \in Pieces(s.gbn)
<1>1. s \in SocketType /\ Sound(s.gbn) /\ Open(s)
  BY DEF SocketHolds, Quiet
<1>2. PICK g : g = TimerExpired(s.gbn)
  OBVIOUS
<1>3. Sound(g) /\ Pieces(g) = Pieces(s.gbn)
      /\ TimerPackets(s.gbn) \subseteq Pieces(s.gbn) \cup {NullMsg}
  BY <1>1, <1>2, ExpireIsSound
<1>4. PICK t : t = [s EXCEPT !.gbn = g]
  OBVIOUS
<1>5. t \in SocketType /\ t.gbn = g /\ t.state = s.state
  BY <1>1, <1>3, <1>4, WithEndpoint DEF SocketType
<1>6. /\ ExpiredSocket(s) = IF TimesOut(s.gbn) THEN Closed(t) ELSE t
      /\ ExpiredPackets(s) = TimerPackets(s.gbn) \cup IF TimesOut(s.gbn) THEN Farewell(t) ELSE {}
  BY <1>1, <1>2, <1>4 DEF ExpiredSocket, ExpiredPackets, SocketType
<1>7. SocketHolds(t)
  BY <1>1, <1>3, <1>5 DEF SocketHolds, Open
<1>8. SocketHolds(Closed(t)) /\ Closed(t).state = "disconnected" /\ Pieces(Closed(t).gbn) = {}
  BY <1>3, <1>5, ClosedHolds
<1>9. Pieces(s.gbn) \subseteq PieceType
  BY <1>1 DEF Pieces, Sound, EndpointType
<1>10. ExpiredPackets(s) \subseteq Pieces(s.gbn) \cup {NullMsg} \cup Farewell(t)
  BY <1>3, <1>6
<1>11. PieceType \subseteq PacketType /\ NullMsg \in PacketType /\ NullMsg.kind = "null"
  BY DEF PacketType, NullMsg
<1>12. Farewell(t) \subseteq PacketType /\ \A pkt \in Farewell(t) : pkt.kind = "raw"
  BY FarewellType
<1>13. ExpiredPackets(s) \subseteq PacketType
  BY <1>9, <1>10, <1>11, <1>12
<1>14. \A pkt \in ExpiredPackets(s) : pkt.kind = "data" => pkt \in Pieces(s.gbn)
  <2> TAKE pkt \in ExpiredPackets(s)
  <2> HAVE pkt.kind = "data"
  <2> QED
    BY <1>10, <1>11, <1>12
<1> QED
  BY <1>3, <1>5, <1>6, <1>7, <1>8, <1>13, <1>14

-----------------------------------------------------------------------------
(* The invariant.                                                          *)

CarriesFinal(pkt) == pkt.kind = "data" /\ pkt.msg = ConnectFinal

Through == {"connected", "disconnected"}

\* A ConnectFinal that exists anywhere, read by the child, under way or kept to be
\* resent, was sent by a client that is connected or was.
HandshakeOf(c) ==
  \/ child[c].state = "connected"
  \/ \E pkt \in toServer[c] \cup Pieces(client[c].gbn) : CarriesFinal(pkt)
  => client[c].state \in Through

UdpInv ==
  /\ server \in {"listening", "closed"}
  /\ client \in [Clients -> SocketType]
  /\ child \in [Clients -> SocketType]
  /\ \A c \in Clients : SocketHolds(client[c]) /\ SocketHolds(child[c])
  /\ toServer \in [Clients -> SUBSET PacketType]
  /\ toClient \in [Clients -> SUBSET PacketType]
  /\ opened \in [Clients -> 0 .. MaxChildren]
  /\ heard \in [Clients -> [client : Seq(MessageType), child : Seq(MessageType)]]
  /\ \A c \in Clients : HandshakeOf(c)

\* A client's socket, what it sends, what is left of what it reads, and what its
\* owner has heard: enough that the socket holds and that a client does not hand
\* out a ConnectFinal before it is connected.
LEMMA ClientStep ==
  ASSUME UdpInv, NEW c \in Clients, NEW s, SocketHolds(s),
         NEW out \in SUBSET PacketType, NEW net \in SUBSET PacketType, NEW h \in Seq(MessageType),
         client' = [client EXCEPT ![c] = s],
         toServer' = [toServer EXCEPT ![c] = @ \cup out],
         toClient' = [toClient EXCEPT ![c] = net],
         heard' = [heard EXCEPT ![c].client = h],
         UNCHANGED <<server, child, opened>>,
         client[c].state \in Through => s.state \in Through,
         s.state \notin Through =>
           \A pkt \in out \cup Pieces(s.gbn) :
             CarriesFinal(pkt) => pkt \in Pieces(client[c].gbn)
  PROVE  UdpInv'
<1>1. client' \in [Clients -> SocketType] /\ \A d \in Clients : client'[d] = IF d = c THEN s ELSE client[d]
  BY DEF UdpInv, SocketHolds
<1>2. /\ toServer' \in [Clients -> SUBSET PacketType]
      /\ \A d \in Clients : toServer'[d] = IF d = c THEN toServer[c] \cup out ELSE toServer[d]
  BY DEF UdpInv
<1>3. toClient' \in [Clients -> SUBSET PacketType]
  BY DEF UdpInv
<1>4. heard' \in [Clients -> [client : Seq(MessageType), child : Seq(MessageType)]]
  BY DEF UdpInv
<1>5. \A d \in Clients : SocketHolds(client'[d])
  BY <1>1 DEF UdpInv
<1>6. ASSUME NEW d \in Clients PROVE HandshakeOf(d)'
  <2>1. CASE d # c
    BY <1>1, <1>2, <2>1 DEF UdpInv, HandshakeOf
  <2>2. CASE d = c
    <3> SUFFICES ASSUME client'[c].state \notin Through
                 PROVE  /\ child[c].state # "connected"
                        /\ \A pkt \in toServer'[c] \cup Pieces(client'[c].gbn) : ~CarriesFinal(pkt)
      BY <2>2 DEF HandshakeOf
    <3>1. client'[c] = s /\ client[c].state \notin Through
      BY <1>1
    <3>2. /\ child[c].state # "connected"
          /\ \A pkt \in toServer[c] \cup Pieces(client[c].gbn) : ~CarriesFinal(pkt)
      BY <3>1 DEF UdpInv, HandshakeOf
    <3> QED
      BY <1>2, <3>1, <3>2
  <2> QED
    BY <2>1, <2>2
<1> QED
  BY <1>1, <1>2, <1>3, <1>4, <1>5, <1>6 DEF UdpInv

\* A child's socket, what it sends, what is left of what it reads: enough that the
\* socket holds and that a ConnectFinal was there if it is connected.
LEMMA ChildStep ==
  ASSUME UdpInv, NEW c \in Clients, NEW s, SocketHolds(s),
         NEW net \in SUBSET PacketType, NEW rest \in SUBSET toServer[c], NEW h \in Seq(MessageType),
         NEW o \in 0 .. MaxChildren,
         child' = [child EXCEPT ![c] = s],
         toServer' = [toServer EXCEPT ![c] = rest],
         toClient' = [toClient EXCEPT ![c] = net],
         heard' = [heard EXCEPT ![c].child = h],
         opened' = [opened EXCEPT ![c] = o],
         UNCHANGED <<server, client>>,
         s.state = "connected" => \/ child[c].state = "connected"
                                 \/ \E pkt \in toServer[c] : CarriesFinal(pkt)
  PROVE  UdpInv'
<1>1. child' \in [Clients -> SocketType] /\ \A d \in Clients : child'[d] = IF d = c THEN s ELSE child[d]
  BY DEF UdpInv, SocketHolds
<1>2. /\ toServer' \in [Clients -> SUBSET PacketType]
      /\ \A d \in Clients : toServer'[d] \subseteq toServer[d]
  BY DEF UdpInv
<1>3. toClient' \in [Clients -> SUBSET PacketType]
  BY DEF UdpInv
<1>4. heard' \in [Clients -> [client : Seq(MessageType), child : Seq(MessageType)]]
  BY DEF UdpInv
<1>5. opened' \in [Clients -> 0 .. MaxChildren]
  BY DEF UdpInv
<1>6. \A d \in Clients : SocketHolds(child'[d])
  BY <1>1 DEF UdpInv
<1>7. ASSUME NEW d \in Clients PROVE HandshakeOf(d)'
  BY <1>1, <1>2 DEF UdpInv, HandshakeOf
<1> QED
  BY <1>1, <1>2, <1>3, <1>4, <1>5, <1>6, <1>7 DEF UdpInv

\* What the invariant says of one client.
LEMMA AtClient ==
  ASSUME UdpInv, NEW c \in Clients
  PROVE  /\ SocketHolds(client[c]) /\ client[c] \in SocketType /\ Sound(client[c].gbn)
         /\ SocketHolds(child[c]) /\ child[c] \in SocketType /\ Sound(child[c].gbn)
         /\ toServer[c] \in SUBSET PacketType /\ toClient[c] \in SUBSET PacketType
         /\ heard[c].client \in Seq(MessageType) /\ heard[c].child \in Seq(MessageType)
         /\ opened[c] \in 0 .. MaxChildren
  BY DEF UdpInv, SocketHolds

\* What does not change is replaced by itself.
LEMMA Unchanged ==
  ASSUME UdpInv, NEW c \in Clients
  PROVE  /\ toClient = [toClient EXCEPT ![c] = toClient[c]]
         /\ toServer = [toServer EXCEPT ![c] = toServer[c]]
         /\ opened = [opened EXCEPT ![c] = opened[c]]
         /\ heard = [heard EXCEPT ![c].client = heard[c].client]
         /\ heard = [heard EXCEPT ![c].child = heard[c].child]
  BY DEF UdpInv

\* The messages are messages, and the ConnectFinal is none of the others.
LEMMA MessageTypes ==
  /\ ConnectRequest \in MessageType /\ ConnectReply \in MessageType /\ ConnectFinal \in MessageType
  /\ ConnectRequest # ConnectFinal /\ ConnectReply # ConnectFinal
  /\ \A by \in 0 .. MaxChildren, n \in 0 .. MaxMessages :
       Message(by, n) \in MessageType /\ Message(by, n) # ConnectFinal
<1>1. 0 \in 0 .. MaxMessages /\ 0 \in 0 .. MaxChildren
  BY ConnectionAssumption
<1> QED
  BY <1>1 DEF MessageType, ConnectRequest, ConnectReply, ConnectFinal, Control, Message

\* Pieces are packets; the unreliable packets are, and carry no ConnectFinal.
LEMMA PacketTypes ==
  /\ PieceType \subseteq PacketType
  /\ \A by \in 0 .. MaxChildren : Unreliable(by) \in PacketType /\ ~CarriesFinal(Unreliable(by))
  BY DEF PacketType, Unreliable, Raw, CarriesFinal

\* A client that connects.
LEMMA ConnectInv ==
  ASSUME UdpInv, NEW c \in Clients, Connect(c)
  PROVE  UdpInv'
<1>1. PICK s : s = Socket("connecting", NewEndpoint(TRUE))
  OBVIOUS
<1>2. SocketHolds(s) /\ Pieces(s.gbn) = {} /\ s.state = "connecting"
  BY <1>1, FreshSocketHolds
<1>3. s \in SocketType /\ Sound(s.gbn) /\ Open(s)
  BY <1>2 DEF SocketHolds, Open
<1>4. PICK t : t = Send(s, ConnectRequest)
  OBVIOUS
<1>5. PICK out : out = Outgoing(s, ConnectRequest)
  OBVIOUS
<1>6. /\ SocketHolds(t) /\ t.state = "connecting" /\ Pieces(t.gbn) = out
      /\ out \subseteq PieceType /\ \A p \in out : p.msg = ConnectRequest
  <2>1. PICK msg \in MessageType : msg = ConnectRequest
    BY MessageTypes
  <2>2. /\ SocketHolds(t) /\ t.state = "connecting" /\ Pieces(t.gbn) = Pieces(s.gbn) \cup out
        /\ out \subseteq PieceType /\ \A p \in out : p.msg = msg
    BY <1>2, <1>4, <1>5, <1>3, <2>1, SendHolds
  <2> QED
    BY <1>2, <2>1, <2>2
<1>7. \A pkt \in out \cup Pieces(t.gbn) : ~CarriesFinal(pkt)
  BY <1>6, MessageTypes DEF CarriesFinal
<1>8. client[c].state \notin Through
  BY DEF Connect, Through
<1>9. /\ client' = [client EXCEPT ![c] = t] /\ toServer' = [toServer EXCEPT ![c] = @ \cup out]
      /\ UNCHANGED <<server, child, toClient, opened, heard>>
  BY <1>1, <1>4, <1>5 DEF Connect, ToServer
<1>10. out \in SUBSET PacketType
  BY <1>6, PacketTypes
<1> QED
  BY <1>6, <1>7, <1>8, <1>9, <1>10, AtClient, Unchanged, ClientStep

\* A client that hears nothing for too long, resends or keeps alive.
LEMMA ClientExpireInv ==
  ASSUME UdpInv, NEW c \in Clients, ClientExpire(c)
  PROVE  UdpInv'
<1>1. PICK s : s = ExpiredSocket(client[c])
  OBVIOUS
<1>2. PICK out : out = ExpiredPackets(client[c])
  OBVIOUS
<1>3. /\ SocketHolds(s) /\ Pieces(s.gbn) \subseteq Pieces(client[c].gbn)
      /\ s.state \in {client[c].state, "disconnected"}
      /\ out \subseteq PacketType
      /\ \A pkt \in out : pkt.kind = "data" => pkt \in Pieces(client[c].gbn)
  BY <1>1, <1>2, AtClient, ExpireHolds DEF ClientExpire
<1>4. /\ client' = [client EXCEPT ![c] = s] /\ toServer' = [toServer EXCEPT ![c] = @ \cup out]
      /\ UNCHANGED <<server, child, toClient, opened, heard>>
  BY <1>1, <1>2 DEF ClientExpire, ToServer, ExpiredSocket, ExpiredPackets
<1>5. client[c].state \in Through => s.state \in Through
  BY <1>3 DEF Through
<1>6. \A pkt \in out \cup Pieces(s.gbn) : CarriesFinal(pkt) => pkt \in Pieces(client[c].gbn)
  BY <1>3 DEF CarriesFinal
<1> QED
  BY <1>3, <1>4, <1>5, <1>6, AtClient, Unchanged, ClientStep

\* An owner counts what it sent.
LEMMA CountHolds ==
  ASSUME NEW s, SocketHolds(s)
  PROVE  /\ s.sent < MaxMessages =>
              LET t == [s EXCEPT !.sent = @ + 1] IN
              SocketHolds(t) /\ t.gbn = s.gbn /\ t.state = s.state
         /\ s.raw < MaxRaw =>
              LET t == [s EXCEPT !.gbn = DelayKeepAliveOnce(@), !.raw = @ + 1] IN
              /\ Open(s) => SocketHolds(t)
              /\ Pieces(t.gbn) = Pieces(s.gbn) /\ t.state = s.state
<1>1. s \in SocketType /\ Sound(s.gbn)
  BY DEF SocketHolds
<1>2. ASSUME s.sent < MaxMessages
      PROVE  LET t == [s EXCEPT !.sent = @ + 1] IN
             SocketHolds(t) /\ t.gbn = s.gbn /\ t.state = s.state
  <2>1. PICK n \in 0 .. MaxMessages : n = s.sent + 1
    BY <1>1, <1>2, ConnectionAssumption DEF SocketType
  <2>2. PICK t : t = [s EXCEPT !.sent = n]
    OBVIOUS
  <2>3. t \in SocketType /\ t.gbn = s.gbn /\ t.state = s.state
    BY <1>1, <2>2 DEF SocketType
  <2>4. t = [s EXCEPT !.sent = @ + 1]
    BY <1>1, <2>1, <2>2 DEF SocketType
  <2> QED
    BY <2>3, <2>4 DEF SocketHolds, Open
<1>3. ASSUME s.raw < MaxRaw
      PROVE  LET t == [s EXCEPT !.gbn = DelayKeepAliveOnce(@), !.raw = @ + 1] IN
             /\ Open(s) => SocketHolds(t)
             /\ Pieces(t.gbn) = Pieces(s.gbn) /\ t.state = s.state
  <2>1. PICK n \in 0 .. MaxRaw : n = s.raw + 1
    BY <1>1, <1>3, ConnectionAssumption DEF SocketType
  <2>2. PICK g : g = DelayKeepAliveOnce(s.gbn)
    OBVIOUS
  <2>3. Sound(g) /\ Pieces(g) = Pieces(s.gbn)
    BY <1>1, <2>2, DelayIsSound
  <2>4. PICK u : u = [s EXCEPT !.gbn = g]
    OBVIOUS
  <2>5. u \in SocketType /\ u.gbn = g /\ u.state = s.state
    BY <1>1, <2>3, <2>4, WithEndpoint DEF SocketType
  <2>6. PICK t : t = [u EXCEPT !.raw = n]
    OBVIOUS
  <2>7. t \in SocketType /\ t.gbn = g /\ t.state = s.state
    BY <2>5, <2>6 DEF SocketType
  <2>8. t = [s EXCEPT !.gbn = DelayKeepAliveOnce(@), !.raw = @ + 1]
    BY <1>1, <2>1, <2>2, <2>4, <2>6 DEF SocketType
  <2> QED
    BY <2>3, <2>7, <2>8 DEF SocketHolds, Open
<1> QED
  BY <1>2, <1>3

\* A connected client's owner sends a message.
LEMMA ClientSendInv ==
  ASSUME UdpInv, NEW c \in Clients, ClientSend(c)
  PROVE  UdpInv'
<1>1. PICK msg : msg = Message(0, client[c].sent + 1)
  OBVIOUS
<1>2. client[c].sent \in 0 .. MaxMessages /\ client[c].sent < MaxMessages
  BY AtClient DEF ClientSend, SocketType
<1>3. msg \in MessageType
  <2>1. client[c].sent + 1 \in 0 .. MaxMessages /\ 0 \in 0 .. MaxChildren
    BY <1>2, ConnectionAssumption
  <2> QED
    BY <1>1, <2>1, MessageTypes
<1>4. client[c] \in SocketType /\ Sound(client[c].gbn) /\ Open(client[c]) /\ client[c].state = "connected"
  BY AtClient DEF ClientSend, Open
<1>5. PICK t : t = Send(client[c], msg)
  OBVIOUS
<1>6. PICK out : out = Outgoing(client[c], msg)
  OBVIOUS
<1>7. /\ SocketHolds(t) /\ t.state = "connected" /\ t.sent = client[c].sent
      /\ out \subseteq PieceType
  BY <1>2, <1>3, <1>4, <1>5, <1>6, SendHolds
<1>8. PICK u : u = [t EXCEPT !.sent = @ + 1]
  OBVIOUS
<1>9. SocketHolds(u) /\ u.state = "connected"
  BY <1>2, <1>7, <1>8, CountHolds
<1>10. /\ client' = [client EXCEPT ![c] = u] /\ toServer' = [toServer EXCEPT ![c] = @ \cup out]
       /\ UNCHANGED <<server, child, toClient, opened, heard>>
  <2>1. client' = [client EXCEPT ![c] = u]
    BY <1>1, <1>5, <1>7, <1>8 DEF ClientSend
  <2>2. toServer' = [toServer EXCEPT ![c] = @ \cup out]
    BY <1>1, <1>6 DEF ClientSend, ToServer
  <2>3. UNCHANGED <<server, child, toClient, opened, heard>>
    BY DEF ClientSend
  <2> QED
    BY <2>1, <2>2, <2>3
<1>11. out \in SUBSET PacketType /\ u.state \in Through
  BY <1>7, <1>9, PacketTypes DEF Through
<1> QED
  BY <1>9, <1>10, <1>11, AtClient, Unchanged, ClientStep

\* A connected client's owner sends an unreliable message.
LEMMA ClientSendRawInv ==
  ASSUME UdpInv, NEW c \in Clients, ClientSendRaw(c)
  PROVE  UdpInv'
<1>1. PICK t : t = [client[c] EXCEPT !.gbn = DelayKeepAliveOnce(@), !.raw = @ + 1]
  OBVIOUS
<1>2. SocketHolds(t) /\ t.state = "connected"
  BY <1>1, AtClient, CountHolds DEF ClientSendRaw, Open
<1>3. /\ client' = [client EXCEPT ![c] = t] /\ toServer' = [toServer EXCEPT ![c] = @ \cup {Unreliable(0)}]
      /\ UNCHANGED <<server, child, toClient, opened, heard>>
  BY <1>1 DEF ClientSendRaw, ToServer, UdpInv
<1>4. {Unreliable(0)} \in SUBSET PacketType
  BY PacketTypes, ConnectionAssumption
<1>5. t.state \in Through
  BY <1>2 DEF Through
<1> QED
  BY <1>2, <1>3, <1>4, <1>5, AtClient, Unchanged, ClientStep

\* A client's owner disconnects.
LEMMA ClientDisconnectInv ==
  ASSUME UdpInv, NEW c \in Clients, ClientDisconnect(c)
  PROVE  UdpInv'
<1>1. PICK t : t = Closed(client[c])
  OBVIOUS
<1>2. SocketHolds(t) /\ t.state = "disconnected"
  BY <1>1, AtClient, ClosedHolds
<1>3. PICK out : out = Farewell(client[c])
  OBVIOUS
<1>4. /\ client' = [client EXCEPT ![c] = t] /\ toServer' = [toServer EXCEPT ![c] = @ \cup out]
      /\ UNCHANGED <<server, child, toClient, opened, heard>>
  BY <1>1, <1>3 DEF ClientDisconnect, ToServer
<1>5. out \in SUBSET PacketType /\ t.state \in Through
  BY <1>2, <1>3, FarewellType DEF Through
<1> QED
  BY <1>2, <1>4, <1>5, AtClient, Unchanged, ClientStep

\* A client reads a packet: only the reply makes it connected and send a ConnectFinal.
LEMMA ClientReceiveInv ==
  ASSUME UdpInv, NEW c \in Clients, NEW pkt \in toClient[c], ClientReceive(c, pkt)
  PROVE  UdpInv'
<1>1. pkt \in PacketType /\ toClient[c] \in SUBSET PacketType
  BY AtClient
<1>2. PICK net : net = Taken(toClient[c], pkt)
  OBVIOUS
<1>3. net \in SUBSET PacketType
  BY <1>1, <1>2 DEF Taken
<1>4. toClient' = [toClient EXCEPT ![c] = net] /\ UNCHANGED <<server, child, opened>> /\ Open(client[c])
  BY <1>2 DEF ClientReceive
<1>5. client[c] \in SocketType /\ Sound(client[c].gbn)
  BY AtClient
<1>6. CASE pkt = Disconnect
  <2>1. PICK t : t = Closed(client[c])
    OBVIOUS
  <2>2. SocketHolds(t) /\ t.state = "disconnected"
    BY <1>5, <2>1, ClosedHolds
  <2>3. PICK out : out = Farewell(client[c])
    OBVIOUS
  <2>4. /\ client' = [client EXCEPT ![c] = t] /\ toServer' = [toServer EXCEPT ![c] = @ \cup out]
        /\ UNCHANGED heard
    BY <1>6, <2>1, <2>3 DEF ClientReceive, ToServer
  <2>5. out \in SUBSET PacketType /\ t.state \in Through
    BY <2>2, <2>3, FarewellType DEF Through
  <2> QED
    BY <1>3, <1>4, <2>2, <2>4, <2>5, AtClient, Unchanged, ClientStep
<1>7. CASE pkt # Disconnect
  <2>1. PICK g : g = RecvFromSocket(client[c].gbn, pkt)
    OBVIOUS
  <2>2. PICK acks : acks = RecvPackets(client[c].gbn, pkt)
    OBVIOUS
  <2>3. /\ Sound(g) /\ Pieces(g) \subseteq Pieces(client[c].gbn)
        /\ acks \subseteq PacketType /\ \A q \in acks : q.kind = "ack"
    BY <1>1, <1>5, <2>1, <2>2, ReceiveIsSound
  <2>4. PICK s : s = [client[c] EXCEPT !.gbn = g]
    OBVIOUS
  <2>5. s \in SocketType /\ s.gbn = g /\ s.state = client[c].state
    BY <1>5, <2>3, <2>4, WithEndpoint DEF SocketType
  <2>6. SocketHolds(s)
    BY <1>4, <2>3, <2>5 DEF SocketHolds, Open
  <2>7. PICK got : got = (pkt.kind = "data" /\ Delivers(client[c].gbn, pkt))
    OBVIOUS
  <2>8. PICK h : h = IF got /\ pkt.msg.type = "Message" THEN Append(heard[c].client, pkt.msg)
                     ELSE heard[c].client
    OBVIOUS
  <2>9. h \in Seq(MessageType)
    <3>1. got => pkt.msg \in MessageType
      BY <1>1, <2>7, PacketKinds DEF PieceType
    <3>2. heard[c].client \in Seq(MessageType)
      BY AtClient
    <3> QED
      BY <2>8, <3>1, <3>2
  <2>10. heard' = [heard EXCEPT ![c].client = h]
    BY <1>7, <2>7, <2>8 DEF ClientReceive, UdpInv
  <2>11. CASE got /\ s.state = "connecting" /\ pkt.msg = ConnectReply
    <3>1. PICK v : v = [s EXCEPT !.state = "connected"]
      OBVIOUS
    <3>2. v \in SocketType /\ v.gbn = g /\ v.state = "connected"
      BY <2>5, <3>1 DEF SocketType
    <3>3. PICK w : w = Send(v, ConnectFinal)
      OBVIOUS
    <3>4. SocketHolds(w) /\ w \in SocketType /\ Sound(w.gbn)
      BY <2>3, <3>2, <3>3, SendHolds, MessageTypes DEF Open, SocketHolds
    <3>5. PICK t : t = Connected(w)
      OBVIOUS
    <3>6. SocketHolds(t) /\ t.state = "connected"
      BY <3>4, <3>5, ConnectedHolds
    <3>7. PICK out : out = acks \cup Outgoing(s, ConnectFinal)
      OBVIOUS
    <3>8. client' = [client EXCEPT ![c] = t] /\ toServer' = [toServer EXCEPT ![c] = @ \cup out]
      BY <1>7, <2>1, <2>2, <2>4, <2>7, <2>11, <3>1, <3>3, <3>5, <3>7
         DEF ClientReceive, ClientRecvMsg, ClientReplies, ToServer
    <3>9. Outgoing(s, ConnectFinal) \subseteq PieceType
      BY <1>4, <2>5, <2>6, SendHolds, MessageTypes DEF Open, SocketHolds
    <3>10. out \in SUBSET PacketType /\ t.state \in Through
      BY <2>3, <3>6, <3>7, <3>9, PacketTypes DEF Through
    <3> QED
      BY <1>3, <1>4, <2>9, <2>10, <3>6, <3>8, <3>10, ClientStep
  <2>12. CASE ~(got /\ s.state = "connecting" /\ pkt.msg = ConnectReply)
    <3>1. client' = [client EXCEPT ![c] = s] /\ toServer' = [toServer EXCEPT ![c] = @ \cup acks]
      BY <1>7, <2>1, <2>2, <2>4, <2>7, <2>12
         DEF ClientReceive, ClientRecvMsg, ClientReplies, ToServer
    <3>2. \A q \in acks \cup Pieces(s.gbn) : CarriesFinal(q) => q \in Pieces(client[c].gbn)
      BY <2>3, <2>5 DEF CarriesFinal
    <3> QED
      BY <1>3, <1>4, <2>3, <2>5, <2>6, <2>9, <2>10, <3>1, <3>2, ClientStep
  <2> QED
    BY <2>11, <2>12
<1> QED
  BY <1>6, <1>7

\* What the server puts on the wire for a child is packets.
LEMMA ToClientType ==
  ASSUME UdpInv, NEW c \in Clients, NEW out \in SUBSET PacketType, ToClient(c, out)
  PROVE  \E net \in SUBSET PacketType : toClient' = [toClient EXCEPT ![c] = net]
<1>1. PICK net : net = IF server = "listening" THEN toClient[c] \cup out ELSE toClient[c]
  OBVIOUS
<1>2. net \in SUBSET PacketType
  BY <1>1, AtClient
<1>3. toClient' = [toClient EXCEPT ![c] = net]
  BY <1>1 DEF ToClient
<1> QED
  BY <1>2, <1>3

\* A child that reads nothing.
LEMMA ChildActs ==
  ASSUME UdpInv, NEW c \in Clients, NEW s, SocketHolds(s), NEW out \in SUBSET PacketType,
         child' = [child EXCEPT ![c] = s], ToClient(c, out),
         UNCHANGED <<server, client, toServer, opened, heard>>,
         s.state = "connected" => child[c].state = "connected"
  PROVE  UdpInv'
<1>1. PICK net \in SUBSET PacketType : toClient' = [toClient EXCEPT ![c] = net]
  BY ToClientType
<1>2. PICK rest \in SUBSET toServer[c] : rest = toServer[c]
  OBVIOUS
<1>3. PICK h \in Seq(MessageType) : h = heard[c].child
  BY AtClient
<1>4. PICK o \in 0 .. MaxChildren : o = opened[c]
  BY AtClient
<1>5. /\ toServer' = [toServer EXCEPT ![c] = rest] /\ heard' = [heard EXCEPT ![c].child = h]
      /\ opened' = [opened EXCEPT ![c] = o] /\ UNCHANGED <<server, client>>
  BY <1>2, <1>3, <1>4, Unchanged
<1> QED
  BY <1>1, <1>5, ChildStep

\* A child that hears nothing for too long, resends or keeps alive.
LEMMA ChildExpireInv ==
  ASSUME UdpInv, NEW c \in Clients, ChildExpire(c)
  PROVE  UdpInv'
<1>1. PICK s : s = ExpiredSocket(child[c])
  OBVIOUS
<1>2. PICK out : out = ExpiredPackets(child[c])
  OBVIOUS
<1>3. SocketHolds(s) /\ s.state \in {child[c].state, "disconnected"} /\ out \in SUBSET PacketType
  BY <1>1, <1>2, AtClient, ExpireHolds DEF ChildExpire
<1>4. /\ child' = [child EXCEPT ![c] = s] /\ ToClient(c, out)
      /\ UNCHANGED <<server, client, toServer, opened, heard>>
  BY <1>1, <1>2 DEF ChildExpire, ExpiredSocket, ExpiredPackets
<1> QED
  BY <1>3, <1>4, ChildActs

\* An accepted child's owner sends a message.
LEMMA ChildSendInv ==
  ASSUME UdpInv, NEW c \in Clients, ChildSend(c)
  PROVE  UdpInv'
<1>1. PICK msg : msg = Message(opened[c], child[c].sent + 1)
  OBVIOUS
<1>2. child[c].sent \in 0 .. MaxMessages /\ child[c].sent < MaxMessages
  BY AtClient DEF ChildSend, SocketType
<1>3. msg \in MessageType
  <2>1. child[c].sent + 1 \in 0 .. MaxMessages /\ opened[c] \in 0 .. MaxChildren
    BY <1>2, AtClient, ConnectionAssumption
  <2> QED
    BY <1>1, <2>1, MessageTypes
<1>4. child[c] \in SocketType /\ Sound(child[c].gbn) /\ Open(child[c]) /\ child[c].state = "connected"
  BY AtClient DEF ChildSend, Open
<1>5. PICK t : t = Send(child[c], msg)
  OBVIOUS
<1>6. PICK out : out = Outgoing(child[c], msg)
  OBVIOUS
<1>7. SocketHolds(t) /\ t.sent = child[c].sent /\ out \in SUBSET PacketType
  BY <1>3, <1>4, <1>5, <1>6, SendHolds, PacketTypes
<1>8. PICK u : u = [t EXCEPT !.sent = @ + 1]
  OBVIOUS
<1>9. SocketHolds(u)
  BY <1>2, <1>7, <1>8, CountHolds
<1>10. child' = [child EXCEPT ![c] = u]
  BY <1>1, <1>5, <1>7, <1>8 DEF ChildSend
<1>11. ToClient(c, out) /\ UNCHANGED <<server, client, toServer, opened, heard>>
  BY <1>1, <1>6 DEF ChildSend
<1> QED
  BY <1>4, <1>7, <1>9, <1>10, <1>11, ChildActs

\* An accepted child's owner sends an unreliable message.
LEMMA ChildSendRawInv ==
  ASSUME UdpInv, NEW c \in Clients, ChildSendRaw(c)
  PROVE  UdpInv'
<1>1. PICK t : t = [child[c] EXCEPT !.gbn = DelayKeepAliveOnce(@), !.raw = @ + 1]
  OBVIOUS
<1>2. SocketHolds(t) /\ child[c].state = "connected"
  BY <1>1, AtClient, CountHolds DEF ChildSendRaw, Open
<1>3. child' = [child EXCEPT ![c] = t] /\ UNCHANGED <<server, client, toServer, opened, heard>>
  BY <1>1 DEF ChildSendRaw, UdpInv
<1>4. {Unreliable(opened[c])} \in SUBSET PacketType
  BY PacketTypes, AtClient
<1>5. ToClient(c, {Unreliable(opened[c])})
  BY DEF ChildSendRaw
<1> QED
  BY <1>2, <1>3, <1>4, <1>5, ChildActs

\* An accepted child's owner lets it go.
LEMMA ChildDisconnectInv ==
  ASSUME UdpInv, NEW c \in Clients, ChildDisconnect(c)
  PROVE  UdpInv'
<1>1. PICK t : t = Closed(child[c])
  OBVIOUS
<1>2. SocketHolds(t) /\ t.state = "disconnected"
  BY <1>1, AtClient, ClosedHolds
<1>3. child' = [child EXCEPT ![c] = t] /\ UNCHANGED <<server, client, toServer, opened, heard>>
  BY <1>1 DEF ChildDisconnect
<1>4. Farewell(child[c]) \in SUBSET PacketType
  BY FarewellType
<1>5. ToClient(c, Farewell(child[c])) /\ child[c].state = "connected"
  BY DEF ChildDisconnect
<1> QED
  BY <1>2, <1>3, <1>4, <1>5, ChildActs

\* A child, there already or just opened, reads a packet: it sends packets, its owner
\* hears messages, and only a ConnectFinal makes it connected.
LEMMA ChildReceiveFacts ==
  ASSUME UdpInv, NEW c \in Clients, NEW s, SocketHolds(s), Open(s), NEW pkt \in PacketType,
         ChildReceive(c, s, pkt)
  PROVE  \E t \in SocketType, net \in SUBSET PacketType, h \in Seq(MessageType) :
           /\ SocketHolds(t)
           /\ child' = [child EXCEPT ![c] = t]
           /\ toClient' = [toClient EXCEPT ![c] = net]
           /\ heard' = [heard EXCEPT ![c].child = h]
           /\ t.state = "connected" => s.state = "connected" \/ CarriesFinal(pkt)
<1>1. s \in SocketType /\ Sound(s.gbn)
  BY DEF SocketHolds
<1>2. CASE pkt = Disconnect
  <2>1. PICK t : t = IF s.state = "connected" THEN Closed(s) ELSE s
    OBVIOUS
  <2>2. SocketHolds(t) /\ (t.state = "connected" => s.state = "connected")
    BY <1>1, <2>1, ClosedHolds
  <2>3. Farewell(s) \in SUBSET PacketType
    BY FarewellType
  <2>4. child' = [child EXCEPT ![c] = t] /\ ToClient(c, Farewell(s)) /\ UNCHANGED heard
    BY <1>2, <2>1 DEF ChildReceive
  <2>5. PICK net \in SUBSET PacketType : toClient' = [toClient EXCEPT ![c] = net]
    BY <2>3, <2>4, ToClientType
  <2>6. PICK h \in Seq(MessageType) : h = heard[c].child
    BY AtClient
  <2>7. heard' = [heard EXCEPT ![c].child = h]
    BY <2>4, <2>6, Unchanged
  <2> QED
    BY <2>2, <2>4, <2>5, <2>7 DEF SocketHolds
<1>3. CASE pkt # Disconnect
  <2>1. PICK g : g = RecvFromSocket(s.gbn, pkt)
    OBVIOUS
  <2>2. PICK acks : acks = RecvPackets(s.gbn, pkt)
    OBVIOUS
  <2>3. Sound(g) /\ acks \subseteq PacketType
    BY <1>1, <2>1, <2>2, ReceiveIsSound
  <2>4. PICK u : u = [s EXCEPT !.gbn = g]
    OBVIOUS
  <2>5. u \in SocketType /\ u.gbn = g /\ u.state = s.state
    BY <1>1, <2>3, <2>4, WithEndpoint DEF SocketType
  <2>6. SocketHolds(u) /\ Open(u)
    BY <2>3, <2>5 DEF SocketHolds, Open
  <2>7. PICK got : got = (pkt.kind = "data" /\ Delivers(s.gbn, pkt))
    OBVIOUS
  <2>8. PICK h : h = IF got /\ pkt.msg.type = "Message" THEN Append(heard[c].child, pkt.msg)
                     ELSE heard[c].child
    OBVIOUS
  <2>9. h \in Seq(MessageType)
    <3>1. got => pkt.msg \in MessageType
      BY <2>7, PacketKinds DEF PieceType
    <3>2. heard[c].child \in Seq(MessageType)
      BY AtClient
    <3> QED
      BY <2>8, <3>1, <3>2
  <2>10. heard' = [heard EXCEPT ![c].child = h]
    BY <1>3, <2>7, <2>8 DEF ChildReceive, UdpInv
  <2>11. PICK t : t = IF got THEN ChildRecvMsg(u, pkt.msg) ELSE u
    OBVIOUS
  <2>12. PICK out : out = acks \cup IF got THEN ChildReplies(u, pkt.msg) ELSE {}
    OBVIOUS
  <2>13. child' = [child EXCEPT ![c] = t] /\ ToClient(c, out)
    BY <1>1, <1>3, <2>1, <2>2, <2>4, <2>7, <2>11, <2>12 DEF ChildReceive, SocketType
  <2>14. /\ SocketHolds(Send(u, ConnectReply)) /\ Send(u, ConnectReply).state = u.state
         /\ Outgoing(u, ConnectReply) \subseteq PacketType
    BY <2>3, <2>5, <2>6, SendHolds, MessageTypes, PacketTypes
  <2>15. SocketHolds(Connected(u))
    BY <2>3, <2>5, ConnectedHolds
  <2>16. SocketHolds(t) /\ (t.state = "connected" => s.state = "connected" \/ CarriesFinal(pkt))
    BY <2>5, <2>6, <2>7, <2>11, <2>14, <2>15 DEF ChildRecvMsg, CarriesFinal
  <2>17. out \in SUBSET PacketType
    BY <2>3, <2>12, <2>14 DEF ChildReplies
  <2>18. PICK net \in SUBSET PacketType : toClient' = [toClient EXCEPT ![c] = net]
    BY <2>13, <2>17, ToClientType
  <2> QED
    BY <2>9, <2>10, <2>13, <2>16, <2>18 DEF SocketHolds
<1> QED
  BY <1>2, <1>3

\* The server reads a packet for a child, opens one, or ignores it.
LEMMA ServerReceiveInv ==
  ASSUME UdpInv, NEW c \in Clients, NEW pkt \in toServer[c], ServerReceive(c, pkt)
  PROVE  UdpInv'
<1>1. pkt \in PacketType
  BY AtClient
<1>2. PICK rest \in SUBSET toServer[c] : rest = Taken(toServer[c], pkt)
  BY DEF Taken
<1>3. toServer' = [toServer EXCEPT ![c] = rest] /\ UNCHANGED <<server, client>>
  BY <1>2 DEF ServerReceive
<1>4. ASSUME NEW s, SocketHolds(s), Open(s), ChildReceive(c, s, pkt), NEW o \in 0 .. MaxChildren,
             opened' = [opened EXCEPT ![c] = o],
             s.state = "connected" => child[c].state = "connected"
      PROVE  UdpInv'
  <2>1. PICK t \in SocketType, net \in SUBSET PacketType, h \in Seq(MessageType) :
           /\ SocketHolds(t)
           /\ child' = [child EXCEPT ![c] = t]
           /\ toClient' = [toClient EXCEPT ![c] = net]
           /\ heard' = [heard EXCEPT ![c].child = h]
           /\ t.state = "connected" => s.state = "connected" \/ CarriesFinal(pkt)
    BY <1>1, <1>4, ChildReceiveFacts
  <2>2. t.state = "connected" => \/ child[c].state = "connected"
                                \/ \E q \in toServer[c] : CarriesFinal(q)
    BY <1>4, <2>1
  <2> QED
    BY <1>3, <1>4, <2>1, <2>2, ChildStep
<1>5. CASE Open(child[c])
  <2>1. ChildReceive(c, child[c], pkt) /\ UNCHANGED opened
    BY <1>5 DEF ServerReceive
  <2>2. PICK o \in 0 .. MaxChildren : o = opened[c]
    BY AtClient
  <2>3. opened' = [opened EXCEPT ![c] = o]
    BY <2>1, <2>2, Unchanged
  <2> QED
    BY <1>4, <1>5, <2>1, <2>3, AtClient
<1>6. CASE ~Open(child[c]) /\ pkt.kind = "data" /\ pkt.msg = ConnectRequest
  <2>1. PICK s : s = Socket("connecting", NewEndpoint(TRUE))
    OBVIOUS
  <2>2. SocketHolds(s) /\ s.state = "connecting" /\ Open(s)
    BY <2>1, FreshSocketHolds DEF Open
  <2>3. /\ opened[c] < MaxChildren /\ opened' = [opened EXCEPT ![c] = @ + 1]
        /\ ChildReceive(c, s, pkt)
    BY <1>6, <2>1 DEF ServerReceive
  <2>4. PICK o \in 0 .. MaxChildren : o = opened[c] + 1
    BY <2>3, AtClient, ConnectionAssumption
  <2> QED
    BY <1>4, <2>2, <2>3, <2>4
<1>7. CASE ~Open(child[c]) /\ ~(pkt.kind = "data" /\ pkt.msg = ConnectRequest)
  <2>1. UNCHANGED <<child, toClient, opened, heard>>
    BY <1>7 DEF ServerReceive
  <2>2. toServer' \in [Clients -> SUBSET PacketType] /\ \A d \in Clients : toServer'[d] \subseteq toServer[d]
    BY <1>3 DEF UdpInv
  <2> QED
    BY <1>3, <2>1, <2>2 DEF UdpInv, HandshakeOf
<1> QED
  BY <1>5, <1>6, <1>7

\* The server socket says goodbye for its children.
LEMMA ServerDisconnectInv ==
  ASSUME UdpInv, ServerDisconnect
  PROVE  UdpInv'
<1>1. Disconnect \in PacketType
  BY DEF PacketType
<1>2. server' \in {"listening", "closed"} /\ UNCHANGED <<client, child, toServer, opened, heard>>
  BY DEF ServerDisconnect
<1>3. toClient' \in [Clients -> SUBSET PacketType]
  BY <1>1 DEF ServerDisconnect, UdpInv
<1> QED
  BY <1>2, <1>3 DEF UdpInv, HandshakeOf

\* A packet is lost.
LEMMA LoseInv ==
  ASSUME UdpInv, NEW c \in Clients, Lose(c)
  PROVE  UdpInv'
<1>1. UNCHANGED <<server, client, child, opened, heard>>
  BY DEF Lose, sockets
<1>2. /\ toServer' \in [Clients -> SUBSET PacketType] /\ toClient' \in [Clients -> SUBSET PacketType]
      /\ \A d \in Clients : toServer'[d] \subseteq toServer[d]
  BY DEF Lose, UdpInv
<1> QED
  BY <1>1, <1>2 DEF UdpInv, HandshakeOf
-----------------------------------------------------------------------------
(* Both directions of a connection, as long as it has one child.           *)

\* What either end says under each number: its part of the handshake, then the
\* messages of its owner.
ClientWord(n) ==
  IF n = 1 THEN ConnectRequest ELSE IF n = 2 THEN ConnectFinal ELSE Message(0, n - 2)
ChildWord(n) == IF n = 1 THEN ConnectReply ELSE Message(1, n - 1)

ClientSays(pkt) == pkt.kind = "data" => pkt.msg = ClientWord(pkt.sequence)
ChildSays(pkt) == pkt.kind = "data" => pkt.msg = ChildWord(pkt.sequence)

\* How far a client socket is, with h what its owner has read.
ClientGot(s, h) ==
  /\ s.state = "none" => h = << >>
  /\ s.state = "connecting" =>
       s.gbn.sendSequence = 1 /\ s.gbn.recvSequence = 0 /\ s.sent = 0 /\ h = << >>
  /\ s.state = "connected" =>
       s.gbn.sendSequence = s.sent + 2 /\ s.gbn.recvSequence = Len(h) + 1
  /\ \A i \in 1 .. Len(h) : h[i] = Message(1, i)

\* How far a child socket is, with h what its owner has read.
ChildGot(s, h) ==
  /\ s.state = "connecting" =>
       s.gbn.sendSequence = 1 /\ s.gbn.recvSequence = 1 /\ s.sent = 0 /\ h = << >>
  /\ s.state = "connected" =>
       s.gbn.sendSequence = s.sent + 1 /\ s.gbn.recvSequence = Len(h) + 2
  /\ \A i \in 1 .. Len(h) : h[i] = Message(0, i)

\* The invariant of one connection: a number stands for one message, wherever a piece
\* with that number is, and what was read is what was said under the numbers received.
StreamOf(c) ==
  opened[c] <= 1 =>
    /\ \A pkt \in toServer[c] \cup Pieces(client[c].gbn) : ClientSays(pkt)
    /\ \A pkt \in toClient[c] \cup Pieces(child[c].gbn) : ChildSays(pkt)
    /\ ClientGot(client[c], heard[c].client)
    /\ ChildGot(child[c], heard[c].child)
    /\ opened[c] = 0 => child[c].state = "none" /\ heard[c].child = << >>

StreamInv == \A c \in Clients : StreamOf(c)

\* Two sockets that are as far as each other.
AsFar(s, t) ==
  /\ t.state = s.state /\ t.sent = s.sent
  /\ t.gbn.sendSequence = s.gbn.sendSequence /\ t.gbn.recvSequence = s.gbn.recvSequence

\* A socket that stays as far as it is, or is closed, has read what it had read.
LEMMA GotKept ==
  ASSUME NEW s, NEW t, NEW h, t.state = "disconnected" \/ AsFar(s, t)
  PROVE  /\ ClientGot(s, h) => ClientGot(t, h)
         /\ ChildGot(s, h) => ChildGot(t, h)
<1>1. CASE t.state = "disconnected"
  BY <1>1 DEF ClientGot, ChildGot
<1>2. CASE AsFar(s, t)
  BY <1>2 DEF AsFar, ClientGot, ChildGot
<1> QED
  BY <1>1, <1>2

\* A number more is sent.
LEMMA SendCounts ==
  ASSUME NEW s \in SocketType, Sound(s.gbn), NEW msg \in MessageType
  PROVE  LET t == Send(s, msg) IN
         /\ t.gbn.sendSequence = s.gbn.sendSequence + 1
         /\ t.gbn.recvSequence = s.gbn.recvSequence
         /\ t.sent = s.sent /\ t.state = s.state
         /\ \A p \in Outgoing(s, msg) : p.sequence = s.gbn.sendSequence + 1 /\ p.msg = msg
<1>1. PICK a \in EndpointType : a = s.gbn
  BY DEF Sound
<1>2. PICK list : list = a.sendList \o NewPieces(a, msg, 1)
  OBVIOUS
<1>3. PICK n \in Nat : n = a.sendSequence + 1
  BY DEF EndpointType
<1>4. PICK h : h = [a EXCEPT !.sendSequence = n, !.sendList = list, !.sendTimer = "started"]
  OBVIOUS
<1>5. h.sendSequence = n /\ h.recvSequence = a.recvSequence
  BY <1>4 DEF EndpointType
<1>6. h = SendViaGoBackN(a, msg, 1)
  BY <1>2, <1>3, <1>4 DEF SendViaGoBackN, CheckAndStartTimer, EndpointType
<1>7. PICK t : t = [s EXCEPT !.gbn = h]
  OBVIOUS
<1>8. t = Send(s, msg)
  BY <1>1, <1>6, <1>7 DEF Send, SocketType
<1>9. t.gbn = h /\ t.sent = s.sent /\ t.state = s.state
  BY <1>7 DEF SocketType
<1>10. NewPieces(a, msg, 1)[1] = Piece(a.sendSequence + 1, msg, 0, 1)
  BY DEF NewPieces
<1>11. \A p \in Outgoing(s, msg) : p.sequence = a.sendSequence + 1 /\ p.msg = msg
  BY <1>1, <1>10 DEF Outgoing, Piece
<1> QED
  BY <1>1, <1>3, <1>5, <1>8, <1>9, <1>11

\* Connected: the keep-alive is not counted.
LEMMA ConnectedCounts ==
  ASSUME NEW s \in SocketType, Sound(s.gbn)
  PROVE  LET t == Connected(s) IN
         /\ t.gbn.sendSequence = s.gbn.sendSequence /\ t.gbn.recvSequence = s.gbn.recvSequence
         /\ t.sent = s.sent
<1>1. PICK a \in EndpointType : a = s.gbn
  BY DEF Sound
<1>2. PICK b : b = [a EXCEPT !.keepAlive = TRUE]
  OBVIOUS
<1>3. /\ b \in EndpointType /\ b.sendSequence = a.sendSequence
      /\ b.recvSequence = a.recvSequence
  BY <1>2 DEF EndpointType
<1>4. PICK h : h = RefreshKeepAlive(b)
  OBVIOUS
<1>5. h.sendSequence = b.sendSequence /\ h.recvSequence = b.recvSequence
  BY <1>3, <1>4, RefreshIsSound
<1>6. h = SetKeepAlive(a, TRUE)
  BY <1>2, <1>4 DEF SetKeepAlive
<1>7. PICK t : t = [s EXCEPT !.state = "connected", !.gbn = h]
  OBVIOUS
<1>8. t = Connected(s)
  BY <1>1, <1>6, <1>7 DEF Connected, SocketType
<1>9. t.gbn = h /\ t.sent = s.sent
  BY <1>7 DEF SocketType
<1> QED
  BY <1>1, <1>3, <1>5, <1>8, <1>9

\* A piece counts when it is handed over, and then it has the next number.
LEMMA ReceiveCounts ==
  ASSUME NEW g, Sound(g), NEW pkt \in PacketType
  PROVE  LET h == RecvFromSocket(g, pkt)
             got == pkt.kind = "data" /\ Delivers(g, pkt)
         IN  /\ h.sendSequence = g.sendSequence
             /\ got => h.recvSequence = g.recvSequence + 1 /\ pkt.sequence = g.recvSequence + 1
             /\ ~got => h.recvSequence = g.recvSequence
<1>1. PICK u \in EndpointType : u = Heard(g)
  BY HeardIsSound DEF Sound
<1>2. /\ u.sendSequence = g.sendSequence /\ u.recvSequence = g.recvSequence
      /\ g.recvSequence \in Nat
  BY <1>1, HeardIsSound DEF Sound, EndpointType
<1>3. PICK h : h = RecvFromSocket(g, pkt)
  OBVIOUS
<1>4. CASE pkt.kind = "data"
  <2>1. ~IsSplit(pkt)
    BY <1>4, PacketKinds DEF IsSplit, PieceType
  <2>2. Delivers(g, pkt) <=> InOrder(g, pkt)
    BY <2>1 DEF Delivers
  <2>3. h = RecvData(g, pkt)
    BY <1>3, <1>4 DEF RecvFromSocket
  <2>4. CASE InOrder(g, pkt)
    <3>1. PICK n \in Nat : n = u.recvSequence + 1
      BY <1>2
    <3>2. PICK buffer : buffer = u.recvBuffer
      OBVIOUS
    <3>3. h = [u EXCEPT !.recvSequence = n, !.recvBuffer = buffer]
      BY <1>1, <2>1, <2>3, <2>4, <3>1, <3>2 DEF RecvData, EndpointType
    <3>4. h.recvSequence = n /\ h.sendSequence = u.sendSequence
      BY <3>3 DEF EndpointType
    <3> QED
      BY <1>2, <1>3, <1>4, <2>2, <2>4, <3>1, <3>4 DEF InOrder
  <2>5. CASE ~InOrder(g, pkt)
    BY <1>1, <1>2, <1>3, <2>2, <2>3, <2>5 DEF RecvData
  <2> QED
    BY <2>4, <2>5
<1>5. CASE pkt.kind = "ack"
  <2>1. PICK n, list : h = [u EXCEPT !.ackSequence = n, !.sendList = list, !.sendListPos = 0]
    BY <1>1, <1>3, <1>5 DEF RecvFromSocket, RecvAck
  <2>2. h.recvSequence = u.recvSequence /\ h.sendSequence = u.sendSequence
    BY <2>1 DEF EndpointType
  <2> QED
    BY <1>2, <1>3, <1>5, <2>2
<1>6. CASE pkt.kind # "data" /\ pkt.kind # "ack"
  BY <1>1, <1>2, <1>3, <1>6 DEF RecvFromSocket
<1> QED
  BY <1>4, <1>5, <1>6

\* The timer counts nothing.
LEMMA ExpireCounts ==
  ASSUME NEW s, SocketHolds(s)
  PROVE  ExpiredSocket(s).state = "disconnected" \/ AsFar(s, ExpiredSocket(s))
<1>1. s \in SocketType /\ Sound(s.gbn)
  BY DEF SocketHolds
<1>2. PICK a \in EndpointType : a = s.gbn
  BY <1>1 DEF Sound
<1>3. PICK pos, skip, n, timer :
         TimerExpired(a) = [a EXCEPT !.sendListPos = pos, !.skipNextKeepAlive = skip,
                                     !.countDown = n, !.sendTimer = timer]
  BY DEF TimerExpired
<1>4. PICK g : g = TimerExpired(a)
  OBVIOUS
<1>5. g.sendSequence = a.sendSequence /\ g.recvSequence = a.recvSequence /\ Sound(g)
  BY <1>1, <1>2, <1>3, <1>4, ExpireIsSound DEF EndpointType
<1>6. PICK t : t = [s EXCEPT !.gbn = g]
  OBVIOUS
<1>7. t \in SocketType /\ t.gbn = g /\ t.state = s.state /\ t.sent = s.sent
  BY <1>1, <1>5, <1>6, WithEndpoint DEF SocketType
<1>8. ExpiredSocket(s) = IF TimesOut(s.gbn) THEN Closed(t) ELSE t
  BY <1>1, <1>2, <1>4, <1>6 DEF ExpiredSocket, SocketType
<1>9. Closed(t).state = "disconnected"
  BY <1>5, <1>7, ClosedHolds
<1>10. AsFar(s, t)
  BY <1>2, <1>5, <1>7 DEF AsFar
<1> QED
  BY <1>8, <1>9, <1>10

\* An unreliable message is not counted.
LEMMA RawCounts ==
  ASSUME NEW s \in SocketType, Sound(s.gbn)
  PROVE  AsFar(s, [s EXCEPT !.gbn = DelayKeepAliveOnce(@), !.raw = @ + 1])
<1>1. PICK a \in EndpointType : a = s.gbn
  BY DEF Sound
<1>2. PICK g : g = [a EXCEPT !.skipNextKeepAlive = TRUE]
  OBVIOUS
<1>3. g.sendSequence = a.sendSequence /\ g.recvSequence = a.recvSequence
  BY <1>2 DEF EndpointType
<1>4. PICK t : t = [s EXCEPT !.gbn = DelayKeepAliveOnce(@), !.raw = @ + 1]
  OBVIOUS
<1>5. t.gbn = DelayKeepAliveOnce(a) /\ t.state = s.state /\ t.sent = s.sent
  BY <1>1, <1>4 DEF SocketType
<1>6. t.gbn = g
  BY <1>2, <1>5 DEF DelayKeepAliveOnce
<1> QED
  BY <1>1, <1>3, <1>4, <1>5, <1>6 DEF AsFar
-----------------------------------------------------------------------------
(* Steps and the streams.                                                  *)

\* Only one connection is touched.
LEMMA StreamElsewhere ==
  ASSUME StreamInv, NEW c \in Clients, StreamOf(c)',
         \A d \in Clients \ {c} :
           /\ client'[d] = client[d] /\ child'[d] = child[d] /\ opened'[d] = opened[d]
           /\ toServer'[d] = toServer[d] /\ toClient'[d] = toClient[d]
           /\ heard'[d] = heard[d]
  PROVE  StreamInv'
<1>1. ASSUME NEW d \in Clients \ {c} PROVE StreamOf(d)'
  BY <1>1 DEF StreamInv, StreamOf
<1> QED
  BY <1>1 DEF StreamInv

\* What a client's owner has heard is replaced.
LEMMA HeardByClient ==
  ASSUME UdpInv, NEW c \in Clients, NEW h
  PROVE  LET new == [heard EXCEPT ![c].client = h] IN
         /\ new[c].client = h /\ new[c].child = heard[c].child
         /\ \A d \in Clients \ {c} : new[d] = heard[d]
  BY DEF UdpInv

\* What a child's owner has heard is replaced.
LEMMA HeardByChild ==
  ASSUME UdpInv, NEW c \in Clients, NEW h
  PROVE  LET new == [heard EXCEPT ![c].child = h] IN
         /\ new[c].child = h /\ new[c].client = heard[c].client
         /\ \A d \in Clients \ {c} : new[d] = heard[d]
  BY DEF UdpInv

\* A client's socket, what it sends and what its owner has heard: enough that what is
\* new says what its number stands for, and that the socket is as far as it should be.
LEMMA ClientTalk ==
  ASSUME UdpInv, StreamInv, NEW c \in Clients, NEW s, NEW out,
         NEW net \in SUBSET toClient[c], NEW h,
         client' = [client EXCEPT ![c] = s],
         toServer' = [toServer EXCEPT ![c] = @ \cup out],
         toClient' = [toClient EXCEPT ![c] = net],
         heard' = [heard EXCEPT ![c].client = h],
         UNCHANGED <<server, child, opened>>,
         (opened[c] <= 1) =>
           /\ \A pkt \in out \cup Pieces(s.gbn) :
                pkt \in Pieces(client[c].gbn) \/ ClientSays(pkt)
           /\ ClientGot(s, h)
  PROVE  StreamInv'
<1>1. /\ client'[c] = s /\ toServer'[c] = toServer[c] \cup out /\ toClient'[c] = net
      /\ \A d \in Clients \ {c} :
           /\ client'[d] = client[d] /\ toServer'[d] = toServer[d] /\ toClient'[d] = toClient[d]
  BY DEF UdpInv
<1>2. /\ heard'[c].client = h /\ heard'[c].child = heard[c].child
      /\ \A d \in Clients \ {c} : heard'[d] = heard[d]
  BY HeardByClient
<1>3. ASSUME (opened[c] <= 1)'
      PROVE  /\ \A pkt \in toServer'[c] \cup Pieces(client'[c].gbn) : ClientSays(pkt)
             /\ \A pkt \in toClient'[c] \cup Pieces(child'[c].gbn) : ChildSays(pkt)
             /\ ClientGot(client'[c], heard'[c].client)
             /\ ChildGot(child'[c], heard'[c].child)
             /\ opened'[c] = 0 => child'[c].state = "none" /\ heard'[c].child = << >>
  <2>1. opened[c] <= 1
    BY <1>3
  <2>2. /\ \A pkt \in toServer[c] \cup Pieces(client[c].gbn) : ClientSays(pkt)
        /\ \A pkt \in toClient[c] \cup Pieces(child[c].gbn) : ChildSays(pkt)
        /\ ChildGot(child[c], heard[c].child)
        /\ opened[c] = 0 => child[c].state = "none" /\ heard[c].child = << >>
    BY <2>1 DEF StreamInv, StreamOf
  <2>3. /\ \A pkt \in out \cup Pieces(s.gbn) :
             pkt \in Pieces(client[c].gbn) \/ ClientSays(pkt)
        /\ ClientGot(s, h)
    BY <2>1
  <2>4. \A pkt \in toServer'[c] \cup Pieces(client'[c].gbn) : ClientSays(pkt)
    BY <1>1, <2>2, <2>3
  <2>5. \A pkt \in toClient'[c] \cup Pieces(child'[c].gbn) : ChildSays(pkt)
    BY <1>1, <2>2
  <2> QED
    BY <1>1, <1>2, <2>2, <2>3, <2>4, <2>5
<1>4. StreamOf(c)'
  BY <1>3 DEF StreamOf
<1> QED
  BY <1>1, <1>2, <1>4, StreamElsewhere

\* A child's socket, what it sends, what its owner has heard and whether it is a new one.
LEMMA ChildTalk ==
  ASSUME UdpInv, StreamInv, NEW c \in Clients, NEW s, NEW out,
         NEW rest \in SUBSET toServer[c], NEW h, NEW o \in Nat, opened[c] <= o,
         child' = [child EXCEPT ![c] = s],
         toServer' = [toServer EXCEPT ![c] = rest],
         ToClient(c, out),
         heard' = [heard EXCEPT ![c].child = h],
         opened' = [opened EXCEPT ![c] = o],
         UNCHANGED <<server, client>>,
         (o <= 1) =>
           /\ \A pkt \in out \cup Pieces(s.gbn) :
                pkt \in Pieces(child[c].gbn) \/ ChildSays(pkt)
           /\ ChildGot(s, h)
           /\ o = 0 => s.state = "none" /\ h = << >>
  PROVE  StreamInv'
<1>1. /\ child'[c] = s /\ toServer'[c] = rest /\ opened'[c] = o
      /\ \A d \in Clients \ {c} :
           /\ child'[d] = child[d] /\ toServer'[d] = toServer[d] /\ opened'[d] = opened[d]
  BY DEF UdpInv
<1>2. /\ heard'[c].child = h /\ heard'[c].client = heard[c].client
      /\ \A d \in Clients \ {c} : heard'[d] = heard[d]
  BY HeardByChild
<1>3. /\ toClient'[c] \subseteq toClient[c] \cup out
      /\ \A d \in Clients \ {c} : toClient'[d] = toClient[d]
  BY DEF ToClient, UdpInv
<1>4. ASSUME o <= 1
      PROVE  /\ \A pkt \in toServer'[c] \cup Pieces(client'[c].gbn) : ClientSays(pkt)
             /\ \A pkt \in toClient'[c] \cup Pieces(child'[c].gbn) : ChildSays(pkt)
             /\ ClientGot(client'[c], heard'[c].client)
             /\ ChildGot(child'[c], heard'[c].child)
             /\ opened'[c] = 0 => child'[c].state = "none" /\ heard'[c].child = << >>
  <2>1. opened[c] <= 1
    BY <1>4, AtClient
  <2>2. /\ \A pkt \in toServer[c] \cup Pieces(client[c].gbn) : ClientSays(pkt)
        /\ \A pkt \in toClient[c] \cup Pieces(child[c].gbn) : ChildSays(pkt)
        /\ ClientGot(client[c], heard[c].client)
    BY <2>1 DEF StreamInv, StreamOf
  <2>3. /\ \A pkt \in out \cup Pieces(s.gbn) :
             pkt \in Pieces(child[c].gbn) \/ ChildSays(pkt)
        /\ ChildGot(s, h)
        /\ o = 0 => s.state = "none" /\ h = << >>
    BY <1>4
  <2>4. \A pkt \in toServer'[c] \cup Pieces(client'[c].gbn) : ClientSays(pkt)
    BY <1>1, <2>2
  <2>5. \A pkt \in toClient'[c] \cup Pieces(child'[c].gbn) : ChildSays(pkt)
    BY <1>1, <1>3, <2>2, <2>3
  <2> QED
    BY <1>1, <1>2, <2>2, <2>3, <2>4, <2>5
<1>5. StreamOf(c)'
  BY <1>1, <1>4 DEF StreamOf
<1> QED
  BY <1>1, <1>2, <1>3, <1>5, StreamElsewhere

\* What the invariant says of a connection with one child, or none yet.
LEMMA AtStream ==
  ASSUME StreamInv, NEW c \in Clients, opened[c] <= 1
  PROVE  /\ \A pkt \in toServer[c] \cup Pieces(client[c].gbn) : ClientSays(pkt)
         /\ \A pkt \in toClient[c] \cup Pieces(child[c].gbn) : ChildSays(pkt)
         /\ ClientGot(client[c], heard[c].client)
         /\ ChildGot(child[c], heard[c].child)
         /\ opened[c] = 0 => child[c].state = "none" /\ heard[c].child = << >>
  BY DEF StreamInv, StreamOf

\* A client that says nothing new.
LEMMA ClientKeeps ==
  ASSUME UdpInv, StreamInv, NEW c \in Clients, NEW s, NEW out,
         client' = [client EXCEPT ![c] = s],
         toServer' = [toServer EXCEPT ![c] = @ \cup out],
         UNCHANGED <<server, child, toClient, opened, heard>>,
         \A pkt \in out \cup Pieces(s.gbn) :
           pkt.kind = "data" => pkt \in Pieces(client[c].gbn),
         s.state = "disconnected" \/ AsFar(client[c], s)
  PROVE  StreamInv'
<1>1. PICK h : h = heard[c].client
  OBVIOUS
<1>2. PICK net \in SUBSET toClient[c] : net = toClient[c]
  OBVIOUS
<1>3. toClient' = [toClient EXCEPT ![c] = net] /\ heard' = [heard EXCEPT ![c].client = h]
  BY <1>1, <1>2, Unchanged
<1>4. \A pkt \in out \cup Pieces(s.gbn) : pkt \in Pieces(client[c].gbn) \/ ClientSays(pkt)
  BY DEF ClientSays
<1>5. opened[c] <= 1 => ClientGot(s, h)
  BY <1>1, AtStream, GotKept
<1> QED
  BY <1>3, <1>4, <1>5, ClientTalk

\* A child that says nothing new.
LEMMA ChildKeeps ==
  ASSUME UdpInv, StreamInv, NEW c \in Clients, NEW s, NEW out, Open(child[c]),
         child' = [child EXCEPT ![c] = s],
         ToClient(c, out),
         UNCHANGED <<server, client, toServer, opened, heard>>,
         \A pkt \in out \cup Pieces(s.gbn) :
           pkt.kind = "data" => pkt \in Pieces(child[c].gbn),
         s.state = "disconnected" \/ AsFar(child[c], s)
  PROVE  StreamInv'
<1>1. PICK h : h = heard[c].child
  OBVIOUS
<1>2. PICK rest \in SUBSET toServer[c] : rest = toServer[c]
  OBVIOUS
<1>3. PICK o \in Nat : o = opened[c]
  BY AtClient, ConnectionAssumption
<1>4. /\ toServer' = [toServer EXCEPT ![c] = rest] /\ heard' = [heard EXCEPT ![c].child = h]
      /\ opened' = [opened EXCEPT ![c] = o]
  BY <1>1, <1>2, <1>3, Unchanged
<1>5. \A pkt \in out \cup Pieces(s.gbn) : pkt \in Pieces(child[c].gbn) \/ ChildSays(pkt)
  BY DEF ChildSays
<1>6. (o <= 1) => ChildGot(s, h) /\ o # 0
  BY <1>1, <1>3, AtStream, GotKept DEF Open
<1>7. opened[c] <= o
  BY <1>3
<1> QED
  BY <1>4, <1>5, <1>6, <1>7, ChildTalk
\* Packets get lost, or goodbyes are added.
LEMMA LessUnderWay ==
  ASSUME StreamInv, UNCHANGED <<client, child, opened, heard>>,
         \A c \in Clients :
           /\ \A pkt \in toServer'[c] : pkt \in toServer[c] \/ pkt.kind # "data"
           /\ \A pkt \in toClient'[c] : pkt \in toClient[c] \/ pkt.kind # "data"
  PROVE  StreamInv'
<1>1. ASSUME NEW c \in Clients PROVE StreamOf(c)'
  <2>1. StreamOf(c)
    BY DEF StreamInv
  <2>2. \A pkt : pkt.kind # "data" => ClientSays(pkt) /\ ChildSays(pkt)
    BY DEF ClientSays, ChildSays
  <2> QED
    BY <2>1, <2>2 DEF StreamOf
<1> QED
  BY <1>1 DEF StreamInv
\* A client that connects says its first word.
LEMMA ConnectStream ==
  ASSUME UdpInv, StreamInv, NEW c \in Clients, Connect(c)
  PROVE  StreamInv'
<1>1. PICK s : s = Socket("connecting", NewEndpoint(TRUE))
  OBVIOUS
<1>2. SocketHolds(s) /\ Pieces(s.gbn) = {} /\ s.state = "connecting"
  BY <1>1, FreshSocketHolds
<1>3. s \in SocketType /\ Sound(s.gbn) /\ Open(s)
  BY <1>2 DEF SocketHolds, Open
<1>4. s.gbn.sendSequence = 0 /\ s.gbn.recvSequence = 0 /\ s.sent = 0
  BY <1>1 DEF Socket, NewEndpoint
<1>5. PICK t : t = Send(s, ConnectRequest)
  OBVIOUS
<1>6. PICK out : out = Outgoing(s, ConnectRequest)
  OBVIOUS
<1>7. PICK msg \in MessageType : msg = ConnectRequest
  BY MessageTypes
<1>8. Pieces(t.gbn) = Pieces(s.gbn) \cup out
  BY <1>3, <1>5, <1>6, <1>7, SendHolds
<1>9. /\ t.gbn.sendSequence = 1 /\ t.gbn.recvSequence = 0 /\ t.sent = 0 /\ t.state = "connecting"
      /\ \A p \in out : p.sequence = 1 /\ p.msg = ConnectRequest
  <2>1. /\ t.gbn.sendSequence = s.gbn.sendSequence + 1 /\ t.gbn.recvSequence = s.gbn.recvSequence
        /\ t.sent = s.sent /\ t.state = s.state
        /\ \A p \in out : p.sequence = s.gbn.sendSequence + 1 /\ p.msg = msg
    BY <1>3, <1>5, <1>6, <1>7, SendCounts
  <2> QED
    BY <1>2, <1>4, <1>7, <2>1
<1>10. \A pkt \in out \cup Pieces(t.gbn) : pkt \in Pieces(client[c].gbn) \/ ClientSays(pkt)
  BY <1>2, <1>8, <1>9 DEF ClientSays, ClientWord
<1>11. PICK h : h = heard[c].client
  OBVIOUS
<1>12. client[c].state = "none"
  BY DEF Connect
<1>13. (opened[c] <= 1) => ClientGot(t, h)
  <2> SUFFICES ASSUME opened[c] <= 1 PROVE ClientGot(t, h)
    OBVIOUS
  <2>1. h = << >>
    BY <1>11, <1>12, AtStream DEF ClientGot
  <2> QED
    BY <1>9, <2>1 DEF ClientGot
<1>14. PICK net \in SUBSET toClient[c] : net = toClient[c]
  OBVIOUS
<1>15. /\ client' = [client EXCEPT ![c] = t] /\ toServer' = [toServer EXCEPT ![c] = @ \cup out]
       /\ toClient' = [toClient EXCEPT ![c] = net] /\ heard' = [heard EXCEPT ![c].client = h]
       /\ UNCHANGED <<server, child, opened>>
  BY <1>1, <1>5, <1>6, <1>11, <1>14, Unchanged DEF Connect, ToServer
<1> QED
  BY <1>10, <1>13, <1>15, ClientTalk

\* A goodbye carries no piece.
LEMMA FarewellSaysNothing ==
  ASSUME NEW s \in SocketType, Sound(s.gbn)
  PROVE  /\ Closed(s).state = "disconnected"
         /\ \A pkt \in Farewell(s) \cup Pieces(Closed(s).gbn) : pkt.kind # "data"
  BY ClosedHolds, FarewellType

\* A client's timer.
LEMMA ClientExpireStream ==
  ASSUME UdpInv, StreamInv, NEW c \in Clients, ClientExpire(c)
  PROVE  StreamInv'
<1>1. PICK s : s = ExpiredSocket(client[c])
  OBVIOUS
<1>2. PICK out : out = ExpiredPackets(client[c])
  OBVIOUS
<1>3. /\ Pieces(s.gbn) \subseteq Pieces(client[c].gbn)
      /\ \A pkt \in out : pkt.kind = "data" => pkt \in Pieces(client[c].gbn)
  BY <1>1, <1>2, AtClient, ExpireHolds DEF ClientExpire
<1>4. s.state = "disconnected" \/ AsFar(client[c], s)
  BY <1>1, AtClient, ExpireCounts
<1>5. /\ client' = [client EXCEPT ![c] = s] /\ toServer' = [toServer EXCEPT ![c] = @ \cup out]
      /\ UNCHANGED <<server, child, toClient, opened, heard>>
  BY <1>1, <1>2 DEF ClientExpire, ToServer, ExpiredSocket, ExpiredPackets
<1>6. \A pkt \in out \cup Pieces(s.gbn) : pkt.kind = "data" => pkt \in Pieces(client[c].gbn)
  BY <1>3
<1> QED
  BY <1>4, <1>5, <1>6, ClientKeeps

\* An owner counts what it sent.
LEMMA CountCounts ==
  ASSUME NEW s \in SocketType, NEW n
  PROVE  LET u == [s EXCEPT !.sent = n] IN
         u.sent = n /\ u.gbn = s.gbn /\ u.state = s.state
  BY DEF SocketType

\* A connected client's owner sends a message.
LEMMA ClientSendStream ==
  ASSUME UdpInv, StreamInv, NEW c \in Clients, ClientSend(c)
  PROVE  StreamInv'
<1>1. PICK msg : msg = Message(0, client[c].sent + 1)
  OBVIOUS
<1>2. client[c].sent \in 0 .. MaxMessages /\ client[c].sent < MaxMessages
  BY AtClient DEF ClientSend, SocketType
<1>3. msg \in MessageType
  <2>1. client[c].sent + 1 \in 0 .. MaxMessages /\ 0 \in 0 .. MaxChildren
    BY <1>2, ConnectionAssumption
  <2> QED
    BY <1>1, <2>1, MessageTypes
<1>4. client[c] \in SocketType /\ Sound(client[c].gbn) /\ Open(client[c]) /\ client[c].state = "connected"
  BY AtClient DEF ClientSend, Open
<1>5. PICK t : t = Send(client[c], msg)
  OBVIOUS
<1>6. PICK out : out = Outgoing(client[c], msg)
  OBVIOUS
<1>7. /\ SocketHolds(t) /\ Pieces(t.gbn) = Pieces(client[c].gbn) \cup out
  BY <1>3, <1>4, <1>5, <1>6, SendHolds
<1>8. /\ t.gbn.sendSequence = client[c].gbn.sendSequence + 1
      /\ t.gbn.recvSequence = client[c].gbn.recvSequence
      /\ t.sent = client[c].sent /\ t.state = client[c].state
      /\ \A p \in out : p.sequence = client[c].gbn.sendSequence + 1 /\ p.msg = msg
  BY <1>3, <1>4, <1>5, <1>6, SendCounts
<1>9. PICK u : u = [t EXCEPT !.sent = client[c].sent + 1]
  OBVIOUS
<1>10. u.sent = client[c].sent + 1 /\ u.gbn = t.gbn /\ u.state = "connected"
  BY <1>4, <1>7, <1>8, <1>9, CountCounts DEF SocketHolds
<1>11. PICK h : h = heard[c].client
  OBVIOUS
<1>12. PICK net \in SUBSET toClient[c] : net = toClient[c]
  OBVIOUS
<1>13. /\ client' = [client EXCEPT ![c] = u] /\ toServer' = [toServer EXCEPT ![c] = @ \cup out]
       /\ toClient' = [toClient EXCEPT ![c] = net] /\ heard' = [heard EXCEPT ![c].client = h]
       /\ UNCHANGED <<server, child, opened>>
  <2>1. client' = [client EXCEPT ![c] = u] /\ toServer' = [toServer EXCEPT ![c] = @ \cup out]
    BY <1>1, <1>5, <1>6, <1>9 DEF ClientSend, ToServer
  <2>2. UNCHANGED <<server, child, toClient, opened, heard>>
    BY DEF ClientSend
  <2> QED
    BY <1>11, <1>12, <2>1, <2>2, Unchanged
<1>14. ASSUME opened[c] <= 1
       PROVE  /\ \A pkt \in out : ClientSays(pkt)
              /\ ClientGot(u, h)
  <2>1. ClientGot(client[c], h)
    BY <1>11, <1>14, AtStream
  <2>2. PICK n \in Nat : n = client[c].sent
    BY <1>2, ConnectionAssumption
  <2>3. client[c].gbn.sendSequence = n + 2 /\ client[c].gbn.recvSequence = Len(h) + 1
    BY <1>4, <2>1, <2>2 DEF ClientGot
  <2>4. \A pkt \in out : ClientSays(pkt)
    <3>1. \A pkt \in out : pkt.sequence = n + 3 /\ pkt.msg = Message(0, n + 1)
      BY <1>1, <1>8, <2>2, <2>3
    <3>2. ClientWord(n + 3) = Message(0, n + 1)
      BY <2>2 DEF ClientWord
    <3> QED
      BY <3>1, <3>2 DEF ClientSays
  <2>5. u.gbn.sendSequence = u.sent + 2 /\ u.gbn.recvSequence = Len(h) + 1
    BY <1>8, <1>10, <2>2, <2>3
  <2> QED
    BY <1>10, <2>1, <2>4, <2>5 DEF ClientGot
<1>15. (opened[c] <= 1) => /\ \A pkt \in out \cup Pieces(u.gbn) :
                                pkt \in Pieces(client[c].gbn) \/ ClientSays(pkt)
                           /\ ClientGot(u, h)
  BY <1>7, <1>10, <1>14
<1> QED
  BY <1>13, <1>15, ClientTalk

\* A connected client's owner sends an unreliable message.
LEMMA ClientSendRawStream ==
  ASSUME UdpInv, StreamInv, NEW c \in Clients, ClientSendRaw(c)
  PROVE  StreamInv'
<1>1. PICK t : t = [client[c] EXCEPT !.gbn = DelayKeepAliveOnce(@), !.raw = @ + 1]
  OBVIOUS
<1>2. Pieces(t.gbn) = Pieces(client[c].gbn)
  BY <1>1, AtClient, CountHolds DEF ClientSendRaw, Open
<1>3. AsFar(client[c], t)
  BY <1>1, AtClient, RawCounts
<1>4. /\ client' = [client EXCEPT ![c] = t] /\ toServer' = [toServer EXCEPT ![c] = @ \cup {Unreliable(0)}]
      /\ UNCHANGED <<server, child, toClient, opened, heard>>
  BY <1>1 DEF ClientSendRaw, ToServer, UdpInv
<1>5. Unreliable(0).kind # "data"
  BY DEF Unreliable, Raw
<1>6. \A pkt \in {Unreliable(0)} \cup Pieces(t.gbn) :
        pkt.kind = "data" => pkt \in Pieces(client[c].gbn)
  BY <1>2, <1>5
<1> QED
  BY <1>3, <1>4, <1>6, ClientKeeps

\* A client's owner disconnects.
LEMMA ClientDisconnectStream ==
  ASSUME UdpInv, StreamInv, NEW c \in Clients, ClientDisconnect(c)
  PROVE  StreamInv'
<1>1. PICK t : t = Closed(client[c])
  OBVIOUS
<1>2. PICK out : out = Farewell(client[c])
  OBVIOUS
<1>3. t.state = "disconnected" /\ \A pkt \in out \cup Pieces(t.gbn) : pkt.kind # "data"
  BY <1>1, <1>2, AtClient, FarewellSaysNothing
<1>4. /\ client' = [client EXCEPT ![c] = t] /\ toServer' = [toServer EXCEPT ![c] = @ \cup out]
      /\ UNCHANGED <<server, child, toClient, opened, heard>>
  BY <1>1, <1>2 DEF ClientDisconnect, ToServer
<1> QED
  BY <1>3, <1>4, ClientKeeps
\* The next message is heard after those that were.
LEMMA HeardNext ==
  ASSUME NEW h \in Seq(MessageType), NEW by,
         Message(by, Len(h) + 1) \in MessageType,
         \A i \in 1 .. Len(h) : h[i] = Message(by, i)
  PROVE  LET k == Append(h, Message(by, Len(h) + 1)) IN
         Len(k) = Len(h) + 1 /\ \A i \in 1 .. Len(k) : k[i] = Message(by, i)
<1>1. PICK m \in MessageType : m = Message(by, Len(h) + 1)
  OBVIOUS
<1>2. PICK k : k = Append(h, m)
  OBVIOUS
<1>3. /\ Len(k) = Len(h) + 1 /\ k[Len(h) + 1] = m
      /\ \A i \in 1 .. Len(h) : k[i] = h[i]
  BY <1>2
<1>4. PICK l \in Nat : l = Len(h)
  OBVIOUS
<1>5. \A i \in 1 .. l + 1 : i \in 1 .. l \/ i = l + 1
  OBVIOUS
<1>6. ASSUME NEW i \in 1 .. Len(k) PROVE k[i] = Message(by, i)
  <2>1. i \in 1 .. l \/ i = l + 1
    BY <1>3, <1>4, <1>5
  <2>2. CASE i \in 1 .. l
    BY <1>3, <1>4, <2>2
  <2>3. CASE i = l + 1
    BY <1>1, <1>3, <1>4, <2>3
  <2> QED
    BY <2>1, <2>2, <2>3
<1> QED
  BY <1>1, <1>2, <1>3, <1>6

\* Only an owner's message is a "Message".
LEMMA Kinds ==
  /\ ConnectRequest.type # "Message" /\ ConnectReply.type # "Message"
  /\ ConnectFinal.type # "Message"
  /\ ConnectRequest # ConnectReply /\ ConnectReply # ConnectFinal /\ ConnectRequest # ConnectFinal
  /\ \A by, n : Message(by, n).type = "Message"
  BY DEF ConnectRequest, ConnectReply, ConnectFinal, Control, Message

\* Socket a reads a packet: whether it is handed a message, its endpoint then, and what
\* its owner has read, k so far.
Got(a, pkt) == pkt.kind = "data" /\ Delivers(a.gbn, pkt)
Fed(a, pkt) == [a EXCEPT !.gbn = RecvFromSocket(a.gbn, pkt)]
HeardAfter(a, pkt, k) ==
  IF Got(a, pkt) /\ pkt.msg.type = "Message" THEN Append(k, pkt.msg) ELSE k

\* What a client is then, and sends.
ClientAfter(a, pkt) == IF Got(a, pkt) THEN ClientRecvMsg(Fed(a, pkt), pkt.msg) ELSE Fed(a, pkt)
ClientAnswers(a, pkt) ==
  RecvPackets(a.gbn, pkt) \cup IF Got(a, pkt) THEN ClientReplies(Fed(a, pkt), pkt.msg) ELSE {}

\* What a client makes of a packet: the reply is its first word and is answered, every
\* other piece that counts is the next message of the owner of the child.
LEMMA ClientHears ==
  ASSUME NEW a \in SocketType, Sound(a.gbn), Open(a), NEW pkt \in PacketType, ChildSays(pkt),
         NEW k \in Seq(MessageType), ClientGot(a, k)
  PROVE  /\ \A q \in ClientAnswers(a, pkt) \cup Pieces(ClientAfter(a, pkt).gbn) :
              q \in Pieces(a.gbn) \/ ClientSays(q)
         /\ ClientGot(ClientAfter(a, pkt), HeardAfter(a, pkt, k))
<1>1. PICK s : s = Fed(a, pkt)
  OBVIOUS
<1>2. PICK got \in BOOLEAN : got = Got(a, pkt)
  BY DEF Got
<1>3. PICK t : t = ClientAfter(a, pkt)
  OBVIOUS
<1>4. PICK out : out = ClientAnswers(a, pkt)
  OBVIOUS
<1>5. PICK h : h = HeardAfter(a, pkt, k)
  OBVIOUS
<1>6. /\ t = IF got THEN ClientRecvMsg(s, pkt.msg) ELSE s
      /\ out = RecvPackets(a.gbn, pkt) \cup IF got THEN ClientReplies(s, pkt.msg) ELSE {}
      /\ h = IF got /\ pkt.msg.type = "Message" THEN Append(k, pkt.msg) ELSE k
  BY <1>1, <1>2, <1>3, <1>4, <1>5 DEF ClientAfter, ClientAnswers, HeardAfter
<1> SUFFICES /\ \A q \in out \cup Pieces(t.gbn) : q \in Pieces(a.gbn) \/ ClientSays(q)
             /\ ClientGot(t, h)
  BY <1>3, <1>4, <1>5
<1>7. PICK g : g = RecvFromSocket(a.gbn, pkt)
  OBVIOUS
<1>8. PICK acks : acks = RecvPackets(a.gbn, pkt)
  OBVIOUS
<1>9. /\ Sound(g) /\ Pieces(g) \subseteq Pieces(a.gbn)
      /\ \A q \in acks : ClientSays(q)
  BY <1>7, <1>8, ReceiveIsSound DEF ClientSays
<1>10. /\ g.sendSequence = a.gbn.sendSequence
       /\ got => g.recvSequence = a.gbn.recvSequence + 1 /\ pkt.sequence = a.gbn.recvSequence + 1
       /\ ~got => g.recvSequence = a.gbn.recvSequence
  BY <1>2, <1>7, ReceiveCounts DEF Got
<1>11. s \in SocketType /\ s.gbn = g /\ s.state = a.state /\ s.sent = a.sent
  BY <1>1, <1>7, <1>9, WithEndpoint DEF SocketType, Fed
<1>12. a.state \in {"connecting", "connected"}
  BY DEF Open
<1>13. got => pkt.kind = "data"
  BY <1>2 DEF Got
<1>14. CASE ~got
  <2>1. t = s /\ h = k /\ out = acks
    BY <1>6, <1>8, <1>14
  <2>2. AsFar(a, s)
    BY <1>10, <1>11, <1>14 DEF AsFar
  <2> QED
    BY <1>9, <1>11, <2>1, <2>2, GotKept
<1>15. CASE got /\ a.state = "connecting"
  <2>1. a.gbn.sendSequence = 1 /\ a.gbn.recvSequence = 0 /\ a.sent = 0 /\ k = << >>
    BY <1>15 DEF ClientGot
  <2>2. pkt.msg = ConnectReply
    <3>1. pkt.kind = "data" /\ pkt.sequence = 1
      BY <1>10, <1>13, <1>15, <2>1
    <3> QED
      BY <3>1 DEF ChildSays, ChildWord
  <2>3. h = k /\ out = acks \cup Outgoing(s, ConnectFinal)
    BY <1>6, <1>8, <1>11, <1>15, <2>2, Kinds DEF ClientReplies
  <2>4. PICK v : v = [s EXCEPT !.state = "connected"]
    OBVIOUS
  <2>5. v \in SocketType /\ v.gbn = g /\ v.sent = 0 /\ v.state = "connected"
    BY <1>11, <2>1, <2>4 DEF SocketType
  <2>6. PICK w : w = Send(v, ConnectFinal)
    OBVIOUS
  <2>7. t = Connected(w)
    BY <1>6, <1>11, <1>15, <2>2, <2>4, <2>6 DEF ClientRecvMsg
  <2>8. PICK msg \in MessageType : msg = ConnectFinal
    BY MessageTypes
  <2>9. /\ w \in SocketType /\ Sound(w.gbn)
        /\ Pieces(w.gbn) = Pieces(g) \cup Outgoing(v, ConnectFinal)
    BY <1>9, <2>5, <2>6, <2>8, SendHolds DEF Open, SocketHolds
  <2>10. Outgoing(v, ConnectFinal) = Outgoing(s, ConnectFinal)
    BY <1>11, <2>5 DEF Outgoing
  <2>11. /\ w.gbn.sendSequence = g.sendSequence + 1 /\ w.gbn.recvSequence = g.recvSequence
         /\ w.sent = 0
         /\ \A p \in Outgoing(v, ConnectFinal) : p.sequence = g.sendSequence + 1 /\ p.msg = msg
    BY <1>9, <2>5, <2>6, <2>8, SendCounts
  <2>12. /\ t.gbn.sendSequence = 2 /\ t.gbn.recvSequence = 1 /\ t.sent = 0
         /\ t.state = "connected" /\ Pieces(t.gbn) = Pieces(w.gbn)
    BY <1>10, <1>15, <2>1, <2>7, <2>9, <2>11, ConnectedCounts, ConnectedHolds
  <2>13. \A p \in Outgoing(v, ConnectFinal) : ClientSays(p)
    BY <1>10, <2>1, <2>8, <2>11 DEF ClientSays, ClientWord
  <2>14. ClientGot(t, h)
    BY <2>1, <2>3, <2>12 DEF ClientGot
  <2> QED
    BY <1>9, <2>3, <2>9, <2>10, <2>12, <2>13, <2>14
<1>16. CASE got /\ a.state = "connected"
  <2>1. /\ a.gbn.sendSequence = a.sent + 2 /\ a.gbn.recvSequence = Len(k) + 1
        /\ \A i \in 1 .. Len(k) : k[i] = Message(1, i)
    BY <1>16 DEF ClientGot
  <2>2. PICK l \in Nat : l = Len(k)
    OBVIOUS
  <2>3. pkt.msg = Message(1, l + 1)
    <3>1. pkt.kind = "data" /\ pkt.sequence = l + 2
      BY <1>10, <1>13, <1>16, <2>1, <2>2
    <3>2. ChildWord(l + 2) = Message(1, l + 1)
      BY <2>2 DEF ChildWord
    <3> QED
      BY <3>1, <3>2 DEF ChildSays
  <2>4. pkt.msg \in MessageType /\ pkt.msg.type = "Message"
    <3>1. pkt \in PieceType
      BY <1>13, <1>16, PacketKinds
    <3> QED
      BY <2>3, <3>1, Kinds DEF PieceType
  <2>5. h = Append(k, Message(1, Len(k) + 1))
    BY <1>6, <1>16, <2>2, <2>3, <2>4
  <2>6. Len(h) = Len(k) + 1 /\ \A i \in 1 .. Len(h) : h[i] = Message(1, i)
    BY <2>1, <2>2, <2>3, <2>4, <2>5, HeardNext
  <2>7. t = s /\ out = acks
    BY <1>6, <1>8, <1>11, <1>16 DEF ClientRecvMsg, ClientReplies
  <2>8. s.gbn.sendSequence = s.sent + 2 /\ s.gbn.recvSequence = Len(h) + 1
    BY <1>10, <1>11, <1>16, <2>1, <2>2, <2>6
  <2>9. ClientGot(t, h)
    BY <1>11, <1>16, <2>6, <2>7, <2>8 DEF ClientGot
  <2> QED
    BY <1>9, <1>11, <2>7, <2>9
<1> QED
  BY <1>12, <1>14, <1>15, <1>16

\* A client reads a packet.
LEMMA ClientReceiveStream ==
  ASSUME UdpInv, StreamInv, NEW c \in Clients, NEW pkt \in toClient[c], ClientReceive(c, pkt)
  PROVE  StreamInv'
<1>1. pkt \in PacketType
  BY AtClient
<1>2. PICK net \in SUBSET toClient[c] : net = Taken(toClient[c], pkt)
  BY DEF Taken
<1>3. toClient' = [toClient EXCEPT ![c] = net] /\ UNCHANGED <<server, child, opened>> /\ Open(client[c])
  BY <1>2 DEF ClientReceive
<1>4. PICK a \in SocketType : a = client[c]
  BY AtClient
<1>5. PICK k \in Seq(MessageType) : k = heard[c].client
  BY AtClient
<1>6. Sound(a.gbn) /\ Open(a)
  BY <1>3, <1>4, AtClient
<1>7. CASE pkt = Disconnect
  <2>1. PICK t : t = Closed(a)
    OBVIOUS
  <2>2. PICK out : out = Farewell(a)
    OBVIOUS
  <2>3. t.state = "disconnected" /\ \A q \in out \cup Pieces(t.gbn) : q.kind # "data"
    BY <1>6, <2>1, <2>2, FarewellSaysNothing
  <2>4. client' = [client EXCEPT ![c] = t] /\ toServer' = [toServer EXCEPT ![c] = @ \cup out]
    BY <1>4, <1>7, <2>1, <2>2 DEF ClientReceive, ToServer
  <2>5. heard' = [heard EXCEPT ![c].client = k]
    BY <1>5, <1>7, Unchanged DEF ClientReceive
  <2>6. opened[c] <= 1 => ClientGot(t, k)
    BY <1>4, <1>5, <2>3, AtStream, GotKept
  <2>7. \A q \in out \cup Pieces(t.gbn) : q \in Pieces(client[c].gbn) \/ ClientSays(q)
    BY <2>3 DEF ClientSays
  <2> QED
    BY <1>3, <2>4, <2>5, <2>6, <2>7, ClientTalk
<1>8. CASE pkt # Disconnect
  <2>1. PICK t : t = ClientAfter(a, pkt)
    OBVIOUS
  <2>2. PICK out : out = ClientAnswers(a, pkt)
    OBVIOUS
  <2>3. PICK h : h = HeardAfter(a, pkt, k)
    OBVIOUS
  <2>4. client' = [client EXCEPT ![c] = t]
    BY <1>4, <1>8, <2>1 DEF ClientReceive, ClientAfter, Fed, Got
  <2>5. toServer' = [toServer EXCEPT ![c] = @ \cup out]
    BY <1>4, <1>8, <2>2 DEF ClientReceive, ToServer, ClientAnswers, Fed, Got
  <2>6. heard' = [heard EXCEPT ![c].client = h]
    BY <1>4, <1>5, <1>8, <2>3 DEF ClientReceive, UdpInv, HeardAfter, Got
  <2>7. ASSUME opened[c] <= 1
        PROVE  /\ \A q \in out \cup Pieces(t.gbn) : q \in Pieces(client[c].gbn) \/ ClientSays(q)
               /\ ClientGot(t, h)
    <3>1. ChildSays(pkt) /\ ClientGot(a, k)
      BY <1>4, <1>5, <2>7, AtStream
    <3> QED
      BY <1>1, <1>4, <1>6, <2>1, <2>2, <2>3, <3>1, ClientHears
  <2> QED
    BY <1>3, <2>4, <2>5, <2>6, <2>7, ClientTalk
<1> QED
  BY <1>7, <1>8
\* A child's timer.
LEMMA ChildExpireStream ==
  ASSUME UdpInv, StreamInv, NEW c \in Clients, ChildExpire(c)
  PROVE  StreamInv'
<1>1. PICK s : s = ExpiredSocket(child[c])
  OBVIOUS
<1>2. PICK out : out = ExpiredPackets(child[c])
  OBVIOUS
<1>3. /\ Pieces(s.gbn) \subseteq Pieces(child[c].gbn)
      /\ \A pkt \in out : pkt.kind = "data" => pkt \in Pieces(child[c].gbn)
  BY <1>1, <1>2, AtClient, ExpireHolds DEF ChildExpire
<1>4. s.state = "disconnected" \/ AsFar(child[c], s)
  BY <1>1, AtClient, ExpireCounts
<1>5. /\ child' = [child EXCEPT ![c] = s] /\ ToClient(c, out)
      /\ UNCHANGED <<server, client, toServer, opened, heard>>
  BY <1>1, <1>2 DEF ChildExpire, ExpiredSocket, ExpiredPackets
<1>6. \A pkt \in out \cup Pieces(s.gbn) : pkt.kind = "data" => pkt \in Pieces(child[c].gbn)
  BY <1>3
<1>7. Open(child[c])
  BY AtClient DEF ChildExpire, SocketHolds, Quiet
<1> QED
  BY <1>4, <1>5, <1>6, <1>7, ChildKeeps

\* An accepted child's owner sends a message.
LEMMA ChildSendStream ==
  ASSUME UdpInv, StreamInv, NEW c \in Clients, ChildSend(c)
  PROVE  StreamInv'
<1>1. PICK msg : msg = Message(opened[c], child[c].sent + 1)
  OBVIOUS
<1>2. child[c].sent \in 0 .. MaxMessages /\ child[c].sent < MaxMessages
  BY AtClient DEF ChildSend, SocketType
<1>3. msg \in MessageType
  <2>1. child[c].sent + 1 \in 0 .. MaxMessages /\ opened[c] \in 0 .. MaxChildren
    BY <1>2, AtClient, ConnectionAssumption
  <2> QED
    BY <1>1, <2>1, MessageTypes
<1>4. child[c] \in SocketType /\ Sound(child[c].gbn) /\ Open(child[c]) /\ child[c].state = "connected"
  BY AtClient DEF ChildSend, Open
<1>5. PICK t : t = Send(child[c], msg)
  OBVIOUS
<1>6. PICK out : out = Outgoing(child[c], msg)
  OBVIOUS
<1>7. /\ SocketHolds(t) /\ Pieces(t.gbn) = Pieces(child[c].gbn) \cup out
  BY <1>3, <1>4, <1>5, <1>6, SendHolds
<1>8. /\ t.gbn.sendSequence = child[c].gbn.sendSequence + 1
      /\ t.gbn.recvSequence = child[c].gbn.recvSequence
      /\ t.sent = child[c].sent /\ t.state = child[c].state
      /\ \A p \in out : p.sequence = child[c].gbn.sendSequence + 1 /\ p.msg = msg
  BY <1>3, <1>4, <1>5, <1>6, SendCounts
<1>9. PICK u : u = [t EXCEPT !.sent = child[c].sent + 1]
  OBVIOUS
<1>10. u.sent = child[c].sent + 1 /\ u.gbn = t.gbn /\ u.state = "connected"
  BY <1>4, <1>7, <1>8, <1>9, CountCounts DEF SocketHolds
<1>11. PICK h : h = heard[c].child
  OBVIOUS
<1>12. PICK rest \in SUBSET toServer[c] : rest = toServer[c]
  OBVIOUS
<1>13. PICK o \in Nat : o = opened[c]
  BY AtClient, ConnectionAssumption
<1>14. /\ child' = [child EXCEPT ![c] = u] /\ ToClient(c, out)
       /\ UNCHANGED <<server, client, toServer, opened, heard>>
  <2>1. child' = [child EXCEPT ![c] = u] /\ ToClient(c, out)
    BY <1>1, <1>5, <1>6, <1>9 DEF ChildSend
  <2>2. UNCHANGED <<server, client, toServer, opened, heard>>
    BY DEF ChildSend
  <2> QED
    BY <2>1, <2>2
<1>15. /\ toServer' = [toServer EXCEPT ![c] = rest] /\ heard' = [heard EXCEPT ![c].child = h]
       /\ opened' = [opened EXCEPT ![c] = o] /\ opened[c] <= o
  BY <1>11, <1>12, <1>13, <1>14, Unchanged
<1>16. ASSUME o <= 1
       PROVE  /\ \A pkt \in out : ChildSays(pkt)
              /\ ChildGot(u, h) /\ o # 0
  <2>1. ChildGot(child[c], h) /\ o # 0
    BY <1>4, <1>11, <1>13, <1>16, AtStream
  <2>2. PICK n \in Nat : n = child[c].sent
    BY <1>2, ConnectionAssumption
  <2>3. child[c].gbn.sendSequence = n + 1 /\ child[c].gbn.recvSequence = Len(h) + 2
    BY <1>4, <2>1, <2>2 DEF ChildGot
  <2>4. o = 1
    BY <1>16, <2>1
  <2>5. \A pkt \in out : ChildSays(pkt)
    <3>1. \A pkt \in out : pkt.sequence = n + 2 /\ pkt.msg = Message(1, n + 1)
      BY <1>1, <1>8, <1>13, <2>2, <2>3, <2>4
    <3>2. ChildWord(n + 2) = Message(1, n + 1)
      BY <2>2 DEF ChildWord
    <3> QED
      BY <3>1, <3>2 DEF ChildSays
  <2>6. u.gbn.sendSequence = u.sent + 1 /\ u.gbn.recvSequence = Len(h) + 2
    BY <1>8, <1>10, <2>2, <2>3
  <2> QED
    BY <1>10, <2>1, <2>5, <2>6 DEF ChildGot
<1>17. (o <= 1) => /\ \A pkt \in out \cup Pieces(u.gbn) :
                        pkt \in Pieces(child[c].gbn) \/ ChildSays(pkt)
                   /\ ChildGot(u, h) /\ o # 0
  BY <1>7, <1>10, <1>16
<1> QED
  BY <1>14, <1>15, <1>17, ChildTalk

\* An accepted child's owner sends an unreliable message.
LEMMA ChildSendRawStream ==
  ASSUME UdpInv, StreamInv, NEW c \in Clients, ChildSendRaw(c)
  PROVE  StreamInv'
<1>1. PICK t : t = [child[c] EXCEPT !.gbn = DelayKeepAliveOnce(@), !.raw = @ + 1]
  OBVIOUS
<1>2. Pieces(t.gbn) = Pieces(child[c].gbn) /\ Open(child[c])
  BY <1>1, AtClient, CountHolds DEF ChildSendRaw, Open
<1>3. AsFar(child[c], t)
  BY <1>1, AtClient, RawCounts
<1>4. /\ child' = [child EXCEPT ![c] = t] /\ ToClient(c, {Unreliable(opened[c])})
      /\ UNCHANGED <<server, client, toServer, opened, heard>>
  BY <1>1 DEF ChildSendRaw, UdpInv
<1>5. Unreliable(opened[c]).kind # "data"
  BY DEF Unreliable, Raw
<1>6. \A pkt \in {Unreliable(opened[c])} \cup Pieces(t.gbn) :
        pkt.kind = "data" => pkt \in Pieces(child[c].gbn)
  BY <1>2, <1>5
<1> QED
  BY <1>2, <1>3, <1>4, <1>6, ChildKeeps

\* An accepted child's owner lets it go.
LEMMA ChildDisconnectStream ==
  ASSUME UdpInv, StreamInv, NEW c \in Clients, ChildDisconnect(c)
  PROVE  StreamInv'
<1>1. PICK t : t = Closed(child[c])
  OBVIOUS
<1>2. PICK out : out = Farewell(child[c])
  OBVIOUS
<1>3. t.state = "disconnected" /\ \A pkt \in out \cup Pieces(t.gbn) : pkt.kind # "data"
  BY <1>1, <1>2, AtClient, FarewellSaysNothing
<1>4. /\ child' = [child EXCEPT ![c] = t] /\ ToClient(c, out)
      /\ UNCHANGED <<server, client, toServer, opened, heard>> /\ Open(child[c])
  BY <1>1, <1>2 DEF ChildDisconnect, Open
<1> QED
  BY <1>3, <1>4, ChildKeeps

\* A child that is about to read: just opened, or as far as the invariant says.
ChildReads(s, h) ==
  \/ /\ s.state = "connecting" /\ h = << >> /\ s.sent = 0
     /\ s.gbn.sendSequence = 0 /\ s.gbn.recvSequence = 0
  \/ ChildGot(s, h)

\* What a child is when it has read a packet, and sends.
ChildAfter(a, pkt) == IF Got(a, pkt) THEN ChildRecvMsg(Fed(a, pkt), pkt.msg) ELSE Fed(a, pkt)
ChildAnswers(a, pkt) ==
  RecvPackets(a.gbn, pkt) \cup IF Got(a, pkt) THEN ChildReplies(Fed(a, pkt), pkt.msg) ELSE {}

\* What a child makes of a packet: the request is its client's first word and is
\* answered, the final its second, and every other piece that counts is the next
\* message of the owner of the client.
LEMMA ChildHears ==
  ASSUME NEW a \in SocketType, Sound(a.gbn), Open(a), NEW pkt \in PacketType, ClientSays(pkt),
         NEW k \in Seq(MessageType), ChildReads(a, k),
         a.gbn.recvSequence = 0 => pkt.kind = "data" /\ pkt.msg = ConnectRequest
  PROVE  /\ \A q \in ChildAnswers(a, pkt) \cup Pieces(ChildAfter(a, pkt).gbn) :
              q \in Pieces(a.gbn) \/ ChildSays(q)
         /\ ChildGot(ChildAfter(a, pkt), HeardAfter(a, pkt, k))
<1>1. PICK s : s = Fed(a, pkt)
  OBVIOUS
<1>2. PICK got \in BOOLEAN : got = Got(a, pkt)
  BY DEF Got
<1>3. PICK t : t = ChildAfter(a, pkt)
  OBVIOUS
<1>4. PICK out : out = ChildAnswers(a, pkt)
  OBVIOUS
<1>5. PICK h : h = HeardAfter(a, pkt, k)
  OBVIOUS
<1>6. /\ t = IF got THEN ChildRecvMsg(s, pkt.msg) ELSE s
      /\ out = RecvPackets(a.gbn, pkt) \cup IF got THEN ChildReplies(s, pkt.msg) ELSE {}
      /\ h = IF got /\ pkt.msg.type = "Message" THEN Append(k, pkt.msg) ELSE k
  BY <1>1, <1>2, <1>3, <1>4, <1>5 DEF ChildAfter, ChildAnswers, HeardAfter
<1> SUFFICES /\ \A q \in out \cup Pieces(t.gbn) : q \in Pieces(a.gbn) \/ ChildSays(q)
             /\ ChildGot(t, h)
  BY <1>3, <1>4, <1>5
<1>7. PICK g : g = RecvFromSocket(a.gbn, pkt)
  OBVIOUS
<1>8. PICK acks : acks = RecvPackets(a.gbn, pkt)
  OBVIOUS
<1>9. /\ Sound(g) /\ Pieces(g) \subseteq Pieces(a.gbn)
      /\ \A q \in acks : ChildSays(q)
  BY <1>7, <1>8, ReceiveIsSound DEF ChildSays
<1>10. /\ g.sendSequence = a.gbn.sendSequence
       /\ got => g.recvSequence = a.gbn.recvSequence + 1 /\ pkt.sequence = a.gbn.recvSequence + 1
       /\ ~got => g.recvSequence = a.gbn.recvSequence
  BY <1>2, <1>7, ReceiveCounts DEF Got
<1>11. s \in SocketType /\ s.gbn = g /\ s.state = a.state /\ s.sent = a.sent
  BY <1>1, <1>7, <1>9, WithEndpoint DEF SocketType, Fed
<1>12. a.state \in {"connecting", "connected"}
  BY DEF Open
<1>13. got => pkt.kind = "data"
  BY <1>2 DEF Got
<1>14. CASE a.gbn.recvSequence = 0 /\ a.state = "connecting"
  <2>1. a.gbn.sendSequence = 0 /\ a.sent = 0 /\ k = << >>
    BY <1>14 DEF ChildReads, ChildGot
  <2>2. pkt.kind = "data" /\ pkt.msg = ConnectRequest /\ pkt \in PieceType
    BY <1>14, PacketKinds
  <2>3. pkt.sequence = 1
    <3>1. ConnectRequest = ClientWord(pkt.sequence)
      BY <2>2 DEF ClientSays
    <3>2. pkt.sequence # 1 => ClientWord(pkt.sequence) # ConnectRequest
      BY Kinds DEF ClientWord
    <3> QED
      BY <3>1, <3>2
  <2>4. got
    <3>1. InOrder(a.gbn, pkt)
      BY <1>14, <2>3 DEF InOrder
    <3>2. ~IsSplit(pkt)
      BY <2>2 DEF IsSplit, PieceType
    <3> QED
      BY <1>2, <2>2, <3>1, <3>2 DEF Delivers, Got
  <2>5. PICK msg \in MessageType : msg = ConnectReply
    BY MessageTypes
  <2>6. h = k /\ out = acks \cup Outgoing(s, msg) /\ t = Send(s, msg)
    BY <1>6, <1>8, <1>11, <1>14, <2>2, <2>4, <2>5, Kinds DEF ChildReplies, ChildRecvMsg
  <2>7. Pieces(t.gbn) = Pieces(g) \cup Outgoing(s, msg)
    BY <1>9, <1>11, <1>14, <2>6, SendHolds DEF Open
  <2>8. /\ t.gbn.sendSequence = g.sendSequence + 1 /\ t.gbn.recvSequence = g.recvSequence
        /\ t.sent = s.sent /\ t.state = s.state
        /\ \A p \in Outgoing(s, msg) : p.sequence = g.sendSequence + 1 /\ p.msg = msg
    <3>1. t = Send(s, msg)
      BY <2>6
    <3>2. s \in SocketType /\ s.gbn = g /\ Sound(s.gbn)
      BY <1>9, <1>11
    <3> QED
      BY <3>1, <3>2, SendCounts
  <2>9. \A p \in Outgoing(s, msg) : ChildSays(p)
    BY <1>10, <2>1, <2>5, <2>8 DEF ChildSays, ChildWord
  <2>10. ChildGot(t, h)
    <3>1. /\ t.gbn.sendSequence = 1 /\ t.gbn.recvSequence = 1 /\ t.sent = 0
          /\ t.state = "connecting" /\ h = << >>
      BY <1>10, <1>11, <1>14, <2>1, <2>4, <2>6, <2>8
    <3> QED
      BY <3>1 DEF ChildGot
  <2> QED
    BY <1>9, <2>6, <2>7, <2>9, <2>10
<1>15. CASE ~(a.gbn.recvSequence = 0 /\ a.state = "connecting") /\ ~got
  <2>1. t = s /\ h = k /\ out = acks
    BY <1>6, <1>8, <1>15
  <2>2. AsFar(a, s)
    BY <1>10, <1>11, <1>15 DEF AsFar
  <2>3. ChildGot(a, k)
    BY <1>15 DEF ChildReads
  <2> QED
    BY <1>9, <1>11, <2>1, <2>2, <2>3, GotKept
<1>16. CASE ~(a.gbn.recvSequence = 0 /\ a.state = "connecting") /\ got /\ a.state = "connecting"
  <2>1. a.gbn.sendSequence = 1 /\ a.gbn.recvSequence = 1 /\ a.sent = 0 /\ k = << >>
    BY <1>16 DEF ChildReads, ChildGot
  <2>2. pkt.msg = ConnectFinal
    <3>1. pkt.kind = "data" /\ pkt.sequence = 2
      BY <1>10, <1>13, <1>16, <2>1
    <3> QED
      BY <3>1 DEF ClientSays, ClientWord
  <2>3. h = k /\ out = acks /\ t = Connected(s)
    BY <1>6, <1>8, <1>11, <1>16, <2>2, Kinds DEF ChildReplies, ChildRecvMsg
  <2>4. /\ t.gbn.sendSequence = g.sendSequence /\ t.gbn.recvSequence = g.recvSequence
        /\ t.sent = s.sent /\ t.state = "connected" /\ Pieces(t.gbn) = Pieces(g)
    BY <1>9, <1>11, <2>3, ConnectedCounts, ConnectedHolds
  <2>5. ChildGot(t, h)
    <3>1. t.gbn.sendSequence = 1 /\ t.gbn.recvSequence = 2 /\ t.sent = 0 /\ h = << >>
      BY <1>10, <1>11, <1>16, <2>1, <2>3, <2>4
    <3>2. Len(h) = 0
      BY <3>1
    <3> QED
      BY <2>4, <3>1, <3>2 DEF ChildGot
  <2> QED
    BY <1>9, <2>3, <2>4, <2>5
<1>17. CASE got /\ a.state = "connected"
  <2>1. /\ a.gbn.sendSequence = a.sent + 1 /\ a.gbn.recvSequence = Len(k) + 2
        /\ \A i \in 1 .. Len(k) : k[i] = Message(0, i)
    BY <1>17 DEF ChildReads, ChildGot
  <2>2. PICK l \in Nat : l = Len(k)
    OBVIOUS
  <2>3. pkt.msg = Message(0, l + 1)
    <3>1. pkt.kind = "data" /\ pkt.sequence = l + 3
      BY <1>10, <1>13, <1>17, <2>1, <2>2
    <3>2. ClientWord(l + 3) = Message(0, l + 1)
      BY <2>2 DEF ClientWord
    <3> QED
      BY <3>1, <3>2 DEF ClientSays
  <2>4. pkt.msg \in MessageType /\ pkt.msg.type = "Message"
    <3>1. pkt \in PieceType
      BY <1>13, <1>17, PacketKinds
    <3> QED
      BY <2>3, <3>1, Kinds DEF PieceType
  <2>5. h = Append(k, Message(0, Len(k) + 1))
    BY <1>6, <1>17, <2>2, <2>3, <2>4
  <2>6. Len(h) = Len(k) + 1 /\ \A i \in 1 .. Len(h) : h[i] = Message(0, i)
    BY <2>1, <2>2, <2>3, <2>4, <2>5, HeardNext
  <2>7. t = s /\ out = acks
    BY <1>6, <1>8, <1>11, <1>17 DEF ChildRecvMsg, ChildReplies
  <2>8. s.gbn.sendSequence = s.sent + 1 /\ s.gbn.recvSequence = Len(h) + 2
    BY <1>10, <1>11, <1>17, <2>1, <2>2, <2>6
  <2>9. ChildGot(t, h)
    BY <1>11, <1>17, <2>6, <2>7, <2>8 DEF ChildGot
  <2> QED
    BY <1>9, <1>11, <2>7, <2>9
<1> QED
  BY <1>12, <1>14, <1>15, <1>16, <1>17

\* A child, there already or just opened, reads a packet.
LEMMA ChildReceiveStream ==
  ASSUME UdpInv, StreamInv, NEW c \in Clients, NEW a, SocketHolds(a), Open(a),
         NEW pkt \in toServer[c], ChildReceive(c, a, pkt),
         NEW rest \in SUBSET toServer[c], toServer' = [toServer EXCEPT ![c] = rest],
         NEW o \in Nat, opened[c] <= o, o # 0, opened' = [opened EXCEPT ![c] = o],
         UNCHANGED <<server, client>>,
         (o <= 1) => /\ ChildReads(a, heard[c].child)
                     /\ Pieces(a.gbn) \subseteq Pieces(child[c].gbn)
                     /\ a.gbn.recvSequence = 0 => pkt.kind = "data" /\ pkt.msg = ConnectRequest
  PROVE  StreamInv'
<1>1. pkt \in PacketType /\ opened[c] \in Nat
  BY AtClient
<1>2. a \in SocketType /\ Sound(a.gbn)
  BY DEF SocketHolds
<1>3. PICK k \in Seq(MessageType) : k = heard[c].child
  BY AtClient
<1>4. CASE pkt = Disconnect
  <2>1. PICK t : t = IF a.state = "connected" THEN Closed(a) ELSE a
    OBVIOUS
  <2>2. PICK out : out = Farewell(a)
    OBVIOUS
  <2>3. /\ t.state = "disconnected" \/ AsFar(a, t)
        /\ Pieces(t.gbn) \subseteq Pieces(a.gbn) \/ \A q \in Pieces(t.gbn) : q.kind # "data"
        /\ \A q \in out : q.kind # "data"
    BY <1>2, <2>1, <2>2, FarewellSaysNothing DEF AsFar
  <2>4. child' = [child EXCEPT ![c] = t] /\ ToClient(c, out)
    BY <1>4, <2>1, <2>2 DEF ChildReceive
  <2>5. heard' = [heard EXCEPT ![c].child = k]
    BY <1>3, <1>4, Unchanged DEF ChildReceive
  <2>6. ASSUME o <= 1
        PROVE  /\ \A q \in out \cup Pieces(t.gbn) : q \in Pieces(child[c].gbn) \/ ChildSays(q)
               /\ ChildGot(t, k)
    <3>1. a.gbn.recvSequence # 0
      BY <1>4, <2>6 DEF Disconnect, Raw
    <3>2. ChildGot(a, k)
      BY <1>3, <2>6, <3>1 DEF ChildReads
    <3>3. \A q \in out \cup Pieces(t.gbn) : q \in Pieces(child[c].gbn) \/ ChildSays(q)
      BY <2>3, <2>6 DEF ChildSays
    <3> QED
      BY <2>3, <3>2, <3>3, GotKept
  <2> QED
    BY <2>4, <2>5, <2>6, ChildTalk
<1>5. CASE pkt # Disconnect
  <2>1. PICK t : t = ChildAfter(a, pkt)
    OBVIOUS
  <2>2. PICK out : out = ChildAnswers(a, pkt)
    OBVIOUS
  <2>3. PICK h : h = HeardAfter(a, pkt, k)
    OBVIOUS
  <2>4. Fed(a, pkt) = [a EXCEPT !.gbn = RecvFromSocket(@, pkt)]
    BY <1>2 DEF SocketType, Fed
  <2>5. child' = [child EXCEPT ![c] = t]
    BY <1>5, <2>1, <2>4 DEF ChildReceive, ChildAfter, Got
  <2>6. ToClient(c, out)
    BY <1>5, <2>2, <2>4 DEF ChildReceive, ChildAnswers, Got
  <2>7. heard' = [heard EXCEPT ![c].child = h]
    BY <1>3, <1>5, <2>3 DEF ChildReceive, UdpInv, HeardAfter, Got
  <2>8. ASSUME o <= 1
        PROVE  /\ \A q \in out \cup Pieces(t.gbn) : q \in Pieces(child[c].gbn) \/ ChildSays(q)
               /\ ChildGot(t, h)
    <3>1. ClientSays(pkt)
      <4>1. opened[c] <= 1
        BY <1>1, <2>8
      <4> QED
        BY <4>1, AtStream
    <3>2. ChildReads(a, k) /\ Pieces(a.gbn) \subseteq Pieces(child[c].gbn)
      BY <1>3, <2>8
    <3>3. a.gbn.recvSequence = 0 => pkt.kind = "data" /\ pkt.msg = ConnectRequest
      BY <2>8
    <3>4. /\ \A q \in out \cup Pieces(t.gbn) : q \in Pieces(a.gbn) \/ ChildSays(q)
          /\ ChildGot(t, h)
      BY <1>1, <1>2, <2>1, <2>2, <2>3, <3>1, <3>2, <3>3, ChildHears
    <3> QED
      BY <3>2, <3>4
  <2> QED
    BY <2>5, <2>6, <2>7, <2>8, ChildTalk
<1> QED
  BY <1>4, <1>5

\* The server reads a packet for a child, opens one, or ignores it.
LEMMA ServerReceiveStream ==
  ASSUME UdpInv, StreamInv, NEW c \in Clients, NEW pkt \in toServer[c], ServerReceive(c, pkt)
  PROVE  StreamInv'
<1>1. PICK rest \in SUBSET toServer[c] : rest = Taken(toServer[c], pkt)
  BY DEF Taken
<1>2. toServer' = [toServer EXCEPT ![c] = rest] /\ UNCHANGED <<server, client>>
  BY <1>1 DEF ServerReceive
<1>3. PICK n \in Nat : n = opened[c]
  BY AtClient, ConnectionAssumption
<1>4. CASE Open(child[c])
  <2>1. ChildReceive(c, child[c], pkt) /\ UNCHANGED opened
    BY <1>4 DEF ServerReceive
  <2>2. opened' = [opened EXCEPT ![c] = n]
    BY <1>3, <2>1, Unchanged
  <2>3. PICK a : a = child[c]
    OBVIOUS
  <2>4. SocketHolds(a) /\ Open(a)
    BY <1>4, <2>3, AtClient
  <2>5. n # 0
    <3> SUFFICES ASSUME n = 0 PROVE FALSE
      OBVIOUS
    <3>1. opened[c] <= 1 /\ opened[c] = 0
      BY <1>3
    <3>2. child[c].state = "none"
      BY <3>1, AtStream
    <3> QED
      BY <1>4, <3>2 DEF Open
  <2>6. (n <= 1) => /\ ChildReads(a, heard[c].child)
                    /\ Pieces(a.gbn) \subseteq Pieces(child[c].gbn)
                    /\ a.gbn.recvSequence # 0
    <3> SUFFICES ASSUME n <= 1
                 PROVE  ChildReads(a, heard[c].child) /\ a.gbn.recvSequence # 0
      BY <2>3
    <3>1. ChildGot(a, heard[c].child)
      BY <1>3, <2>3, AtStream
    <3>2. Len(heard[c].child) \in Nat
      BY AtClient
    <3>3. a.gbn.recvSequence # 0
      BY <2>4, <3>1, <3>2 DEF ChildGot, Open
    <3> QED
      BY <3>1, <3>3 DEF ChildReads
  <2>7. opened[c] <= n
    BY <1>3
  <2> QED
    BY <1>2, <2>1, <2>2, <2>3, <2>4, <2>5, <2>6, <2>7, ChildReceiveStream
<1>5. CASE ~Open(child[c]) /\ pkt.kind = "data" /\ pkt.msg = ConnectRequest
  <2>1. PICK s : s = Socket("connecting", NewEndpoint(TRUE))
    OBVIOUS
  <2>2. SocketHolds(s) /\ s.state = "connecting" /\ Open(s) /\ Pieces(s.gbn) = {}
    BY <2>1, FreshSocketHolds DEF Open
  <2>3. s.gbn.sendSequence = 0 /\ s.gbn.recvSequence = 0 /\ s.sent = 0
    BY <2>1 DEF Socket, NewEndpoint
  <2>4. opened' = [opened EXCEPT ![c] = @ + 1] /\ ChildReceive(c, s, pkt)
    BY <1>5, <2>1 DEF ServerReceive
  <2>5. PICK o \in Nat : o = n + 1
    OBVIOUS
  <2>6. opened' = [opened EXCEPT ![c] = o] /\ opened[c] <= o /\ o # 0
    BY <1>3, <2>4, <2>5
  <2>7. (o <= 1) => ChildReads(s, heard[c].child)
    <3> SUFFICES ASSUME o <= 1 PROVE ChildReads(s, heard[c].child)
      OBVIOUS
    <3>1. opened[c] <= 1 /\ opened[c] = 0
      BY <1>3, <2>5
    <3>2. heard[c].child = << >>
      BY <3>1, AtStream
    <3> QED
      BY <2>2, <2>3, <3>2 DEF ChildReads
  <2>8. Pieces(s.gbn) \subseteq Pieces(child[c].gbn)
    BY <2>2
  <2> QED
    BY <1>2, <1>5, <2>2, <2>4, <2>6, <2>7, <2>8, ChildReceiveStream
<1>6. CASE ~Open(child[c]) /\ ~(pkt.kind = "data" /\ pkt.msg = ConnectRequest)
  <2>1. UNCHANGED <<child, toClient, opened, heard>>
    BY <1>6 DEF ServerReceive
  <2>2. \A d \in Clients : toServer'[d] \subseteq toServer[d]
    BY <1>2 DEF UdpInv
  <2> QED
    BY <1>2, <2>1, <2>2, LessUnderWay
<1> QED
  BY <1>4, <1>5, <1>6
\* Every step keeps the streams.
LEMMA StreamStep == UdpInv /\ StreamInv /\ [Next]_vars => StreamInv'
<1> SUFFICES ASSUME UdpInv, StreamInv, [Next]_vars PROVE StreamInv'
  OBVIOUS
<1>1. CASE ServerDisconnect
  <2>1. UNCHANGED <<client, child, toServer, opened, heard>>
    BY <1>1 DEF ServerDisconnect
  <2>2. Disconnect.kind # "data"
    BY DEF Disconnect, Raw
  <2>3. \A c \in Clients : toClient'[c] \subseteq toClient[c] \cup {Disconnect}
    BY <1>1 DEF ServerDisconnect
  <2> QED
    BY <2>1, <2>2, <2>3, LessUnderWay
<1>2. ASSUME NEW c \in Clients, ClientNext(c) PROVE StreamInv'
  BY <1>2, ConnectStream, ClientExpireStream, ClientSendStream, ClientSendRawStream,
     ClientDisconnectStream, ClientReceiveStream DEF ClientNext
<1>3. ASSUME NEW c \in Clients, ChildNext(c) PROVE StreamInv'
  BY <1>3, ChildExpireStream, ChildSendStream, ChildSendRawStream, ChildDisconnectStream,
     ServerReceiveStream DEF ChildNext
<1>4. ASSUME NEW c \in Clients, Lose(c) PROVE StreamInv'
  <2>1. UNCHANGED <<client, child, opened, heard>>
    BY <1>4 DEF Lose, sockets
  <2>2. \A d \in Clients : toServer'[d] \subseteq toServer[d] /\ toClient'[d] \subseteq toClient[d]
    BY <1>4 DEF Lose, UdpInv
  <2> QED
    BY <2>1, <2>2, LessUnderWay
<1>5. CASE UNCHANGED vars
  BY <1>5, LessUnderWay DEF vars
<1> QED
  BY <1>1, <1>2, <1>3, <1>4, <1>5 DEF Next

\* The streams are empty at the start.
LEMMA StreamInit == Init => StreamInv
<1> SUFFICES ASSUME Init, NEW c \in Clients PROVE StreamOf(c)
  BY DEF StreamInv
<1>1. /\ client[c] = NoSocket /\ child[c] = NoSocket /\ toServer[c] = {} /\ toClient[c] = {}
      /\ heard[c].client = << >> /\ heard[c].child = << >>
  BY DEF Init
<1>2. NoSocket.state = "none" /\ Pieces(NoSocket.gbn) = {}
  BY FreshSocketHolds DEF NoSocket
<1>3. Len(<< >>) = 0
  OBVIOUS
<1>4. ClientGot(NoSocket, << >>) /\ ChildGot(NoSocket, << >>)
  BY <1>2, <1>3 DEF ClientGot, ChildGot
<1> QED
  BY <1>1, <1>2, <1>4 DEF StreamOf
-----------------------------------------------------------------------------
(* The theorems.                                                           *)

\* The invariant holds at the start.
LEMMA UdpInit == Init => UdpInv
<1> SUFFICES ASSUME Init PROVE UdpInv
  OBVIOUS
<1>1. SocketHolds(NoSocket) /\ Pieces(NoSocket.gbn) = {} /\ NoSocket.state = "none"
  BY FreshSocketHolds DEF NoSocket
<1>2. NoSocket \in SocketType
  BY <1>1 DEF SocketHolds
<1>3. << >> \in Seq(MessageType)
  OBVIOUS
<1>4. 0 \in 0 .. MaxChildren
  BY ConnectionAssumption
<1>5. /\ client \in [Clients -> SocketType] /\ child \in [Clients -> SocketType]
      /\ \A c \in Clients : client[c] = NoSocket /\ child[c] = NoSocket /\ toServer[c] = {}
  BY <1>2 DEF Init
<1>6. /\ toServer \in [Clients -> SUBSET PacketType] /\ toClient \in [Clients -> SUBSET PacketType]
      /\ opened \in [Clients -> 0 .. MaxChildren] /\ server \in {"listening", "closed"}
  BY <1>4 DEF Init
<1>7. heard \in [Clients -> [client : Seq(MessageType), child : Seq(MessageType)]]
  BY <1>3 DEF Init
<1>8. \A c \in Clients : HandshakeOf(c)
  BY <1>1, <1>5 DEF HandshakeOf
<1> QED
  BY <1>1, <1>5, <1>6, <1>7, <1>8 DEF UdpInv

\* Every step keeps it.
LEMMA UdpStep == UdpInv /\ [Next]_vars => UdpInv'
<1> SUFFICES ASSUME UdpInv, [Next]_vars PROVE UdpInv'
  OBVIOUS
<1>1. CASE ServerDisconnect
  BY <1>1, ServerDisconnectInv
<1>2. ASSUME NEW c \in Clients, ClientNext(c) PROVE UdpInv'
  BY <1>2, ConnectInv, ClientExpireInv, ClientSendInv, ClientSendRawInv, ClientDisconnectInv,
     ClientReceiveInv DEF ClientNext
<1>3. ASSUME NEW c \in Clients, ChildNext(c) PROVE UdpInv'
  BY <1>3, ChildExpireInv, ChildSendInv, ChildSendRawInv, ChildDisconnectInv, ServerReceiveInv
     DEF ChildNext
<1>4. ASSUME NEW c \in Clients, Lose(c) PROVE UdpInv'
  BY <1>4, LoseInv
<1>5. CASE UNCHANGED vars
  BY <1>5 DEF vars, UdpInv, HandshakeOf
<1> QED
  BY <1>1, <1>2, <1>3, <1>4, <1>5 DEF Next

\* It is an invariant.
LEMMA UdpInvariant == Spec => []UdpInv
  BY UdpInit, UdpStep, PTL DEF Spec

\* Sockets, endpoints and packets keep their shape (UdpSocket.hpp, GoBackN.hpp), and the
\* resend cursor points into the send list, however many connections and messages.
THEOREM UdpTypeCorrect == Spec => []TypeOK
<1>1. UdpInv => TypeOK
  BY DEF UdpInv, TypeOK, SocketHolds, Sound
<1> QED
  BY <1>1, UdpInvariant, PTL

\* disconnect() silences a socket for good (UdpSocket.cpp:133): nothing it sent before
\* is resent, and its timer does not run.
THEOREM ClosedStaysSilent == Spec => []ClosedIsSilent
<1>1. UdpInv => ClosedIsSilent
  BY DEF UdpInv, ClosedIsSilent, SocketHolds, Quiet
<1> QED
  BY <1>1, UdpInvariant, PTL

\* Whatever the network loses, repeats and reorders, a child is accepted only if its
\* client has got the reply and is, or was, connected (UdpSocket.cpp:334-352).
THEOREM NoneAcceptedAlone == Spec => []AcceptedWasConnected
<1>1. UdpInv => AcceptedWasConnected
  BY DEF UdpInv, AcceptedWasConnected, HandshakeOf, Through
<1> QED
  BY <1>1, UdpInvariant, PTL

\* However many messages, and whatever the network loses, repeats and reorders, the owners
\* of a client and of its only child read each other's messages in order, none missing and
\* none twice, the handshake's among the same numbers (GoBackN.cpp:182-192, UdpSocket.cpp:317-371).
THEOREM StreamsStayIntact == Spec => []StreamsIntact
<1>1. UdpInv /\ StreamInv => StreamsIntact
  BY DEF StreamInv, StreamOf, StreamsIntact, ClientGot, ChildGot
<1>2. Init => UdpInv /\ StreamInv
  BY UdpInit, StreamInit
<1>3. (UdpInv /\ StreamInv) /\ [Next]_vars => (UdpInv /\ StreamInv)'
  BY UdpStep, StreamStep
<1> QED
  BY <1>1, <1>2, <1>3, PTL DEF Spec
=============================================================================

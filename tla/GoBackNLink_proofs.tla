------------------------- MODULE GoBackNLink_proofs -------------------------
(***************************************************************************)
(* Proofs of the safety of GoBackNLink for every number of messages and    *)
(* pieces, every keep-alive setting and every number of duplicates.        *)
(*                                                                         *)
(* First what the operators of module GoBackN do to an endpoint, then the  *)
(* inductive invariant, one lemma for each kind of step.                   *)
(***************************************************************************)
EXTENDS GoBackNLink, SequenceTheorems, TLAPS

-----------------------------------------------------------------------------
(* The operators on one endpoint.                                          *)

\* A fresh endpoint is an endpoint.
LEMMA NewEndpointType == \A k \in BOOLEAN : NewEndpoint(k) \in EndpointType
  BY KeepAliveTicksAssumption DEF NewEndpoint, EndpointType

\* refreshKeepAlive sets the countdown.
LEMMA RefreshFields ==
  ASSUME NEW g \in EndpointType
  PROVE  LET h == RefreshKeepAlive(g) IN
         /\ h \in EndpointType
         /\ h.sendSequence = g.sendSequence
         /\ h.recvSequence = g.recvSequence
         /\ h.ackSequence = g.ackSequence
         /\ h.sendList = g.sendList
         /\ h.sendListPos = g.sendListPos
         /\ h.recvBuffer = g.recvBuffer
         /\ h.sendTimer = g.sendTimer
  BY KeepAliveTicksAssumption DEF RefreshKeepAlive, EndpointType

\* checkAndStartTimer starts the timer.
LEMMA StartFields ==
  ASSUME NEW g \in EndpointType
  PROVE  LET h == CheckAndStartTimer(g) IN
         /\ h \in EndpointType
         /\ h.sendSequence = g.sendSequence
         /\ h.recvSequence = g.recvSequence
         /\ h.ackSequence = g.ackSequence
         /\ h.sendList = g.sendList
         /\ h.sendListPos = g.sendListPos
         /\ h.recvBuffer = g.recvBuffer
         /\ h.sendTimer = "started"
  BY DEF CheckAndStartTimer, EndpointType

\* What every packet does before it is looked at: it may start the timer, and
\* never stops it.
LEMMA HeardFields ==
  ASSUME NEW g \in EndpointType
  PROVE  /\ Heard(g) \in EndpointType
         /\ Heard(g).sendSequence = g.sendSequence
         /\ Heard(g).recvSequence = g.recvSequence
         /\ Heard(g).ackSequence = g.ackSequence
         /\ Heard(g).sendList = g.sendList
         /\ Heard(g).sendListPos = g.sendListPos
         /\ Heard(g).recvBuffer = g.recvBuffer
         /\ g.sendTimer = "started" => Heard(g).sendTimer = "started"
<1> DEFINE r == RefreshKeepAlive(g)
<1>1. r \in EndpointType
  BY RefreshFields
<1>2. CheckAndStartTimer(r) \in EndpointType
  BY <1>1, StartFields
<1> QED
  BY <1>1, <1>2, RefreshFields, StartFields DEF Heard

\* sendViaGoBackN numbers its pieces from the last sequence on and appends them.
LEMMA SendFields ==
  ASSUME NEW g \in EndpointType, NEW msg \in Nat, NEW count \in Nat \ {0}
  PROVE  LET h == SendViaGoBackN(g, msg, count)
             new == NewPieces(g, msg, count)
         IN  /\ new \in Seq(PieceType)
             /\ Len(new) = count
             /\ \A i \in 1 .. count : new[i] = Piece(g.sendSequence + i, msg, i - 1, count)
             /\ h \in EndpointType
             /\ h.sendSequence = g.sendSequence + count
             /\ h.sendList = g.sendList \o new
             /\ h.recvSequence = g.recvSequence
             /\ h.ackSequence = g.ackSequence
             /\ h.sendListPos = g.sendListPos
             /\ h.recvBuffer = g.recvBuffer
             /\ h.sendTimer = "started"
<1> DEFINE new == NewPieces(g, msg, count)
<1>1. \A i \in 1 .. count : Piece(g.sendSequence + i, msg, i - 1, count) \in PieceType
  BY DEF Piece, PieceType, EndpointType
<1>2. /\ new \in Seq(PieceType) /\ Len(new) = count
      /\ \A i \in 1 .. count : new[i] = Piece(g.sendSequence + i, msg, i - 1, count)
  BY <1>1 DEF NewPieces
<1>3. g.sendList \o new \in Seq(PieceType)
  BY <1>2 DEF EndpointType
<1> DEFINE longer == [g EXCEPT !.sendSequence = g.sendSequence + count,
                               !.sendList = g.sendList \o new]
<1>4. SendViaGoBackN(g, msg, count) = CheckAndStartTimer(longer)
  BY DEF SendViaGoBackN, EndpointType
<1>5. g.sendSequence + count \in Nat
  BY DEF EndpointType
<1> HIDE DEF new
<1>6. /\ longer \in EndpointType
      /\ longer.sendSequence = g.sendSequence + count
      /\ longer.sendList = g.sendList \o new
      /\ longer.recvSequence = g.recvSequence
      /\ longer.ackSequence = g.ackSequence
      /\ longer.sendListPos = g.sendListPos
      /\ longer.recvBuffer = g.recvBuffer
  BY <1>3, <1>5 DEF EndpointType
<1> HIDE DEF longer
<1> QED
  BY <1>2, <1>4, <1>6, StartFields DEF new

\* timerExpired changes the cursor, the countdown and the timer, and resends
\* an element of the list; it stops the timer only if nothing is to be resent
\* or the connection times out.
LEMMA ExpireFields ==
  ASSUME NEW g \in EndpointType, g.sendListPos \in 0 .. Len(g.sendList)
  PROVE  LET h == TimerExpired(g) IN
         /\ h \in EndpointType
         /\ h.sendListPos \in 0 .. Len(h.sendList)
         /\ h.sendSequence = g.sendSequence
         /\ h.recvSequence = g.recvSequence
         /\ h.ackSequence = g.ackSequence
         /\ h.sendList = g.sendList
         /\ h.recvBuffer = g.recvBuffer
         /\ h.sendTimer = "started" \/ g.sendList = << >> \/ TimesOut(g)
         /\ TimesOut(g) \in BOOLEAN
<1>1. g.sendList # << >> => Len(g.sendList) >= 1
  BY DEF EndpointType
<1> DEFINE pos == IF g.sendList = << >> THEN g.sendListPos
                  ELSE IF ResendPos(g) = Len(g.sendList) THEN 0 ELSE ResendPos(g) + 1
           skip == g.skipNextKeepAlive /\ (g.sendList # << >> \/ ~g.keepAlive)
           count == IF g.keepAlive /\ g.countDown > 0 THEN g.countDown - 1 ELSE g.countDown
           timer == IF Idle(g) \/ TimesOut(g) THEN "stopped" ELSE "started"
<1>2. pos \in 0 .. Len(g.sendList)
  <2>1. Len(g.sendList) \in Nat
    BY DEF EndpointType
  <2>2. CASE g.sendList = << >>
    BY <2>2
  <2>3. CASE g.sendList # << >>
    <3>1. ResendPos(g) \in 1 .. Len(g.sendList)
      BY <1>1, <2>1, <2>3 DEF ResendPos
    <3> QED BY <2>1, <2>3, <3>1
  <2> QED BY <2>2, <2>3
<1>3. count \in 0 .. KeepAliveTicks
  BY KeepAliveTicksAssumption DEF EndpointType
<1>4. skip \in BOOLEAN /\ timer \in {"stopped", "started"}
  BY DEF Idle, TimesOut
<1>5. TimerExpired(g) = [g EXCEPT !.sendListPos = pos, !.skipNextKeepAlive = skip,
                                  !.countDown = count, !.sendTimer = timer]
  BY DEF TimerExpired, EndpointType
<1>6. timer = "started" \/ g.sendList = << >> \/ TimesOut(g)
  BY DEF Idle
<1>7. TimesOut(g) \in BOOLEAN
  BY DEF TimesOut
<1> HIDE DEF pos, skip, count, timer
<1>8. pos \in Nat
  BY <1>2 DEF EndpointType
<1> QED
  BY <1>2, <1>3, <1>4, <1>5, <1>6, <1>7, <1>8 DEF EndpointType

\* What timerExpired puts on the wire.
LEMMA TimerPacketsFrom ==
  ASSUME NEW g \in EndpointType, g.sendListPos \in 0 .. Len(g.sendList),
         NEW pkt \in TimerPackets(g)
  PROVE  pkt = NullMsg \/ \E i \in 1 .. Len(g.sendList) : pkt = g.sendList[i]
<1>1. CASE g.sendList # << >>
  <2>1. Len(g.sendList) >= 1
    BY <1>1 DEF EndpointType
  <2> QED
    BY <1>1, <2>1 DEF TimerPackets, ResendPos
<1>2. CASE g.sendList = << >>
  BY <1>2 DEF TimerPackets
<1> QED BY <1>1, <1>2

\* On a list numbered base+1, base+2, ... the loop of the AckSequence branch
\* pops the elements up to the acknowledged one and no other.
LEMMA PoppedPrefix ==
  ASSUME NEW list \in Seq(PieceType), NEW base \in Nat, NEW n \in Nat,
         \A i \in 1 .. Len(list) : list[i].sequence = base + i
  PROVE  LET k == Popped(list, n) IN
         /\ k \in 0 .. Len(list)
         /\ k > 0 => base + k <= n
<1> DEFINE k == IF n <= base THEN 0
                ELSE IF n - base >= Len(list) THEN Len(list) ELSE n - base
           Good(j) == /\ \A i \in 1 .. j : list[i].sequence <= n
                      /\ j < Len(list) => list[j + 1].sequence > n
<1>1. k \in 0 .. Len(list)
  OBVIOUS
<1>2. Good(k)
  <2>1. \A i \in 1 .. k : list[i].sequence <= n
    OBVIOUS
  <2>2. k < Len(list) => list[k + 1].sequence > n
    OBVIOUS
  <2> QED BY <2>1, <2>2
<1>3. Popped(list, n) = CHOOSE j \in 0 .. Len(list) : Good(j)
  BY DEF Popped
<1> HIDE DEF k
<1>4. \E j \in 0 .. Len(list) : Good(j)
  BY <1>1, <1>2
<1>5. Popped(list, n) \in 0 .. Len(list) /\ Good(Popped(list, n))
  BY <1>3, <1>4
<1> QED BY <1>5

\* Receiving an AckSequence takes the popped prefix off the send list.
LEMMA RecvAckFields ==
  ASSUME NEW g \in EndpointType, NEW n \in Nat, Popped(g.sendList, n) \in 0 .. Len(g.sendList)
  PROVE  LET h == RecvAck(g, n)
             k == Popped(g.sendList, n)
         IN  /\ h \in EndpointType
             /\ h.sendListPos = 0
             /\ h.sendSequence = g.sendSequence
             /\ h.recvSequence = g.recvSequence
             /\ h.ackSequence >= g.ackSequence
             /\ h.recvBuffer = g.recvBuffer
             /\ Len(h.sendList) = Len(g.sendList) - k
             /\ \A i \in 1 .. Len(h.sendList) : h.sendList[i] = g.sendList[k + i]
             /\ g.sendTimer = "started" => h.sendTimer = "started"
<1> DEFINE k == Popped(g.sendList, n)
           rest == SubSeq(g.sendList, k + 1, Len(g.sendList))
<1>1. k \in 0 .. Len(g.sendList)
  OBVIOUS
<1> HIDE DEF k
<1>2. g.sendList \in Seq(PieceType)
  BY DEF EndpointType
<1>3. /\ rest \in Seq(PieceType)
      /\ Len(rest) = Len(g.sendList) - k
      /\ \A i \in 1 .. Len(rest) : rest[i] = g.sendList[k + i]
  BY <1>1, <1>2
<1>4. RecvAck(g, n) =
        [Heard(g) EXCEPT !.ackSequence = IF n > g.ackSequence THEN n ELSE g.ackSequence,
                         !.sendList = rest, !.sendListPos = 0]
  BY HeardFields DEF RecvAck, k, EndpointType
<1>5. PICK h \in EndpointType : h = Heard(g)
  BY HeardFields
<1>6. PICK r \in Seq(PieceType) : r = rest
  BY <1>3
<1>7. PICK ack \in Nat : ack = IF n > g.ackSequence THEN n ELSE g.ackSequence
  BY DEF EndpointType
<1>8. PICK f : f = RecvAck(g, n)
  OBVIOUS
<1>9. f = [h EXCEPT !.ackSequence = ack, !.sendList = r, !.sendListPos = 0]
  BY <1>4, <1>5, <1>6, <1>7, <1>8
<1> HIDE DEF rest
<1>10. f \in EndpointType
  BY <1>9 DEF EndpointType
<1>11. /\ f.sendListPos = 0
       /\ f.sendSequence = h.sendSequence
       /\ f.recvSequence = h.recvSequence
       /\ f.recvBuffer = h.recvBuffer
       /\ f.sendTimer = h.sendTimer
       /\ f.ackSequence = ack
       /\ f.sendList = r
  BY <1>9 DEF EndpointType
<1>12. ack >= g.ackSequence
  BY <1>7 DEF EndpointType
<1> QED
  BY <1>3, <1>5, <1>6, <1>8, <1>10, <1>11, <1>12, HeardFields DEF k

\* Receiving a piece advances recvSequence exactly when it is the next one.
LEMMA RecvDataFields ==
  ASSUME NEW g \in EndpointType, NEW p \in PieceType
  PROVE  LET h == RecvData(g, p) IN
         /\ h \in EndpointType
         /\ h.sendSequence = g.sendSequence
         /\ h.ackSequence = g.ackSequence
         /\ h.sendList = g.sendList
         /\ h.sendListPos = g.sendListPos
         /\ g.sendTimer = "started" => h.sendTimer = "started"
         /\ h.recvSequence = IF InOrder(g, p) THEN g.recvSequence + 1 ELSE g.recvSequence
         /\ h.recvBuffer =
              IF InOrder(g, p) /\ IsSplit(p)
                THEN IF IsLastMessage(p) THEN << >> ELSE Append(g.recvBuffer, p)
                ELSE g.recvBuffer
<1>1. Append(g.recvBuffer, p) \in Seq(PieceType) /\ << >> \in Seq(PieceType)
  BY DEF EndpointType
<1>2. CASE ~InOrder(g, p)
  BY <1>2, HeardFields DEF RecvData
<1>3. CASE InOrder(g, p)
  <2> DEFINE buffer == IF IsSplit(p)
                         THEN IF IsLastMessage(p) THEN << >> ELSE Append(g.recvBuffer, p)
                         ELSE g.recvBuffer
  <2>1. buffer \in Seq(PieceType)
    BY <1>1 DEF EndpointType
  <2>2. RecvData(g, p) = [Heard(g) EXCEPT !.recvSequence = g.recvSequence + 1,
                                          !.recvBuffer = buffer]
    BY <1>3, HeardFields DEF RecvData, EndpointType
  <2> DEFINE h == Heard(g)
  <2>3. /\ h \in EndpointType
        /\ h.sendSequence = g.sendSequence
        /\ h.ackSequence = g.ackSequence
        /\ h.sendList = g.sendList
        /\ h.sendListPos = g.sendListPos
        /\ g.sendTimer = "started" => h.sendTimer = "started"
        /\ g.recvSequence + 1 \in Nat
    BY HeardFields DEF EndpointType
  <2> HIDE DEF h, buffer
  <2>4. /\ RecvData(g, p) \in EndpointType
        /\ RecvData(g, p).recvBuffer = buffer
        /\ RecvData(g, p).recvSequence = g.recvSequence + 1
        /\ RecvData(g, p).sendSequence = h.sendSequence
        /\ RecvData(g, p).ackSequence = h.ackSequence
        /\ RecvData(g, p).sendList = h.sendList
        /\ RecvData(g, p).sendListPos = h.sendListPos
        /\ RecvData(g, p).sendTimer = h.sendTimer
    BY <2>1, <2>2, <2>3 DEF EndpointType, h
  <2> QED BY <1>3, <2>3, <2>4 DEF buffer
<1> QED BY <1>2, <1>3

-----------------------------------------------------------------------------
(* The parts of the invariant, as facts about a history of pieces.         *)

\* What appending to a sequence of pieces does.
LEMMA AppendingPieces ==
  ASSUME NEW l \in Seq(PieceType), NEW new \in Seq(PieceType)
  PROVE  /\ l \o new \in Seq(PieceType)
         /\ Len(l \o new) = Len(l) + Len(new)
         /\ \A i \in 1 .. Len(l) : (l \o new)[i] = l[i]
         /\ \A i \in 1 .. Len(new) : (l \o new)[Len(l) + i] = new[i]
<1>1. Len(l) \in Nat /\ Len(new) \in Nat
  OBVIOUS
<1>2. /\ l \o new \in Seq(PieceType)
      /\ Len(l \o new) = Len(l) + Len(new)
      /\ \A i \in 1 .. Len(l) + Len(new) :
           (l \o new)[i] = IF i <= Len(l) THEN l[i] ELSE new[i - Len(l)]
  BY ConcatProperties
<1>3. \A i \in 1 .. Len(l) : (l \o new)[i] = l[i]
  BY <1>1, <1>2
<1>4. ASSUME NEW i \in 1 .. Len(new)
      PROVE  (l \o new)[Len(l) + i] = new[i]
  <2>1. Len(l) + i \in 1 .. Len(l) + Len(new) /\ ~(Len(l) + i <= Len(l))
        /\ Len(l) + i - Len(l) = i
    BY <1>1
  <2> QED BY <1>2, <2>1
<1> QED BY <1>2, <1>3, <1>4

\* The history m after sending message n + 1 in count pieces.
LEMMA LogGrows ==
  ASSUME NEW l \in Seq(PieceType), NEW m \in Seq(PieceType), NEW n \in Nat,
         NEW count \in Nat \ {0}, NEW k \in Nat, k = Len(l), Len(m) = k + count,
         \A i \in 1 .. k : m[i] = l[i],
         \A i \in 1 .. count : /\ m[k + i].sequence = k + i
                               /\ m[k + i].msg = n + 1
                               /\ m[k + i].index = i - 1
                               /\ m[k + i].count = count,
         LogIsWellFormed(l, n)
  PROVE  LogIsWellFormed(m, n + 1)
<1>3. \A i \in 1 .. k : m[i] = l[i]
  OBVIOUS
<1>4. \A i \in 1 .. count : /\ m[k + i].sequence = k + i
                            /\ m[k + i].msg = n + 1
                            /\ m[k + i].index = i - 1
                            /\ m[k + i].count = count
  OBVIOUS
<1>5. m # << >> /\ IsLastMessage(m[Len(m)]) /\ m[Len(m)].msg = n + 1
  BY <1>4 DEF IsLastMessage
<1>6. ASSUME NEW i \in 1 .. Len(m)
      PROVE  /\ m[i].sequence = i
             /\ m[i].index < m[i].count
             /\ m[i].msg \in 1 .. n + 1
             /\ i = 1 => m[i].msg = 1 /\ m[i].index = 0
             /\ i > 1 => IF IsLastMessage(m[i - 1])
                           THEN m[i].msg = m[i - 1].msg + 1 /\ m[i].index = 0
                           ELSE /\ m[i].msg = m[i - 1].msg
                                /\ m[i].index = m[i - 1].index + 1
                                /\ m[i].count = m[i - 1].count
  <2>1. CASE i \in 1 .. k
    <3>1. m[i] = l[i] /\ (i > 1 => m[i - 1] = l[i - 1])
      BY <1>3, <2>1
    <3>2. l[i].msg \in 1 .. n + 1
      BY <2>1 DEF LogIsWellFormed
    <3> QED BY <2>1, <3>1, <3>2 DEF LogIsWellFormed
  <2>2. CASE i = k + 1
    <3>1. /\ m[i].sequence = i /\ m[i].msg = n + 1
          /\ m[i].index = 0 /\ m[i].count = count
      BY <1>4, <2>2
    <3>2. k = 0 => n = 0
      BY EmptySeq DEF LogIsWellFormed
    <3>3. k > 0 => m[i - 1] = l[k] /\ IsLastMessage(l[k]) /\ l[k].msg = n
      <4>1. k > 0 => l # << >> /\ k \in 1 .. k /\ i - 1 = k
        BY <2>2
      <4> QED BY <1>3, <4>1 DEF LogIsWellFormed
    <3> QED BY <2>2, <3>1, <3>2, <3>3
  <2>3. CASE i - k \in 2 .. count
    <3>1. i - k \in 1 .. count /\ i - k - 1 \in 1 .. count
          /\ k + (i - k) = i /\ k + (i - k - 1) = i - 1
      BY <2>3
    <3>2. /\ m[i].sequence = i /\ m[i].msg = n + 1
          /\ m[i].index = i - k - 1 /\ m[i].count = count
      <4>1. /\ m[k + (i - k)].sequence = k + (i - k)
            /\ m[k + (i - k)].msg = n + 1
            /\ m[k + (i - k)].index = (i - k) - 1
            /\ m[k + (i - k)].count = count
        BY <1>4, <3>1
      <4> QED BY <3>1, <4>1
    <3>3. /\ m[i - 1].msg = n + 1
          /\ m[i - 1].index = i - k - 2 /\ m[i - 1].count = count
      <4>1. /\ m[k + (i - k - 1)].msg = n + 1
            /\ m[k + (i - k - 1)].index = (i - k - 1) - 1
            /\ m[k + (i - k - 1)].count = count
        BY <1>4, <3>1
      <4>2. (i - k - 1) - 1 = i - k - 2
        BY <2>3
      <4> QED BY <3>1, <4>1, <4>2
    <3>4. ~IsLastMessage(m[i - 1])
      BY <2>3, <3>3 DEF IsLastMessage
    <3> QED BY <2>3, <3>2, <3>3, <3>4
  <2>4. i \in 1 .. k \/ i = k + 1 \/ i - k \in 2 .. count
    <3>1. i \in 1 .. k + count
      OBVIOUS
    <3> QED BY <3>1
  <2> QED BY <2>1, <2>2, <2>3, <2>4
<1> QED
  BY <1>5, <1>6 DEF LogIsWellFormed

\* A longer history still has the pieces it had, where they were.
LEMMA PiecesStay ==
  ASSUME NEW l \in Seq(PieceType), NEW new \in Seq(PieceType)
  PROVE  /\ \A i \in 1 .. Len(l) : (l \o new)[i] = l[i]
         /\ \A pkt : IsPieceOf(pkt, l) => IsPieceOf(pkt, l \o new)
  BY DEF IsPieceOf

\* The new pieces are in it.
LEMMA NewPiecesAreIn ==
  ASSUME NEW l \in Seq(PieceType), NEW new \in Seq(PieceType),
         NEW i \in 1 .. Len(new), new[i].sequence = Len(l) + i
  PROVE  IsPieceOf(new[i], l \o new)
  BY DEF IsPieceOf

\* The send list grows with the history.
LEMMA WindowGrows ==
  ASSUME NEW l \in Seq(PieceType), NEW new \in Seq(PieceType), NEW list \in Seq(PieceType),
         IsWindow(list, l)
  PROVE  IsWindow(list \o new, l \o new)
<1>1. PICK k \in Nat : k = Len(l)
  OBVIOUS
<1>2. PICK j \in Nat : j = Len(list)
  OBVIOUS
<1>3. PICK c \in Nat : c = Len(new)
  OBVIOUS
<1>4. j <= k /\ \A i \in 1 .. j : list[i] = l[k - j + i]
  BY <1>1, <1>2 DEF IsWindow
<1>5. PICK m \in Seq(PieceType) : m = l \o new
  BY AppendingPieces
<1>6. PICK longer \in Seq(PieceType) : longer = list \o new
  BY AppendingPieces
<1>7. /\ Len(m) = k + c /\ Len(longer) = j + c
      /\ \A i \in 1 .. k : m[i] = l[i]
      /\ \A i \in 1 .. c : m[k + i] = new[i]
      /\ \A i \in 1 .. j : longer[i] = list[i]
      /\ \A i \in 1 .. c : longer[j + i] = new[i]
  <2>1. /\ Len(m) = Len(l) + Len(new)
        /\ \A i \in 1 .. Len(l) : m[i] = l[i]
        /\ \A i \in 1 .. Len(new) : m[Len(l) + i] = new[i]
    BY <1>5, AppendingPieces
  <2>2. /\ Len(longer) = Len(list) + Len(new)
        /\ \A i \in 1 .. Len(list) : longer[i] = list[i]
        /\ \A i \in 1 .. Len(new) : longer[Len(list) + i] = new[i]
    BY <1>6, AppendingPieces
  <2> QED BY <1>1, <1>2, <1>3, <2>1, <2>2
<1>8. ASSUME NEW i \in 1 .. j + c
      PROVE  longer[i] = m[(k + c) - (j + c) + i]
  <2>0. (k + c) - (j + c) + i = k - j + i
    OBVIOUS
  <2>1. CASE i \in 1 .. j
    <3>1. k - j + i \in 1 .. k
      BY <1>4, <2>1
    <3> QED BY <1>4, <1>7, <2>0, <2>1, <3>1
  <2>2. CASE i - j \in 1 .. c
    <3>1. j + (i - j) = i /\ k + (i - j) = k - j + i
      OBVIOUS
    <3> QED BY <1>7, <2>0, <2>2, <3>1
  <2> QED BY <2>1, <2>2
<1>9. Len(longer) <= Len(m)
  BY <1>4, <1>7
<1>10. \A i \in 1 .. Len(longer) : longer[i] = m[Len(m) - Len(longer) + i]
  BY <1>7, <1>8
<1> QED BY <1>5, <1>6, <1>9, <1>10 DEF IsWindow

\* Taking a prefix off the send list leaves a window.
LEMMA WindowShrinks ==
  ASSUME NEW l \in Seq(PieceType), NEW list \in Seq(PieceType), NEW rest \in Seq(PieceType),
         NEW k \in 0 .. Len(list), Len(rest) = Len(list) - k,
         \A i \in 1 .. Len(rest) : rest[i] = list[k + i],
         IsWindow(list, l)
  PROVE  IsWindow(rest, l)
<1>1. PICK a \in Nat : a = Len(l)
  OBVIOUS
<1>2. PICK b \in Nat : b = Len(list)
  OBVIOUS
<1>3. b <= a /\ \A i \in 1 .. b : list[i] = l[a - b + i]
  BY <1>1, <1>2 DEF IsWindow
<1>4. Len(rest) = b - k /\ \A i \in 1 .. b - k : rest[i] = list[k + i]
  BY <1>2
<1>5. ASSUME NEW i \in 1 .. b - k PROVE rest[i] = l[a - (b - k) + i]
  <2>1. k + i \in 1 .. b /\ a - b + (k + i) = a - (b - k) + i
    <3>1. a \in Nat /\ b \in Nat /\ k \in 0 .. b /\ b <= a /\ i \in 1 .. b - k
      BY <1>2, <1>3
    <3> QED BY ONLY <3>1
  <2>2. rest[i] = list[k + i] /\ list[k + i] = l[a - b + (k + i)]
    BY <1>3, <1>4, <2>1
  <2> QED BY <2>1, <2>2
<1>6. b - k <= a
  BY <1>2, <1>3
<1> QED BY <1>1, <1>4, <1>5, <1>6 DEF IsWindow

\* The elements of the send list are pieces of the history, numbered on from
\* the last one acknowledged.
LEMMA WindowElements ==
  ASSUME NEW l \in Seq(PieceType), NEW n \in Nat, NEW list \in Seq(PieceType),
         LogIsWellFormed(l, n), IsWindow(list, l)
  PROVE  /\ Len(l) - Len(list) \in Nat
         /\ \A i \in 1 .. Len(list) : /\ IsPieceOf(list[i], l)
                                      /\ list[i].sequence = Len(l) - Len(list) + i
<1>1. Len(l) - Len(list) \in Nat
  BY DEF IsWindow
<1>2. ASSUME NEW i \in 1 .. Len(list)
      PROVE  IsPieceOf(list[i], l) /\ list[i].sequence = Len(l) - Len(list) + i
  <2>1. Len(l) - Len(list) + i \in 1 .. Len(l)
    BY <1>1
  <2>2. list[i] = l[Len(l) - Len(list) + i]
    BY DEF IsWindow
  <2>3. list[i].sequence = Len(l) - Len(list) + i
    BY <2>1, <2>2 DEF LogIsWellFormed
  <2> QED BY <2>1, <2>2, <2>3 DEF IsPieceOf
<1> QED BY <1>1, <1>2

\* The piece after the first r of a history, and the one before it.
LEMMA NextPiece ==
  ASSUME NEW l \in Seq(PieceType), NEW n \in Nat, LogIsWellFormed(l, n),
         NEW r \in Nat, r + 1 <= Len(l)
  PROVE  /\ l[r + 1].index < l[r + 1].count
         /\ r = 0 => l[r + 1].msg = 1 /\ l[r + 1].index = 0
         /\ r > 0 /\ IsLastMessage(l[r]) => l[r + 1].msg = l[r].msg + 1 /\ l[r + 1].index = 0
         /\ r > 0 /\ ~IsLastMessage(l[r]) => /\ l[r + 1].msg = l[r].msg
                                             /\ l[r + 1].index = l[r].index + 1
                                             /\ l[r + 1].count = l[r].count
<1>1. PICK i \in 1 .. Len(l) : i = r + 1
  OBVIOUS
<1>2. i - 1 = r /\ (r = 0 => i = 1) /\ (r > 0 => i > 1)
  BY <1>1
<1>3. /\ l[i].index < l[i].count
      /\ i = 1 => l[i].msg = 1 /\ l[i].index = 0
      /\ i > 1 => IF IsLastMessage(l[i - 1])
                    THEN l[i].msg = l[i - 1].msg + 1 /\ l[i].index = 0
                    ELSE /\ l[i].msg = l[i - 1].msg
                         /\ l[i].index = l[i - 1].index + 1
                         /\ l[i].count = l[i - 1].count
  BY DEF LogIsWellFormed
<1> QED BY <1>1, <1>2, <1>3

\* What the receiver holds before the next piece p of the history.
LEMMA ReceiverBefore ==
  ASSUME NEW l \in Seq(PieceType), NEW n \in Nat, LogIsWellFormed(l, n),
         NEW r \in Nat, r + 1 <= Len(l),
         NEW buffer \in Seq(PieceType), NEW d \in Seq(Nat), ReceiverIsAt(l, r, buffer, d)
  PROVE  /\ l[r + 1].msg = Len(d) + 1
         /\ Len(buffer) = l[r + 1].index
         /\ \A i \in 1 .. Len(buffer) :
              buffer[i].msg = l[r + 1].msg /\ buffer[i].index = i - 1
<1>1. CASE r = 0
  <2>1. l[r + 1].msg = 1 /\ l[r + 1].index = 0
    BY <1>1, NextPiece
  <2>2. Len(buffer) = 0 /\ Len(d) = 0
    BY <1>1 DEF ReceiverIsAt
  <2> QED BY <2>1, <2>2
<1>2. CASE r > 0 /\ IsLastMessage(l[r])
  <2>1. l[r + 1].msg = l[r].msg + 1 /\ l[r + 1].index = 0
    BY <1>2, NextPiece
  <2>2. Len(buffer) = 0 /\ Len(d) = l[r].msg
    BY <1>2 DEF ReceiverIsAt
  <2> QED BY <2>1, <2>2
<1>3. CASE r > 0 /\ ~IsLastMessage(l[r])
  <2>1. l[r + 1].msg = l[r].msg /\ l[r + 1].index = l[r].index + 1
    BY <1>3, NextPiece
  <2>2. /\ Len(buffer) = l[r].index + 1
        /\ \A i \in 1 .. Len(buffer) : buffer[i].msg = l[r].msg /\ buffer[i].index = i - 1
        /\ Len(d) + 1 = l[r].msg
    BY <1>3 DEF ReceiverIsAt
  <2> QED BY <2>1, <2>2
<1> QED BY <1>1, <1>2, <1>3

\* The buffer with the next piece in it.
LEMMA BufferWithPiece ==
  ASSUME NEW buffer \in Seq(PieceType), NEW p \in PieceType, Len(buffer) = p.index,
         \A i \in 1 .. Len(buffer) : buffer[i].msg = p.msg /\ buffer[i].index = i - 1
  PROVE  /\ Len(Append(buffer, p)) = p.index + 1
         /\ \A i \in 1 .. Len(Append(buffer, p)) :
              Append(buffer, p)[i].msg = p.msg /\ Append(buffer, p)[i].index = i - 1
         /\ IsLastMessage(p) => Decodes(Append(buffer, p), p)
<1>1. \A i \in 1 .. Len(buffer) : buffer[i].msg = p.msg /\ buffer[i].index = i - 1
  OBVIOUS
<1>2. PICK longer \in Seq(PieceType) : longer = Append(buffer, p)
  BY AppendProperties
<1>3. /\ Len(longer) = Len(buffer) + 1
      /\ \A i \in 1 .. Len(buffer) : longer[i] = buffer[i]
      /\ longer[Len(buffer) + 1] = p
  BY <1>2, AppendProperties
<1>4. ASSUME NEW i \in 1 .. Len(longer)
      PROVE  longer[i].msg = p.msg /\ longer[i].index = i - 1
  <2>1. CASE i = Len(buffer) + 1
    <3>1. longer[i] = p /\ p.index = i - 1
      BY <1>3, <2>1
    <3> QED BY <3>1
  <2>2. CASE i \in 1 .. Len(buffer)
    <3>1. longer[i] = buffer[i]
      BY <1>3, <2>2
    <3> QED BY <1>1, <2>2, <3>1
  <2> QED BY <1>3, <2>1, <2>2
<1>5. IsLastMessage(p) => Decodes(longer, p)
  BY <1>3, <1>4 DEF Decodes, IsLastMessage
<1> QED BY <1>2, <1>3, <1>4, <1>5

\* Receiving the next piece: the receiver holds what one more piece amounts to.
LEMMA ReceiverAdvances ==
  ASSUME NEW l \in Seq(PieceType), NEW n \in Nat, LogIsWellFormed(l, n),
         NEW r \in Nat, r + 1 <= Len(l),
         NEW buffer \in Seq(PieceType), NEW d \in Seq(Nat), ReceiverIsAt(l, r, buffer, d)
  PROVE  \E p \in PieceType :
         /\ p = l[r + 1]
         /\ p.msg = Len(d) + 1
         /\ IsSplit(p) /\ IsLastMessage(p) => Decodes(Append(buffer, p), p)
         /\ ~IsSplit(p) => IsLastMessage(p) /\ buffer = << >>
         /\ IsLastMessage(p) => ReceiverIsAt(l, r + 1, << >>, Append(d, p.msg))
         /\ ~IsLastMessage(p) => ReceiverIsAt(l, r + 1, Append(buffer, p), d)
<1>0. PICK p \in PieceType : p = l[r + 1]
  OBVIOUS
<1>1. p.index < p.count /\ p.index \in Nat /\ p.count \in Nat /\ p.msg \in Nat
  <2>1. p.index < p.count
    BY <1>0, NextPiece
  <2> QED BY <2>1 DEF PieceType
<1>2. /\ p.msg = Len(d) + 1
      /\ Len(buffer) = p.index
      /\ \A i \in 1 .. Len(buffer) : buffer[i].msg = p.msg /\ buffer[i].index = i - 1
  <2>1. /\ l[r + 1].msg = Len(d) + 1
        /\ Len(buffer) = l[r + 1].index
        /\ \A i \in 1 .. Len(buffer) :
             buffer[i].msg = l[r + 1].msg /\ buffer[i].index = i - 1
    BY ReceiverBefore
  <2> QED BY ONLY <1>0, <2>1
<1>3. /\ Len(Append(buffer, p)) = p.index + 1
      /\ \A i \in 1 .. Len(Append(buffer, p)) :
           Append(buffer, p)[i].msg = p.msg /\ Append(buffer, p)[i].index = i - 1
      /\ IsLastMessage(p) => Decodes(Append(buffer, p), p)
  BY <1>2, BufferWithPiece
<1>4. ~IsSplit(p) => IsLastMessage(p) /\ p.index = 0
  BY <1>1 DEF IsSplit, IsLastMessage
<1>5. p.index = 0 => buffer = << >>
  BY <1>2, EmptySeq
<1>6. Len(Append(d, p.msg)) = p.msg
  BY <1>1, <1>2, AppendProperties
<1>7. r + 1 # 0
  OBVIOUS
<1>8. IsLastMessage(p) => ReceiverIsAt(l, r + 1, << >>, Append(d, p.msg))
  BY <1>0, <1>6, <1>7 DEF ReceiverIsAt
<1>9. ~IsLastMessage(p) => ReceiverIsAt(l, r + 1, Append(buffer, p), d)
  BY <1>0, <1>2, <1>3, <1>7 DEF ReceiverIsAt
<1> QED
  BY <1>0, <1>2, <1>3, <1>4, <1>5, <1>8, <1>9

-----------------------------------------------------------------------------
(* What each kind of event does to one direction of the link.              *)

\* Nothing but the timer, and packets that say nothing new.
LEMMA DirectionStays ==
  ASSUME NEW g \in EndpointType, NEW h \in EndpointType, NEW l \in Seq(PieceType),
         NEW n \in Nat, NEW ahead, NEW back, NEW d \in Seq(Nat),
         DirectionHolds(g, h, l, n, ahead, back, d),
         NEW g2 \in EndpointType, NEW h2 \in EndpointType, NEW ahead2, NEW back2,
         g2.sendSequence = g.sendSequence, g2.sendList = g.sendList,
         h2.recvSequence = h.recvSequence, h2.recvBuffer = h.recvBuffer,
         \A pkt \in ahead2 : pkt.kind = "data" => pkt \in ahead \/ IsPieceOf(pkt, l),
         \A pkt \in back2 : pkt.kind = "ack" => pkt \in back \/ pkt.sequence <= h.recvSequence
  PROVE  DirectionHolds(g2, h2, l, n, ahead2, back2, d)
  BY DEF DirectionHolds

\* The longer history, piece by piece.
LEMMA AppendingSteps ==
  ASSUME NEW l \in Seq(PieceType), NEW new \in Seq(PieceType)
  PROVE  \E m \in Seq(PieceType) :
           /\ m = l \o new
           /\ Len(m) = Len(l) + Len(new)
           /\ \A i \in 1 .. Len(l) : m[i] = l[i]
           /\ \A i \in 1 .. Len(new) : m[Len(l) + i] = new[i]
<1>1. PICK m \in Seq(PieceType) : m = l \o new
  BY AppendingPieces
<1> QED BY <1>1, AppendingPieces

\* The sender sends message n + 1.
LEMMA DirectionSends ==
  ASSUME NEW g \in EndpointType, NEW h \in EndpointType, NEW l \in Seq(PieceType),
         NEW n \in Nat, NEW ahead, NEW back, NEW d \in Seq(Nat),
         DirectionHolds(g, h, l, n, ahead, back, d),
         NEW count \in Nat \ {0}
  PROVE  LET new == NewPieces(g, n + 1, count)
         IN  DirectionHolds(SendViaGoBackN(g, n + 1, count), h, l \o new, n + 1,
                            ahead \cup {new[i] : i \in 1 .. count}, back, d)
<1>1. /\ Len(l) = g.sendSequence
      /\ LogIsWellFormed(l, n)
      /\ IsWindow(g.sendList, l)
      /\ Len(l) - Len(g.sendList) <= h.recvSequence
      /\ h.recvSequence <= Len(l)
      /\ \A pkt \in ahead : pkt.kind = "data" => IsPieceOf(pkt, l)
      /\ \A pkt \in back : pkt.kind = "ack" => pkt.sequence <= h.recvSequence
      /\ ReceiverIsAt(l, h.recvSequence, h.recvBuffer, d)
      /\ \A i \in 1 .. Len(d) : d[i] = i
  BY DEF DirectionHolds
<1>2. PICK msg \in Nat : msg = n + 1
  OBVIOUS
<1>3. PICK new \in Seq(PieceType) : new = NewPieces(g, msg, count)
  BY SendFields
<1>31. PICK g2 \in EndpointType : g2 = SendViaGoBackN(g, msg, count)
  BY SendFields
<1>32. /\ Len(new) = count
       /\ \A i \in 1 .. count : new[i] = Piece(g.sendSequence + i, msg, i - 1, count)
       /\ g2.sendSequence = g.sendSequence + count
       /\ g2.sendList = g.sendList \o new
       /\ g2.sendTimer = "started"
  <2>1. /\ Len(NewPieces(g, msg, count)) = count
        /\ \A i \in 1 .. count :
             NewPieces(g, msg, count)[i] = Piece(g.sendSequence + i, msg, i - 1, count)
    BY SendFields
  <2>2. SendViaGoBackN(g, msg, count).sendSequence = g.sendSequence + count
    BY SendFields
  <2>3. /\ SendViaGoBackN(g, msg, count).sendList = g.sendList \o NewPieces(g, msg, count)
        /\ SendViaGoBackN(g, msg, count).sendTimer = "started"
    BY SendFields
  <2> QED BY ONLY <1>3, <1>31, <2>1, <2>2, <2>3
<1>33. \A i \in 1 .. count : /\ new[i].sequence = g.sendSequence + i
                             /\ new[i].msg = msg
                             /\ new[i].index = i - 1
                             /\ new[i].count = count
  BY <1>32 DEF Piece
<1>4. PICK k \in Nat : k = Len(l)
  OBVIOUS
<1>5. PICK r \in Nat : r = h.recvSequence
  BY DEF EndpointType
<1>6. PICK list \in Seq(PieceType) : list = g.sendList
  BY DEF EndpointType
<1>7. PICK m \in Seq(PieceType) : /\ m = l \o new
                                  /\ Len(m) = Len(l) + Len(new)
                                  /\ \A i \in 1 .. Len(l) : m[i] = l[i]
                                  /\ \A i \in 1 .. Len(new) : m[Len(l) + i] = new[i]
  BY AppendingSteps
<1>8. PICK longer \in Seq(PieceType) : /\ longer = list \o new
                                       /\ Len(longer) = Len(list) + Len(new)
  BY AppendingSteps
<1>9. LogIsWellFormed(m, n + 1)
  <2>1. \A i \in 1 .. count : /\ m[k + i].sequence = k + i
                              /\ m[k + i].msg = n + 1
                              /\ m[k + i].index = i - 1
                              /\ m[k + i].count = count
    <3>1. ASSUME NEW i \in 1 .. count
          PROVE  /\ m[k + i] = new[i]
                 /\ new[i].sequence = k + i
                 /\ new[i].msg = n + 1
                 /\ new[i].index = i - 1
                 /\ new[i].count = count
      BY <1>1, <1>2, <1>3, <1>31, <1>32, <1>33, <1>4, <1>7
    <3> QED BY <3>1
  <2>2. \A i \in 1 .. k : m[i] = l[i]
    BY <1>4, <1>7
  <2>3. Len(m) = k + count
    BY <1>3, <1>31, <1>32, <1>33, <1>4, <1>7
  <2>4. LogIsWellFormed(l, n)
    BY <1>1
  <2> QED BY <1>4, <2>1, <2>2, <2>3, <2>4, LogGrows, ZenonT(60)
<1>10. IsWindow(longer, m)
  <2>1. IsWindow(list, l)
    BY <1>1, <1>6
  <2>2. IsWindow(list \o new, l \o new)
    BY <2>1, WindowGrows
  <2> QED BY <1>7, <1>8, <2>2
<1>11. g2.sendList = longer
  BY <1>3, <1>31, <1>32, <1>33, <1>6, <1>8
<1>12. \A pkt \in ahead \cup {new[i] : i \in 1 .. count} :
         pkt.kind = "data" => IsPieceOf(pkt, m)
  <2>1. \A pkt : IsPieceOf(pkt, l) => IsPieceOf(pkt, m)
    BY <1>7, PiecesStay
  <2>2. \A i \in 1 .. count : IsPieceOf(new[i], m)
    <3>1. \A i \in 1 .. Len(new) : new[i].sequence = Len(l) + i
      BY <1>1, <1>3, <1>31, <1>32, <1>33
    <3> QED BY <1>3, <1>31, <1>32, <1>33, <1>7, <3>1, NewPiecesAreIn
  <2> QED BY <1>1, <2>1, <2>2
<1>13. ReceiverIsAt(m, h.recvSequence, h.recvBuffer, d)
  <2>1. r # 0 => m[r] = l[r]
    BY <1>1, <1>5, <1>7
  <2> QED BY <1>1, <1>5, <2>1 DEF ReceiverIsAt
<1>14. Len(m) = g2.sendSequence
  BY <1>1, <1>3, <1>31, <1>32, <1>33, <1>7
<1>15. Len(m) - Len(longer) <= r /\ r <= Len(m)
  <2>1. /\ Len(l) \in Nat /\ Len(list) \in Nat /\ Len(new) \in Nat
        /\ Len(m) = Len(l) + Len(new) /\ Len(longer) = Len(list) + Len(new)
        /\ Len(l) - Len(list) <= r /\ r <= Len(l)
    BY <1>1, <1>5, <1>6, <1>7, <1>8
  <2> QED BY <2>1
<1>16. DirectionHolds(g2, h, m, n + 1, ahead \cup {new[i] : i \in 1 .. count}, back, d)
  BY <1>1, <1>3, <1>31, <1>32, <1>33, <1>5, <1>9, <1>10, <1>11, <1>12, <1>13, <1>14, <1>15 DEF DirectionHolds
<1> QED BY <1>2, <1>3, <1>31, <1>32, <1>33, <1>7, <1>16

\* The sender receives an acknowledgement.
LEMMA DirectionAcknowledges ==
  ASSUME NEW g \in EndpointType, NEW h \in EndpointType, NEW l \in Seq(PieceType),
         NEW n \in Nat, NEW ahead, NEW back, NEW d \in Seq(Nat),
         DirectionHolds(g, h, l, n, ahead, back, d),
         NEW s \in Nat, s <= h.recvSequence
  PROVE  /\ Popped(g.sendList, s) \in 0 .. Len(g.sendList)
         /\ DirectionHolds(RecvAck(g, s), h, l, n, ahead, back, d)
<1>1. /\ Len(l) = g.sendSequence
      /\ LogIsWellFormed(l, n)
      /\ IsWindow(g.sendList, l)
      /\ Len(l) - Len(g.sendList) <= h.recvSequence
      /\ h.recvSequence <= Len(l)
      /\ \A pkt \in ahead : pkt.kind = "data" => IsPieceOf(pkt, l)
      /\ \A pkt \in back : pkt.kind = "ack" => pkt.sequence <= h.recvSequence
      /\ ReceiverIsAt(l, h.recvSequence, h.recvBuffer, d)
      /\ \A i \in 1 .. Len(d) : d[i] = i
  BY DEF DirectionHolds
<1>2. PICK list \in Seq(PieceType) : list = g.sendList
  BY DEF EndpointType
<1>3. PICK base \in Nat : base = Len(l) - Len(list)
  BY <1>1, <1>2, WindowElements
<1>4. \A i \in 1 .. Len(list) : list[i].sequence = base + i
  BY <1>1, <1>2, <1>3, WindowElements
<1>5. PICK k \in 0 .. Len(list) : k = Popped(list, s)
  BY <1>4, PoppedPrefix
<1>6. k > 0 => base + k <= s
  BY <1>4, <1>5, PoppedPrefix
<1>7. Popped(g.sendList, s) \in 0 .. Len(g.sendList)
  BY <1>2, <1>5
<1>8. PICK g2 \in EndpointType : g2 = RecvAck(g, s)
  BY <1>7, RecvAckFields
<1>9. /\ g2.sendSequence = g.sendSequence
      /\ Len(g2.sendList) = Len(list) - k
      /\ \A i \in 1 .. Len(g2.sendList) : g2.sendList[i] = list[k + i]
      /\ g.sendTimer = "started" => g2.sendTimer = "started"
  BY <1>2, <1>5, <1>7, <1>8, RecvAckFields
<1>10. PICK rest \in Seq(PieceType) : rest = g2.sendList
  BY DEF EndpointType
<1>11. IsWindow(rest, l)
  BY <1>1, <1>2, <1>9, <1>10, WindowShrinks
<1>12. Len(l) - Len(rest) <= h.recvSequence
  <2>1. PICK r \in Nat : r = h.recvSequence
    BY DEF EndpointType
  <2>2. PICK a \in Nat : a = Len(l)
    OBVIOUS
  <2>3. PICK b \in Nat : b = Len(list)
    OBVIOUS
  <2>4. Len(rest) = b - k /\ a - b <= r /\ base = a - b /\ s <= r
    BY <1>1, <1>2, <1>3, <1>9, <1>10, <2>1, <2>2, <2>3
  <2>5. a - (b - k) <= r
    BY <1>6, <2>3, <2>4
  <2> QED BY <2>1, <2>2, <2>4, <2>5
<1>13. rest # << >> => g.sendList # << >>
  <2>1. rest # << >> => Len(rest) > 0
    BY EmptySeq
  <2> QED BY <1>2, <1>9, <1>10, <2>1, EmptySeq
<1>14. DirectionHolds(g2, h, l, n, ahead, back, d)
  BY <1>1, <1>9, <1>10, <1>11, <1>12, <1>13 DEF DirectionHolds
<1> QED BY <1>7, <1>8, <1>14

\* The receiver receives a piece.
LEMMA DirectionReceives ==
  ASSUME NEW g \in EndpointType, NEW h \in EndpointType, NEW l \in Seq(PieceType),
         NEW n \in Nat, NEW ahead, NEW back \in SUBSET PacketType, NEW d \in Seq(Nat),
         DirectionHolds(g, h, l, n, ahead, back, d),
         NEW p \in PieceType, IsPieceOf(p, l)
  PROVE  /\ ~FailsToDecode(h, p)
         /\ h.recvSequence <= RecvData(h, p).recvSequence
         /\ DirectionHolds(g, RecvData(h, p), l, n, ahead,
                           back \cup {Ack(RecvData(h, p).recvSequence)},
                           IF Delivers(h, p) THEN Append(d, p.msg) ELSE d)
<1>1. /\ Len(l) = g.sendSequence
      /\ LogIsWellFormed(l, n)
      /\ IsWindow(g.sendList, l)
      /\ Len(l) - Len(g.sendList) <= h.recvSequence
      /\ h.recvSequence <= Len(l)
      /\ \A pkt \in ahead : pkt.kind = "data" => IsPieceOf(pkt, l)
      /\ \A pkt \in back : pkt.kind = "ack" => pkt.sequence <= h.recvSequence
      /\ ReceiverIsAt(l, h.recvSequence, h.recvBuffer, d)
      /\ \A i \in 1 .. Len(d) : d[i] = i
  BY DEF DirectionHolds
<1>2. PICK h2 \in EndpointType : h2 = RecvData(h, p)
  BY RecvDataFields
<1>3. PICK r \in Nat : r = h.recvSequence
  BY DEF EndpointType
<1>4. PICK buffer \in Seq(PieceType) : buffer = h.recvBuffer
  BY DEF EndpointType
<1>5. /\ h2.recvSequence = IF InOrder(h, p) THEN r + 1 ELSE r
      /\ h2.recvBuffer = IF InOrder(h, p) /\ IsSplit(p)
                           THEN IF IsLastMessage(p) THEN << >> ELSE Append(buffer, p)
                           ELSE buffer
  BY <1>2, <1>3, <1>4, RecvDataFields
<1>6. \A back2 : (\A pkt \in back2 : pkt.kind = "ack" => pkt.sequence <= h2.recvSequence)
                   => \A pkt \in back2 \cup {Ack(h2.recvSequence)} :
                        pkt.kind = "ack" => pkt.sequence <= h2.recvSequence
  <2>1. h2.recvSequence <= h2.recvSequence
    BY DEF EndpointType
  <2> QED BY <2>1 DEF Ack
<1>7. CASE ~InOrder(h, p)
  <2>1. ~Delivers(h, p) /\ ~FailsToDecode(h, p)
    BY <1>7 DEF Delivers, FailsToDecode
  <2>2. h2.recvSequence = r /\ h2.recvBuffer = buffer
    BY <1>5, <1>7
  <2>3. DirectionHolds(g, h2, l, n, ahead, back \cup {Ack(h2.recvSequence)}, d)
    BY <1>1, <1>3, <1>4, <1>6, <2>2 DEF DirectionHolds
  <2> QED BY <1>2, <1>3, <2>1, <2>2, <2>3
<1>8. CASE InOrder(h, p)
  <2>1. p.sequence = r + 1 /\ p = l[r + 1] /\ r + 1 <= Len(l)
    BY <1>3, <1>8 DEF InOrder, IsPieceOf
  <2>2. /\ p.msg = Len(d) + 1
        /\ IsSplit(p) /\ IsLastMessage(p) => Decodes(Append(buffer, p), p)
        /\ ~IsSplit(p) => IsLastMessage(p) /\ buffer = << >>
        /\ IsLastMessage(p) => ReceiverIsAt(l, r + 1, << >>, Append(d, p.msg))
        /\ ~IsLastMessage(p) => ReceiverIsAt(l, r + 1, Append(buffer, p), d)
    <3>1. LogIsWellFormed(l, n)
      BY <1>1
    <3>2. ReceiverIsAt(l, r, buffer, d)
      BY <1>1, <1>3, <1>4
    <3>3. p = l[r + 1]
      BY <2>1
    <3>4. r + 1 <= Len(l)
      BY <2>1
    <3>5. PICK x \in PieceType :
            /\ x = l[r + 1]
            /\ x.msg = Len(d) + 1
            /\ IsSplit(x) /\ IsLastMessage(x) => Decodes(Append(buffer, x), x)
            /\ ~IsSplit(x) => IsLastMessage(x) /\ buffer = << >>
            /\ IsLastMessage(x) => ReceiverIsAt(l, r + 1, << >>, Append(d, x.msg))
            /\ ~IsLastMessage(x) => ReceiverIsAt(l, r + 1, Append(buffer, x), d)
      BY <3>1, <3>2, <3>4, ReceiverAdvances
    <3>6. p = x
      BY <3>3, <3>5
    <3> QED BY <3>5, <3>6, Zenon
  <2>3. ~FailsToDecode(h, p)
    BY <1>4, <2>2 DEF FailsToDecode
  <2>4. Delivers(h, p) <=> IsLastMessage(p)
    BY <1>4, <1>8, <2>2 DEF Delivers
  <2>5. PICK d2 : d2 = IF Delivers(h, p) THEN Append(d, p.msg) ELSE d
    OBVIOUS
  <2>6. h2.recvSequence = r + 1
    BY <1>5, <1>8
  <2>7. ReceiverIsAt(l, h2.recvSequence, h2.recvBuffer, d2)
    <3>1. CASE IsLastMessage(p)
      BY <1>5, <1>8, <2>2, <2>4, <2>5, <2>6, <3>1
    <3>2. CASE ~IsLastMessage(p)
      BY <1>5, <1>8, <2>2, <2>4, <2>5, <2>6, <3>2
    <3> QED BY <3>1, <3>2
  <2>8. \A i \in 1 .. Len(d2) : d2[i] = i
    <3>1. CASE Delivers(h, p)
      <4>1. p.msg \in Nat
        BY DEF PieceType
      <4>2. /\ Len(d2) = Len(d) + 1
            /\ \A i \in 1 .. Len(d) : d2[i] = d[i]
            /\ d2[Len(d) + 1] = p.msg
        BY <2>5, <3>1, <4>1, AppendProperties
      <4>3. ASSUME NEW i \in 1 .. Len(d2) PROVE d2[i] = i
        <5>1. CASE i = Len(d) + 1
          BY <2>2, <4>2, <5>1
        <5>2. CASE i \in 1 .. Len(d)
          BY <1>1, <4>2, <5>2
        <5> QED BY <4>2, <5>1, <5>2
      <4> QED BY <4>3
    <3>2. CASE ~Delivers(h, p)
      BY <1>1, <2>5, <3>2
    <3> QED BY <3>1, <3>2
  <2>9. \A pkt \in back : pkt.kind = "ack" => pkt.sequence <= h2.recvSequence
    <3>1. \A pkt \in back : pkt.kind = "ack" => pkt.sequence \in Nat
      BY DEF PacketType, PieceType, NullMsg
    <3>2. \A pkt \in back : pkt.kind = "ack" => pkt.sequence <= r
      BY <1>1, <1>3
    <3> QED BY <2>6, <3>1, <3>2
  <2>10. Len(l) - Len(g.sendList) <= h2.recvSequence /\ h2.recvSequence <= Len(l)
    <3>1. PICK a \in Nat : a = Len(l)
      OBVIOUS
    <3>2. PICK b \in Nat : b = Len(g.sendList)
      BY DEF EndpointType
    <3>3. a - b <= r /\ r + 1 <= a
      BY <1>1, <1>3, <2>1, <3>1, <3>2
    <3>4. a - b <= r + 1
      BY <3>3
    <3> QED BY <2>6, <3>1, <3>2, <3>3, <3>4
  <2>11. DirectionHolds(g, h2, l, n, ahead, back \cup {Ack(h2.recvSequence)}, d2)
    BY <1>1, <1>6, <2>7, <2>8, <2>9, <2>10 DEF DirectionHolds
  <2> QED BY <1>2, <1>3, <2>2, <2>3, <2>5, <2>6, <2>11
<1> QED BY <1>7, <1>8

-----------------------------------------------------------------------------
(* The steps of the link.                                                  *)

\* There are two peers, each the other of the other.
LEMMA TwoPeers ==
  ASSUME NEW p \in Peers
  PROVE  /\ Other(p) \in Peers /\ Other(p) # p /\ Other(Other(p)) = p
         /\ \A x \in Peers : x = p \/ x = Other(p)
  BY LinkAssumption DEF Peers, Other

\* The kinds of packets.
LEMMA PacketKinds ==
  ASSUME NEW pkt \in PacketType
  PROVE  \/ pkt.kind = "data" /\ pkt \in PieceType
         \/ pkt.kind = "ack" /\ pkt.sequence \in Nat
         \/ pkt.kind = "null"
  BY DEF PacketType, PieceType, NullMsg

\* What the invariant says around one peer.
LEMMA AroundPeer ==
  ASSUME Inductive, NEW p \in Peers, NEW q, q = Other(p)
  PROVE  /\ q \in Peers /\ q # p /\ Other(q) = p /\ \A x \in Peers : x = p \/ x = q
         /\ ep[p] \in EndpointType /\ ep[q] \in EndpointType
         /\ ep[p].sendListPos \in 0 .. Len(ep[p].sendList)
         /\ net[p] \in SUBSET PacketType /\ net[q] \in SUBSET PacketType
         /\ closed[p] \in BOOLEAN /\ closed[q] \in BOOLEAN
         /\ log[p] \in Seq(PieceType) /\ log[q] \in Seq(PieceType)
         /\ sent[p] \in Nat /\ sent[q] \in Nat
         /\ delivered[p] \in Seq(Nat) /\ delivered[q] \in Seq(Nat)
         /\ DirectionHolds(ep[p], ep[q], log[p], sent[p], net[q], net[p], delivered[q])
         /\ DirectionHolds(ep[q], ep[p], log[q], sent[q], net[p], net[q], delivered[p])
<1>1. q \in Peers /\ q # p /\ Other(q) = p /\ \A x \in Peers : x = p \/ x = q
  BY TwoPeers
<1>2. Direction(p, q) /\ Direction(q, p)
  BY <1>1 DEF Inductive
<1>3. TypeOK
  BY DEF Inductive
<1> QED BY <1>1, <1>2, <1>3 DEF TypeOK, Direction

\* It is enough that the types and the two directions hold.
LEMMA BothDirections ==
  ASSUME NEW p \in Peers, NEW q, q = Other(p), TypeOK', UnackedIsTimed',
         Direction(p, q)', Direction(q, p)'
  PROVE  Inductive'
  BY TwoPeers DEF Inductive

\* Initially nothing was sent.
LEMMA InitInductive == Init => Inductive
<1> SUFFICES ASSUME Init PROVE Inductive
  OBVIOUS
<1>1. TypeOK
  <2>1. NewEndpoint(KeepAlive) \in EndpointType
    BY LinkAssumption, NewEndpointType
  <2>2. NewEndpoint(KeepAlive).sendListPos = 0 /\ NewEndpoint(KeepAlive).sendList = << >>
    BY DEF NewEndpoint
  <2> QED BY <2>1, <2>2, LinkAssumption DEF Init, TypeOK
<1>2. ASSUME NEW p \in Peers PROVE Direction(p, Other(p))
  <2>1. Other(p) \in Peers
    BY TwoPeers
  <2>2. /\ ep[p] = NewEndpoint(KeepAlive) /\ ep[Other(p)] = NewEndpoint(KeepAlive)
        /\ log[p] = << >> /\ sent[p] = 0 /\ delivered[Other(p)] = << >>
        /\ net[p] = {} /\ net[Other(p)] = {}
    BY <2>1 DEF Init
  <2>3. DirectionHolds(NewEndpoint(KeepAlive), NewEndpoint(KeepAlive),
                       << >>, 0, {}, {}, << >>)
    BY DEF DirectionHolds, NewEndpoint, LogIsWellFormed, IsWindow, ReceiverIsAt
  <2> QED BY <2>2, <2>3 DEF Direction
<1>3. UnackedIsTimed
  BY DEF Init, UnackedIsTimed, NewEndpoint
<1> QED BY <1>1, <1>2, <1>3 DEF Inductive

\* A message is sent.
LEMMA SendInductive ==
  ASSUME Inductive, NEW p \in Peers, NEW count \in 1 .. MaxPieces, Send(p, count)
  PROVE  Inductive'
<1>1. PICK q : q = Other(p)
  OBVIOUS
<1>2. /\ q \in Peers /\ q # p
      /\ ep[p] \in EndpointType /\ ep[q] \in EndpointType
      /\ net[p] \in SUBSET PacketType /\ net[q] \in SUBSET PacketType
      /\ closed[p] \in BOOLEAN /\ closed[q] \in BOOLEAN
      /\ log[p] \in Seq(PieceType) /\ log[q] \in Seq(PieceType)
      /\ sent[p] \in Nat /\ sent[q] \in Nat
      /\ delivered[p] \in Seq(Nat) /\ delivered[q] \in Seq(Nat)
      /\ DirectionHolds(ep[p], ep[q], log[p], sent[p], net[q], net[p], delivered[q])
      /\ DirectionHolds(ep[q], ep[p], log[q], sent[q], net[p], net[q], delivered[p])
      /\ \A x \in Peers : x = p \/ x = q
  BY <1>1, AroundPeer
<1>3. count \in Nat \ {0} /\ sent[p] + 1 \in Nat
  BY <1>2, LinkAssumption
<1>4. PICK g2 \in EndpointType : g2 = SendViaGoBackN(ep[p], sent[p] + 1, count)
  BY <1>2, <1>3, SendFields
<1>5. PICK new \in Seq(PieceType) : new = NewPieces(ep[p], sent[p] + 1, count)
  BY <1>2, <1>3, SendFields
<1>6. TypeOK
  BY DEF Inductive
<1>7. /\ sent' = [sent EXCEPT ![p] = sent[p] + 1]
      /\ ep' = [ep EXCEPT ![p] = g2]
      /\ log' = [log EXCEPT ![p] = log[p] \o new]
      /\ net' = [net EXCEPT ![q] = net[q] \cup {new[i] : i \in 1 .. count}]
      /\ closed' = closed /\ duplicates' = duplicates /\ delivered' = delivered
  BY <1>1, <1>4, <1>5 DEF Send
<1>8. /\ sent'[p] = sent[p] + 1 /\ sent'[q] = sent[q]
      /\ ep'[p] = g2 /\ ep'[q] = ep[q]
      /\ log'[p] = log[p] \o new /\ log'[q] = log[q]
      /\ net'[q] = net[q] \cup {new[i] : i \in 1 .. count} /\ net'[p] = net[p]
  BY <1>2, <1>6, <1>7 DEF TypeOK
<1>9. /\ Len(new) = count
      /\ \A i \in 1 .. count : /\ new[i] \in PieceType
                               /\ new[i].kind = "data"
      /\ g2.sendListPos = ep[p].sendListPos
      /\ g2.sendList = ep[p].sendList \o new
      /\ g2.recvSequence = ep[p].recvSequence
      /\ g2.recvBuffer = ep[p].recvBuffer
  <2>1. PICK g \in EndpointType : g = ep[p]
    BY <1>2
  <2>2. PICK n \in Nat : n = sent[p] + 1
    BY <1>3
  <2>3. /\ Len(NewPieces(g, n, count)) = count
        /\ SendViaGoBackN(g, n, count).sendListPos = g.sendListPos
        /\ SendViaGoBackN(g, n, count).sendList = g.sendList \o NewPieces(g, n, count)
        /\ SendViaGoBackN(g, n, count).recvSequence = g.recvSequence
        /\ SendViaGoBackN(g, n, count).recvBuffer = g.recvBuffer
    BY <1>3, SendFields
  <2>4. Len(new) = count
    BY <1>5, <2>1, <2>2, <2>3
  <2>5. \A i \in 1 .. count : new[i] \in PieceType
    BY <2>4
  <2> QED BY <1>4, <1>5, <2>1, <2>2, <2>3, <2>4, <2>5 DEF PieceType
<1>10. TypeOK'
  <2>1. log[p] \o new \in Seq(PieceType)
    BY <1>2, AppendingPieces
  <2>2. {new[i] : i \in 1 .. count} \subseteq PacketType
    BY <1>9 DEF PacketType
  <2>3. g2.sendListPos \in 0 .. Len(g2.sendList)
    <3>1. PICK list \in Seq(PieceType) : list = ep[p].sendList
      BY <1>2 DEF EndpointType
    <3>2. Len(list \o new) = Len(list) + Len(new)
      BY AppendingPieces
    <3>3. ep[p].sendListPos \in 0 .. Len(list)
      BY <1>6, <3>1 DEF TypeOK
    <3> QED BY <1>9, <3>1, <3>2, <3>3
  <2> QED BY <1>2, <1>3, <1>6, <1>7, <1>8, <2>1, <2>2, <2>3 DEF TypeOK
<1>11. Direction(p, q)'
  <2>1. DirectionHolds(g2, ep[q], log[p] \o new, sent[p] + 1,
                       net[q] \cup {new[i] : i \in 1 .. count}, net[p],
                       delivered[q])
    <3>1. PICK g \in EndpointType : g = ep[p]
      BY <1>2
    <3>2. PICK n \in Nat : n = sent[p]
      BY <1>2
    <3>3. LET pieces == NewPieces(g, n + 1, count)
          IN  DirectionHolds(SendViaGoBackN(g, n + 1, count), ep[q], log[p] \o pieces, n + 1,
                             net[q] \cup {pieces[i] : i \in 1 .. count}, net[p],
                             delivered[q])
      BY <1>2, <1>3, <3>1, <3>2, DirectionSends
    <3> QED BY <1>4, <1>5, <3>1, <3>2, <3>3, Zenon
  <2> QED BY <1>7, <1>8, <2>1 DEF Direction
<1>12. Direction(q, p)'
  <2>1. \A pkt \in net[q] \cup {new[i] : i \in 1 .. count} :
          pkt.kind = "ack" => pkt \in net[q] \/ pkt.sequence <= ep[p].recvSequence
    BY <1>9
  <2>2. DirectionHolds(ep[q], g2, log[q], sent[q], net[p],
                       net[q] \cup {new[i] : i \in 1 .. count}, delivered[p])
    <3>1. PICK back2 : back2 = net[q] \cup {new[i] : i \in 1 .. count}
      OBVIOUS
    <3>2. \A pkt \in net[p] : pkt.kind = "data" => pkt \in net[p] \/ IsPieceOf(pkt, log[q])
      OBVIOUS
    <3>3. DirectionHolds(ep[q], g2, log[q], sent[q], net[p], back2, delivered[p])
      BY <1>2, <1>9, <2>1, <3>1, <3>2, DirectionStays
    <3> QED BY <3>1, <3>3
  <2> QED BY <1>7, <1>8, <2>2 DEF Direction
<1>13. UnackedIsTimed'
  <2>1. g2.sendTimer = "started"
    BY <1>2, <1>3, <1>4, SendFields
  <2>2. ep[q].sendList # << >> /\ ~closed[q] => ep[q].sendTimer = "started"
    BY <1>2 DEF Inductive, UnackedIsTimed
  <2> QED BY <1>2, <1>7, <1>8, <2>1, <2>2 DEF UnackedIsTimed
<1> QED BY <1>1, <1>10, <1>11, <1>12, <1>13, BothDirections

\* A timer expires.
LEMMA ExpireInductive ==
  ASSUME Inductive, NEW p \in Peers, Expire(p)
  PROVE  Inductive'
<1>1. PICK q : q = Other(p)
  OBVIOUS
<1>2. /\ q \in Peers /\ q # p
      /\ ep[p] \in EndpointType /\ ep[q] \in EndpointType
      /\ ep[p].sendListPos \in 0 .. Len(ep[p].sendList)
      /\ net[p] \in SUBSET PacketType /\ net[q] \in SUBSET PacketType
      /\ log[p] \in Seq(PieceType) /\ log[q] \in Seq(PieceType)
      /\ sent[p] \in Nat /\ sent[q] \in Nat
      /\ delivered[p] \in Seq(Nat) /\ delivered[q] \in Seq(Nat)
      /\ DirectionHolds(ep[p], ep[q], log[p], sent[p], net[q], net[p], delivered[q])
      /\ DirectionHolds(ep[q], ep[p], log[q], sent[q], net[p], net[q], delivered[p])
      /\ \A x \in Peers : x = p \/ x = q
  BY <1>1, AroundPeer
<1>3. PICK g2 \in EndpointType : g2 = TimerExpired(ep[p])
  BY <1>2, ExpireFields
<1>4. /\ g2.sendListPos \in 0 .. Len(g2.sendList)
      /\ g2.sendSequence = ep[p].sendSequence
      /\ g2.sendList = ep[p].sendList
      /\ g2.recvSequence = ep[p].recvSequence
      /\ g2.recvBuffer = ep[p].recvBuffer
      /\ g2.sendTimer = "started" \/ ep[p].sendList = << >> \/ TimesOut(ep[p])
      /\ TimesOut(ep[p]) \in BOOLEAN
  BY <1>2, <1>3, ExpireFields
<1>5. PICK packets : packets = TimerPackets(ep[p])
  OBVIOUS
<1>6. TypeOK
  BY DEF Inductive
<1>7. /\ ep' = [ep EXCEPT ![p] = g2]
      /\ net' = [net EXCEPT ![q] = net[q] \cup packets]
      /\ closed' = [closed EXCEPT ![p] = TimesOut(ep[p])]
      /\ duplicates' = duplicates /\ log' = log /\ sent' = sent /\ delivered' = delivered
  BY <1>1, <1>3, <1>5 DEF Expire
<1>8. /\ ep'[p] = g2 /\ ep'[q] = ep[q]
      /\ net'[q] = net[q] \cup packets /\ net'[p] = net[p]
  BY <1>2, <1>6, <1>7 DEF TypeOK
<1>9. closed'[p] = TimesOut(ep[p]) /\ closed'[q] = closed[q]
  BY <1>2, <1>6, <1>7 DEF TypeOK
<1>10. ASSUME NEW pkt \in packets
       PROVE  /\ pkt \in PacketType
              /\ pkt.kind # "ack"
              /\ pkt.kind = "data" => IsPieceOf(pkt, log[p])
  <2>1. PICK list \in Seq(PieceType) : list = ep[p].sendList
    BY <1>2 DEF EndpointType
  <2>2. pkt = NullMsg \/ \E i \in 1 .. Len(list) : pkt = list[i]
    BY <1>2, <1>5, <2>1, TimerPacketsFrom
  <2>3. CASE pkt = NullMsg
    BY <2>3 DEF PacketType, NullMsg
  <2>4. ASSUME NEW i \in 1 .. Len(list), pkt = list[i]
        PROVE  /\ pkt \in PacketType
               /\ pkt.kind # "ack"
               /\ pkt.kind = "data" => IsPieceOf(pkt, log[p])
    <3>1. LogIsWellFormed(log[p], sent[p]) /\ IsWindow(list, log[p])
      BY <1>2, <2>1 DEF DirectionHolds
    <3>2. IsPieceOf(list[i], log[p])
      BY <1>2, <3>1, WindowElements
    <3>3. pkt \in PieceType
      BY <2>4
    <3> QED BY <2>4, <3>2, <3>3 DEF PacketType, PieceType
  <2> QED BY <2>2, <2>3, <2>4
<1>11. TypeOK'
  BY <1>2, <1>4, <1>6, <1>7, <1>8, <1>10 DEF TypeOK
<1>12. Direction(p, q)'
  <2>1. PICK ahead2 : ahead2 = net[q] \cup packets
    OBVIOUS
  <2>2. \A pkt \in ahead2 : pkt.kind = "data" => pkt \in net[q] \/ IsPieceOf(pkt, log[p])
    BY <1>10, <2>1
  <2>3. \A pkt \in net[p] : pkt.kind = "ack" => pkt \in net[p] \/ pkt.sequence <= ep[q].recvSequence
    OBVIOUS
  <2>4. DirectionHolds(g2, ep[q], log[p], sent[p], ahead2, net[p], delivered[q])
    BY <1>2, <1>4, <2>2, <2>3, DirectionStays
  <2> QED BY <1>7, <1>8, <2>1, <2>4 DEF Direction
<1>13. Direction(q, p)'
  <2>1. PICK back2 : back2 = net[q] \cup packets
    OBVIOUS
  <2>2. \A pkt \in net[p] : pkt.kind = "data" => pkt \in net[p] \/ IsPieceOf(pkt, log[q])
    OBVIOUS
  <2>3. \A pkt \in back2 : pkt.kind = "ack" => pkt \in net[q] \/ pkt.sequence <= ep[p].recvSequence
    BY <1>10, <2>1
  <2>4. DirectionHolds(ep[q], g2, log[q], sent[q], net[p], back2, delivered[p])
    <3>1. /\ DirectionHolds(ep[q], ep[p], log[q], sent[q], net[p], net[q], delivered[p])
          /\ ep[p] \in EndpointType /\ ep[q] \in EndpointType
          /\ log[q] \in Seq(PieceType) /\ sent[q] \in Nat /\ delivered[p] \in Seq(Nat)
      BY <1>2
    <3>2. g2.recvSequence = ep[p].recvSequence /\ g2.recvBuffer = ep[p].recvBuffer
      BY <1>4
    <3> QED BY <2>2, <2>3, <3>1, <3>2, DirectionStays
  <2> QED BY <1>7, <1>8, <2>1, <2>4 DEF Direction
<1>14. UnackedIsTimed'
  <2>1. ep[q].sendList # << >> /\ ~closed[q] => ep[q].sendTimer = "started"
    BY <1>2 DEF Inductive, UnackedIsTimed
  <2>2. g2.sendTimer = "started" \/ g2.sendList = << >> \/ TimesOut(ep[p])
    BY <1>4
  <2>3. ep'[p].sendList # << >> /\ ~closed'[p] => ep'[p].sendTimer = "started"
    <3>1. TimesOut(ep[p]) => closed'[p]
      BY <1>9
    <3> QED BY <1>8, <2>2, <3>1, Zenon
  <2>4. ep'[q].sendList # << >> /\ ~closed'[q] => ep'[q].sendTimer = "started"
    BY <1>8, <1>9, <2>1
  <2> QED BY <1>2, <2>3, <2>4 DEF UnackedIsTimed
<1> QED BY <1>1, <1>11, <1>12, <1>13, <1>14, BothDirections

\* The network loses a packet.
LEMMA LoseInductive ==
  ASSUME Inductive, NEW p \in Peers, NEW pkt, Lose(p, pkt)
  PROVE  Inductive'
<1>1. PICK q : q = Other(p)
  OBVIOUS
<1>2. /\ q \in Peers /\ q # p /\ \A x \in Peers : x = p \/ x = q
      /\ DirectionHolds(ep[p], ep[q], log[p], sent[p], net[q], net[p], delivered[q])
      /\ DirectionHolds(ep[q], ep[p], log[q], sent[q], net[p], net[q], delivered[p])
  BY <1>1, AroundPeer
<1>3. TypeOK /\ UnackedIsTimed
  BY DEF Inductive
<1>4. PICK fewer : fewer = net[p] \ {pkt}
  OBVIOUS
<1>5. /\ net' = [net EXCEPT ![p] = fewer]
      /\ ep' = ep /\ closed' = closed /\ duplicates' = duplicates
      /\ log' = log /\ sent' = sent /\ delivered' = delivered
  BY <1>4 DEF Lose
<1>6. net'[p] = fewer /\ net'[q] = net[q] /\ fewer \subseteq net[p]
  BY <1>2, <1>3, <1>4, <1>5 DEF TypeOK
<1>7. TypeOK'
  BY <1>3, <1>5, <1>6 DEF TypeOK
<1>8. UnackedIsTimed'
  BY <1>3, <1>5 DEF UnackedIsTimed
<1>9. DirectionHolds(ep[p], ep[q], log[p], sent[p], net[q], fewer, delivered[q])
  BY <1>2, <1>6 DEF DirectionHolds
<1>10. DirectionHolds(ep[q], ep[p], log[q], sent[q], fewer, net[q], delivered[p])
  BY <1>2, <1>6 DEF DirectionHolds
<1>11. Direction(p, q)' /\ Direction(q, p)'
  BY <1>5, <1>6, <1>9, <1>10 DEF Direction
<1> QED BY <1>1, <1>7, <1>8, <1>11, BothDirections

\* What a packet at p may change: the endpoint of p, in one of the two
\* directions, and the replies on their way to q.
LEMMA ReceiveSteps ==
  ASSUME Inductive, NEW p \in Peers, NEW q, q = Other(p),
         NEW pkt \in net[p], NEW dup \in BOOLEAN, Receive(p, pkt, dup),
         NEW g2 \in EndpointType, g2 = RecvFromSocket(ep[p], pkt),
         g2.sendListPos \in 0 .. Len(g2.sendList),
         g2.sendList # << >> => ep[p].sendList # << >>,
         ep[p].sendTimer = "started" => g2.sendTimer = "started",
         NEW replies \in SUBSET PacketType, replies = RecvPackets(ep[p], pkt),
         NEW d2 \in Seq(Nat), d2 = IF pkt.kind = "data" /\ Delivers(ep[p], pkt)
                                     THEN Append(delivered[p], pkt.msg) ELSE delivered[p],
         DirectionHolds(g2, ep[q], log[p], sent[p], net[q] \cup replies, net[p], delivered[q]),
         DirectionHolds(ep[q], g2, log[q], sent[q], net[p], net[q] \cup replies, d2)
  PROVE  Inductive'
<1>1. q \in Peers /\ q # p /\ \A x \in Peers : x = p \/ x = q
  BY AroundPeer
<1>2. TypeOK /\ UnackedIsTimed
  BY DEF Inductive
<1>3. PICK left : left = IF dup THEN net[p] ELSE net[p] \ {pkt}
  OBVIOUS
<1>4. /\ ep' = [ep EXCEPT ![p] = g2]
      /\ net' = [net EXCEPT ![p] = left, ![q] = net[q] \cup replies]
      /\ delivered' = [delivered EXCEPT ![p] = d2]
      /\ closed' = closed /\ log' = log /\ sent' = sent
      /\ duplicates' = (IF dup THEN duplicates + 1 ELSE duplicates)
      /\ dup => duplicates < MaxDuplicates
      /\ ~closed[p]
  <2>1. net' = [net EXCEPT ![p] = left, ![q] = net[q] \cup replies]
    BY <1>1, <1>2, <1>3 DEF Receive, TypeOK
  <2>2. delivered' = [delivered EXCEPT ![p] = d2]
    BY <1>1, <1>2 DEF Receive, TypeOK
  <2> QED BY <2>1, <2>2 DEF Receive
<1>5. /\ ep'[p] = g2 /\ ep'[q] = ep[q]
      /\ net'[p] = left /\ net'[q] = net[q] \cup replies
      /\ delivered'[p] = d2 /\ delivered'[q] = delivered[q]
  BY <1>1, <1>2, <1>4 DEF TypeOK
<1>6. left \subseteq net[p]
  BY <1>3
<1>7. TypeOK'
  <2>1. duplicates' \in 0 .. MaxDuplicates
    BY <1>2, <1>4, LinkAssumption DEF TypeOK
  <2>2. ep' \in [Peers -> EndpointType] /\ delivered' \in [Peers -> Seq(Nat)]
    BY <1>1, <1>2, <1>4 DEF TypeOK
  <2>3. net' \in [Peers -> SUBSET PacketType]
    BY <1>1, <1>2, <1>4, <1>6 DEF TypeOK
  <2>4. \A x \in Peers : ep'[x].sendListPos \in 0 .. Len(ep'[x].sendList)
    BY <1>1, <1>2, <1>5 DEF TypeOK
  <2> QED BY <1>2, <1>4, <2>1, <2>2, <2>3, <2>4 DEF TypeOK
<1>8. UnackedIsTimed'
  <2>1. ep[p].sendList # << >> /\ ~closed[p] => ep[p].sendTimer = "started"
    BY <1>2 DEF UnackedIsTimed
  <2>2. ep[q].sendList # << >> /\ ~closed[q] => ep[q].sendTimer = "started"
    BY <1>1, <1>2 DEF UnackedIsTimed
  <2>3. g2.sendList # << >> => g2.sendTimer = "started"
    BY <1>4, <2>1
  <2> QED BY <1>1, <1>4, <1>5, <2>2, <2>3 DEF UnackedIsTimed
<1>9. DirectionHolds(g2, ep[q], log[p], sent[p], net[q] \cup replies, left, delivered[q])
  BY <1>6 DEF DirectionHolds
<1>10. DirectionHolds(ep[q], g2, log[q], sent[q], left, net[q] \cup replies, d2)
  BY <1>6 DEF DirectionHolds
<1>11. Direction(p, q)' /\ Direction(q, p)'
  BY <1>4, <1>5, <1>9, <1>10 DEF Direction
<1> QED BY <1>7, <1>8, <1>11, BothDirections

\* A keep-alive reaches a peer.
LEMMA NullInductive ==
  ASSUME Inductive, NEW p \in Peers, NEW q, q = Other(p),
         NEW pkt \in net[p], NEW dup \in BOOLEAN, Receive(p, pkt, dup), pkt.kind = "null"
  PROVE  Inductive'
<1>1. /\ q \in Peers /\ q # p
      /\ ep[p] \in EndpointType /\ ep[q] \in EndpointType
      /\ ep[p].sendListPos \in 0 .. Len(ep[p].sendList)
      /\ net[p] \in SUBSET PacketType /\ net[q] \in SUBSET PacketType
      /\ log[p] \in Seq(PieceType) /\ log[q] \in Seq(PieceType)
      /\ sent[p] \in Nat /\ sent[q] \in Nat
      /\ delivered[p] \in Seq(Nat) /\ delivered[q] \in Seq(Nat)
      /\ DirectionHolds(ep[p], ep[q], log[p], sent[p], net[q], net[p], delivered[q])
      /\ DirectionHolds(ep[q], ep[p], log[q], sent[q], net[p], net[q], delivered[p])
  BY AroundPeer
<1>20. PICK replies \in SUBSET PacketType : replies = {}
  OBVIOUS
<1>21. PICK d2 \in Seq(Nat) : d2 = delivered[p]
  BY <1>1
<1>2. PICK g2 \in EndpointType : g2 = Heard(ep[p])
  BY <1>1, HeardFields
<1>3. g2 = RecvFromSocket(ep[p], pkt) /\ replies = RecvPackets(ep[p], pkt)
  BY <1>2, <1>20 DEF RecvFromSocket, RecvPackets
<1>4. /\ g2.sendSequence = ep[p].sendSequence
      /\ g2.sendList = ep[p].sendList
      /\ g2.sendListPos = ep[p].sendListPos
      /\ g2.recvSequence = ep[p].recvSequence
      /\ g2.recvBuffer = ep[p].recvBuffer
      /\ ep[p].sendTimer = "started" => g2.sendTimer = "started"
  BY <1>1, <1>2, HeardFields
<1>5. DirectionHolds(g2, ep[q], log[p], sent[p], net[q] \cup replies, net[p], delivered[q])
  BY <1>1, <1>20, <1>21, <1>4 DEF DirectionHolds
<1>6. DirectionHolds(ep[q], g2, log[q], sent[q], net[p], net[q] \cup replies, d2)
  BY <1>1, <1>20, <1>21, <1>4 DEF DirectionHolds
<1>7. /\ g2.sendListPos \in 0 .. Len(g2.sendList)
      /\ g2.sendList # << >> => ep[p].sendList # << >>
  BY <1>1, <1>4
<1>8. d2 = IF pkt.kind = "data" /\ Delivers(ep[p], pkt)
            THEN Append(delivered[p], pkt.msg) ELSE delivered[p]
  BY <1>21
<1> QED BY <1>1, <1>3, <1>4, <1>5, <1>6, <1>7, <1>8, ReceiveSteps

\* An AckSequence reaches a peer.
LEMMA AckInductive ==
  ASSUME Inductive, NEW p \in Peers, NEW q, q = Other(p),
         NEW pkt \in net[p], NEW dup \in BOOLEAN, Receive(p, pkt, dup), pkt.kind = "ack"
  PROVE  Inductive'
<1>1. /\ q \in Peers /\ q # p
      /\ ep[p] \in EndpointType /\ ep[q] \in EndpointType
      /\ ep[p].sendListPos \in 0 .. Len(ep[p].sendList)
      /\ net[p] \in SUBSET PacketType /\ net[q] \in SUBSET PacketType
      /\ log[p] \in Seq(PieceType) /\ log[q] \in Seq(PieceType)
      /\ sent[p] \in Nat /\ sent[q] \in Nat
      /\ delivered[p] \in Seq(Nat) /\ delivered[q] \in Seq(Nat)
      /\ DirectionHolds(ep[p], ep[q], log[p], sent[p], net[q], net[p], delivered[q])
      /\ DirectionHolds(ep[q], ep[p], log[q], sent[q], net[p], net[q], delivered[p])
  BY AroundPeer
<1>20. PICK replies \in SUBSET PacketType : replies = {}
  OBVIOUS
<1>21. PICK d2 \in Seq(Nat) : d2 = delivered[p]
  BY <1>1
<1>2. PICK s \in Nat : s = pkt.sequence
  BY <1>1, PacketKinds
<1>3. s <= ep[q].recvSequence
  BY <1>1, <1>2 DEF DirectionHolds
<1>4. /\ Popped(ep[p].sendList, s) \in 0 .. Len(ep[p].sendList)
      /\ DirectionHolds(RecvAck(ep[p], s), ep[q], log[p], sent[p], net[q], net[p], delivered[q])
  BY <1>1, <1>3, DirectionAcknowledges
<1>5. PICK g2 \in EndpointType : g2 = RecvAck(ep[p], s)
  BY <1>1, <1>4, RecvAckFields
<1>6. g2 = RecvFromSocket(ep[p], pkt) /\ replies = RecvPackets(ep[p], pkt)
  BY <1>2, <1>5, <1>20 DEF RecvFromSocket, RecvPackets
<1>7. /\ g2.sendListPos = 0
      /\ g2.recvSequence = ep[p].recvSequence
      /\ g2.recvBuffer = ep[p].recvBuffer
      /\ Len(g2.sendList) = Len(ep[p].sendList) - Popped(ep[p].sendList, s)
      /\ ep[p].sendTimer = "started" => g2.sendTimer = "started"
  BY <1>1, <1>4, <1>5, RecvAckFields
<1>8. DirectionHolds(g2, ep[q], log[p], sent[p], net[q] \cup replies, net[p], delivered[q])
  BY <1>4, <1>5, <1>20 DEF DirectionHolds
<1>9. DirectionHolds(ep[q], g2, log[q], sent[q], net[p], net[q] \cup replies, d2)
  BY <1>1, <1>20, <1>21, <1>7 DEF DirectionHolds
<1>10. g2.sendListPos \in 0 .. Len(g2.sendList)
  BY <1>7 DEF EndpointType
<1>11. g2.sendList # << >> => ep[p].sendList # << >>
  <2>1. PICK rest \in Seq(PieceType) : rest = g2.sendList
    BY DEF EndpointType
  <2>2. rest # << >> => Len(rest) > 0
    BY EmptySeq
  <2> QED BY <1>4, <1>7, <2>1, <2>2, EmptySeq
<1>12. d2 = IF pkt.kind = "data" /\ Delivers(ep[p], pkt)
            THEN Append(delivered[p], pkt.msg) ELSE delivered[p]
  BY <1>21
<1> QED BY <1>1, <1>6, <1>7, <1>8, <1>9, <1>10, <1>11, <1>12, ReceiveSteps

\* A piece reaches a peer.
LEMMA DataInductive ==
  ASSUME Inductive, NEW p \in Peers, NEW q, q = Other(p),
         NEW pkt \in net[p], NEW dup \in BOOLEAN, Receive(p, pkt, dup), pkt.kind = "data"
  PROVE  Inductive'
<1>1. /\ q \in Peers /\ q # p
      /\ ep[p] \in EndpointType /\ ep[q] \in EndpointType
      /\ ep[p].sendListPos \in 0 .. Len(ep[p].sendList)
      /\ net[p] \in SUBSET PacketType /\ net[q] \in SUBSET PacketType
      /\ log[p] \in Seq(PieceType) /\ log[q] \in Seq(PieceType)
      /\ sent[p] \in Nat /\ sent[q] \in Nat
      /\ delivered[p] \in Seq(Nat) /\ delivered[q] \in Seq(Nat)
      /\ DirectionHolds(ep[p], ep[q], log[p], sent[p], net[q], net[p], delivered[q])
      /\ DirectionHolds(ep[q], ep[p], log[q], sent[q], net[p], net[q], delivered[p])
  BY AroundPeer
<1>2. pkt \in PieceType
  BY <1>1, PacketKinds
<1>3. IsPieceOf(pkt, log[q])
  BY <1>1 DEF DirectionHolds
<1>4. PICK g2 \in EndpointType : g2 = RecvData(ep[p], pkt)
  BY <1>1, <1>2, RecvDataFields
<1>5. PICK replies \in SUBSET PacketType : replies = {Ack(g2.recvSequence)}
  <2>1. PICK r \in Nat : r = g2.recvSequence
    BY DEF EndpointType
  <2>2. Ack(r) \in PacketType
    BY DEF Ack, PacketType
  <2> QED BY <2>1, <2>2
<1>6. g2 = RecvFromSocket(ep[p], pkt) /\ replies = RecvPackets(ep[p], pkt)
  BY <1>4, <1>5 DEF RecvFromSocket, RecvPackets
<1>7. /\ g2.sendSequence = ep[p].sendSequence
      /\ g2.sendList = ep[p].sendList
      /\ g2.sendListPos = ep[p].sendListPos
      /\ ep[p].sendTimer = "started" => g2.sendTimer = "started"
  BY <1>1, <1>2, <1>4, RecvDataFields
<1>8. PICK d2 \in Seq(Nat) :
        d2 = IF Delivers(ep[p], pkt) THEN Append(delivered[p], pkt.msg) ELSE delivered[p]
  <2>1. pkt.msg \in Nat
    BY <1>2 DEF PieceType
  <2>2. Append(delivered[p], pkt.msg) \in Seq(Nat)
    BY <1>1, <2>1, AppendProperties
  <2> QED BY <1>1, <2>2
<1>9. d2 = IF pkt.kind = "data" /\ Delivers(ep[p], pkt)
             THEN Append(delivered[p], pkt.msg) ELSE delivered[p]
  BY <1>8
<1>10. DirectionHolds(ep[q], g2, log[q], sent[q], net[p], net[q] \cup replies, d2)
  <2>1. PICK h \in EndpointType : h = ep[p]
    BY <1>1
  <2>2. PICK d \in Seq(Nat) : d = delivered[p]
    BY <1>1
  <2>3. DirectionHolds(ep[q], RecvData(h, pkt), log[q], sent[q], net[p],
                       net[q] \cup {Ack(RecvData(h, pkt).recvSequence)},
                       IF Delivers(h, pkt) THEN Append(d, pkt.msg) ELSE d)
    BY <1>1, <1>2, <1>3, <2>1, <2>2, DirectionReceives
  <2> QED BY <1>4, <1>5, <1>8, <2>1, <2>2, <2>3
<1>11. DirectionHolds(g2, ep[q], log[p], sent[p], net[q] \cup replies, net[p], delivered[q])
  <2>1. \A r \in replies : r.kind = "ack"
    BY <1>5 DEF Ack
  <2> QED BY <1>1, <1>7, <2>1 DEF DirectionHolds
<1>12. /\ g2.sendListPos \in 0 .. Len(g2.sendList)
       /\ g2.sendList # << >> => ep[p].sendList # << >>
  BY <1>1, <1>7
<1> QED BY <1>6, <1>7, <1>9, <1>10, <1>11, <1>12, ReceiveSteps

\* Every step of the link keeps the invariant.
LEMMA StepInductive == Inductive /\ [Next]_vars => Inductive'
<1> SUFFICES ASSUME Inductive, [Next]_vars PROVE Inductive'
  OBVIOUS
<1>1. CASE UNCHANGED vars
  BY <1>1 DEF vars, Inductive, TypeOK, UnackedIsTimed, Direction
<1>2. ASSUME NEW p \in Peers, NEW count \in 1 .. MaxPieces, Send(p, count)
      PROVE  Inductive'
  BY <1>2, SendInductive
<1>3. ASSUME NEW p \in Peers, Expire(p)
      PROVE  Inductive'
  BY <1>3, ExpireInductive
<1>4. ASSUME NEW p \in Peers, NEW pkt \in net[p], NEW dup \in BOOLEAN, Receive(p, pkt, dup)
      PROVE  Inductive'
  <2>1. PICK q : q = Other(p)
    OBVIOUS
  <2>2. net[p] \in SUBSET PacketType
    BY <2>1, AroundPeer
  <2>3. pkt.kind \in {"data", "ack", "null"}
    BY <2>2, PacketKinds
  <2> QED BY <1>4, <2>1, <2>3, NullInductive, AckInductive, DataInductive
<1>5. ASSUME NEW p \in Peers, NEW pkt \in net[p], Lose(p, pkt)
      PROVE  Inductive'
  BY <1>5, LoseInductive
<1> QED
  BY <1>1, <1>2, <1>3, <1>4, <1>5 DEF Next

\* The inductive invariant holds in every behaviour of the link.
THEOREM LinkInductive == Spec => []Inductive
<1> QED
  BY InitInductive, StepInductive, PTL DEF Spec

-----------------------------------------------------------------------------
(* What the invariant gives.                                               *)

\* In one direction: no more is delivered than was sent, and all of it when
\* the receiver has every piece.
LEMMA DirectionDelivers ==
  ASSUME NEW g \in EndpointType, NEW h \in EndpointType, NEW l \in Seq(PieceType),
         NEW n \in Nat, NEW ahead, NEW back, NEW d \in Seq(Nat),
         DirectionHolds(g, h, l, n, ahead, back, d)
  PROVE  /\ Len(d) <= n
         /\ \A i \in 1 .. Len(d) : d[i] = i
         /\ h.recvSequence = g.sendSequence => Len(d) = n
<1>1. PICK r \in Nat : r = h.recvSequence
  BY DEF EndpointType
<1>2. /\ r <= Len(l) /\ Len(l) = g.sendSequence
      /\ LogIsWellFormed(l, n)
      /\ ReceiverIsAt(l, r, h.recvBuffer, d)
      /\ \A i \in 1 .. Len(d) : d[i] = i
  BY <1>1 DEF DirectionHolds
<1>3. CASE r = 0
  <2>1. Len(d) = 0
    BY <1>2, <1>3 DEF ReceiverIsAt
  <2>2. Len(l) = 0 => n = 0
    BY <1>2, EmptySeq DEF LogIsWellFormed
  <2> QED BY <1>1, <1>2, <1>3, <2>1, <2>2
<1>4. CASE r # 0
  <2>1. r \in 1 .. Len(l)
    BY <1>2, <1>4
  <2>2. PICK m \in Nat : m = l[r].msg
    <3>1. l[r] \in PieceType
      BY <2>1
    <3> QED BY <3>1 DEF PieceType
  <2>3. m <= n
    BY <1>2, <2>1, <2>2 DEF LogIsWellFormed
  <2>4. IF IsLastMessage(l[r]) THEN Len(d) = m ELSE Len(d) + 1 = m
    BY <1>2, <1>4, <2>2 DEF ReceiverIsAt
  <2>5. r = Len(l) => IsLastMessage(l[r]) /\ m = n
    <3>1. l # << >>
      BY <2>1, EmptySeq
    <3>2. IsLastMessage(l[Len(l)]) /\ l[Len(l)].msg = n
      BY <1>2, <3>1 DEF LogIsWellFormed
    <3> QED BY <2>2, <3>2
  <2>6. Len(d) \in Nat
    OBVIOUS
  <2> QED BY <1>1, <1>2, <2>3, <2>4, <2>5, <2>6
<1> QED BY <1>3, <1>4

\* What is delivered is the message after the last one delivered, and was sent.
LEMMA DeliversNext ==
  ASSUME NEW g \in EndpointType, NEW h \in EndpointType, NEW l \in Seq(PieceType),
         NEW n \in Nat, NEW ahead, NEW back, NEW d \in Seq(Nat),
         DirectionHolds(g, h, l, n, ahead, back, d),
         NEW p \in PieceType, IsPieceOf(p, l), InOrder(h, p)
  PROVE  p.msg = Len(d) + 1 /\ Len(d) < n
<1>1. PICK r \in Nat : r = h.recvSequence
  BY DEF EndpointType
<1>2. p = l[r + 1] /\ r + 1 \in 1 .. Len(l)
  BY <1>1 DEF InOrder, IsPieceOf
<1>3. PICK buffer \in Seq(PieceType) : buffer = h.recvBuffer
  BY DEF EndpointType
<1>4. l[r + 1].msg = Len(d) + 1
  <2>1. LogIsWellFormed(l, n)
    BY DEF DirectionHolds
  <2>2. ReceiverIsAt(l, r, buffer, d)
    BY <1>1, <1>3 DEF DirectionHolds
  <2>3. r + 1 <= Len(l)
    BY <1>2
  <2> QED BY <2>1, <2>2, <2>3, ReceiverBefore
<1>5. l[r + 1].msg \in 1 .. n
  BY <1>2 DEF DirectionHolds, LogIsWellFormed
<1> QED BY <1>2, <1>4, <1>5

\* Every variable of the link keeps its type, and the resend cursor its range.
THEOREM LinkTypeOK == Spec => []TypeOK
<1>1. Inductive => TypeOK
  BY DEF Inductive
<1> QED BY <1>1, LinkInductive, PTL

\* An open endpoint with something to resend always has its timer running.
THEOREM LinkUnackedIsTimed == Spec => []UnackedIsTimed
<1>1. Inductive => UnackedIsTimed
  BY DEF Inductive
<1> QED BY <1>1, LinkInductive, PTL

\* Whatever the network does, each peer is handed the first messages of the
\* other, each once, in the order of sending.
THEOREM LinkInOrderDelivery == Spec => []InOrderDelivery
<1>1. Inductive => InOrderDelivery
  <2> SUFFICES ASSUME Inductive, NEW p \in Peers
               PROVE  /\ Len(delivered[p]) <= sent[Other(p)]
                      /\ \A i \in 1 .. Len(delivered[p]) : delivered[p][i] = i
    BY DEF InOrderDelivery
  <2>1. PICK q : q = Other(p)
    OBVIOUS
  <2>2. /\ ep[p] \in EndpointType /\ ep[q] \in EndpointType
        /\ log[q] \in Seq(PieceType) /\ sent[q] \in Nat /\ delivered[p] \in Seq(Nat)
        /\ DirectionHolds(ep[q], ep[p], log[q], sent[q], net[p], net[q], delivered[p])
    BY <2>1, AroundPeer
  <2>3. /\ Len(delivered[p]) <= sent[q]
        /\ \A i \in 1 .. Len(delivered[p]) : delivered[p][i] = i
    BY <2>2, DirectionDelivers
  <2> QED BY <2>1, <2>3
<1> QED BY <1>1, LinkInductive, PTL

\* When every piece was received, every message was delivered.
THEOREM LinkReceivedIsDelivered == Spec => []ReceivedIsDelivered
<1>1. Inductive => ReceivedIsDelivered
  <2> SUFFICES ASSUME Inductive, NEW p \in Peers,
                      ep[p].recvSequence = ep[Other(p)].sendSequence
               PROVE  Len(delivered[p]) = sent[Other(p)]
    BY DEF ReceivedIsDelivered
  <2>1. PICK q : q = Other(p)
    OBVIOUS
  <2>2. /\ ep[p] \in EndpointType /\ ep[q] \in EndpointType
        /\ log[q] \in Seq(PieceType) /\ sent[q] \in Nat /\ delivered[p] \in Seq(Nat)
        /\ DirectionHolds(ep[q], ep[p], log[q], sent[q], net[p], net[q], delivered[p])
    BY <2>1, AroundPeer
  <2>3. ep[p].recvSequence = ep[q].sendSequence
    BY <2>1
  <2>4. Len(delivered[p]) = sent[q]
    BY <2>2, <2>3, DirectionDelivers
  <2> QED BY <2>1, <2>4
<1> QED BY <1>1, LinkInductive, PTL

\* A piece leaves the send list only after the other side received it.
THEOREM LinkAckedWasReceived == Spec => []AckedWasReceived
<1>1. Inductive => AckedWasReceived
  <2> SUFFICES ASSUME Inductive, NEW p \in Peers
               PROVE  /\ Acknowledged(p) <= ep[Other(p)].recvSequence
                      /\ ep[Other(p)].recvSequence <= ep[p].sendSequence
    BY DEF AckedWasReceived
  <2>1. PICK q : q = Other(p)
    OBVIOUS
  <2>2. DirectionHolds(ep[p], ep[q], log[p], sent[p], net[q], net[p], delivered[q])
    BY <2>1, AroundPeer
  <2> QED BY <2>1, <2>2 DEF DirectionHolds, Acknowledged
<1> QED BY <1>1, LinkInductive, PTL

\* The send list is exactly the window of pieces not acknowledged.
THEOREM LinkSendListIsWindow == Spec => []SendListIsWindow
<1>1. Inductive => SendListIsWindow
  <2> SUFFICES ASSUME Inductive, NEW p \in Peers, NEW i \in 1 .. Len(ep[p].sendList)
               PROVE  ep[p].sendList[i] = log[p][Acknowledged(p) + i]
    BY DEF SendListIsWindow
  <2>1. PICK q : q = Other(p)
    OBVIOUS
  <2>2. DirectionHolds(ep[p], ep[q], log[p], sent[p], net[q], net[p], delivered[q])
    BY <2>1, AroundPeer
  <2> QED BY <2>2 DEF DirectionHolds, IsWindow, Acknowledged
<1> QED BY <1>1, LinkInductive, PTL

\* Reassembly never fails on a piece that can arrive.
THEOREM LinkReassemblySucceeds == Spec => []ReassemblySucceeds
<1>1. Inductive => ReassemblySucceeds
  <2> SUFFICES ASSUME Inductive, NEW p \in Peers, NEW pkt \in net[p], pkt.kind = "data"
               PROVE  ~FailsToDecode(ep[p], pkt)
    BY DEF ReassemblySucceeds, Data
  <2>1. PICK q : q = Other(p)
    OBVIOUS
  <2>2. /\ ep[p] \in EndpointType /\ ep[q] \in EndpointType
        /\ log[q] \in Seq(PieceType) /\ sent[q] \in Nat /\ delivered[p] \in Seq(Nat)
        /\ net[p] \in SUBSET PacketType /\ net[q] \in SUBSET PacketType
        /\ DirectionHolds(ep[q], ep[p], log[q], sent[q], net[p], net[q], delivered[p])
    BY <2>1, AroundPeer
  <2>3. pkt \in PieceType
    BY <2>2, PacketKinds
  <2>4. IsPieceOf(pkt, log[q])
    BY <2>2 DEF DirectionHolds
  <2> QED BY <2>2, <2>3, <2>4, DirectionReceives
<1> QED BY <1>1, LinkInductive, PTL

\* Each step of the link is a step of the reliable channels or leaves them alone.
LEMMA StepRefines == Inductive /\ [Next]_vars => [Channel!Next]_(Channel!chan)
<1> SUFFICES ASSUME Inductive, [Next]_vars PROVE [Channel!Next]_(Channel!chan)
  OBVIOUS
<1>1. CASE UNCHANGED vars
  BY <1>1 DEF vars, Channel!chan
<1>2. ASSUME NEW p \in Peers, NEW count \in 1 .. MaxPieces, Send(p, count)
      PROVE  Channel!Next
  <2>1. Channel!Send(p)
    BY <1>2 DEF Send, Channel!Send
  <2> QED BY <2>1 DEF Channel!Next, Peers
<1>3. ASSUME NEW p \in Peers, Expire(p)
      PROVE  UNCHANGED Channel!chan
  BY <1>3 DEF Expire, Channel!chan
<1>4. ASSUME NEW p \in Peers, NEW pkt \in net[p], NEW dup \in BOOLEAN, Receive(p, pkt, dup)
      PROVE  [Channel!Next]_(Channel!chan)
  <2>1. PICK q : q = Other(p)
    OBVIOUS
  <2>2. /\ q \in Peers /\ Other(q) = p
        /\ ep[p] \in EndpointType /\ ep[q] \in EndpointType
        /\ log[q] \in Seq(PieceType) /\ sent[q] \in Nat /\ delivered[p] \in Seq(Nat)
        /\ net[p] \in SUBSET PacketType /\ net[q] \in SUBSET PacketType
        /\ DirectionHolds(ep[q], ep[p], log[q], sent[q], net[p], net[q], delivered[p])
    BY <2>1, AroundPeer
  <2>3. TypeOK
    BY DEF Inductive
  <2>4. CASE ~(pkt.kind = "data" /\ Delivers(ep[p], pkt))
    <3>1. delivered' = delivered /\ sent' = sent
      BY <1>4, <2>3, <2>4 DEF Receive, TypeOK
    <3> QED BY <3>1 DEF Channel!chan
  <2>5. CASE pkt.kind = "data" /\ Delivers(ep[p], pkt)
    <3>1. delivered' = [delivered EXCEPT ![p] = Append(delivered[p], pkt.msg)] /\ sent' = sent
      BY <1>4, <2>3, <2>5 DEF Receive, TypeOK
    <3>2. pkt \in PieceType
      BY <2>2, <2>5, PacketKinds
    <3>3. IsPieceOf(pkt, log[q]) /\ LogIsWellFormed(log[q], sent[q])
      BY <2>2, <2>5 DEF DirectionHolds
    <3>4. InOrder(ep[p], pkt)
      BY <2>5 DEF Delivers
    <3>5. pkt.msg = Len(delivered[p]) + 1 /\ Len(delivered[p]) < sent[q]
      BY <2>2, <3>2, <3>3, <3>4, DeliversNext
    <3>7. Channel!Receiver(q) = p
      BY <2>2 DEF Channel!Receiver, Other
    <3>8. Channel!Deliver(q)
      BY <3>1, <3>5, <3>7 DEF Channel!Deliver
    <3> QED BY <2>2, <3>8 DEF Channel!Next, Peers
  <2> QED BY <2>4, <2>5
<1>5. ASSUME NEW p \in Peers, NEW pkt \in net[p], Lose(p, pkt)
      PROVE  UNCHANGED Channel!chan
  BY <1>5 DEF Lose, Channel!chan
<1> QED
  BY <1>1, <1>2, <1>3, <1>4, <1>5 DEF Next

\* The link implements a pair of reliable first-in first-out channels.
THEOREM LinkIsReliable == Spec => ChannelSpec
<1>1. Init => Channel!Init
  BY DEF Init, Channel!Init, Peers
<1> QED
  BY <1>1, StepRefines, LinkInductive, PTL DEF Spec, ChannelSpec, Channel!Spec

\* The part of WindowSlides that is about an endpoint g becoming h.
Slides(g, h) ==
  /\ h.sendSequence - Len(h.sendList) >= g.sendSequence - Len(g.sendList)
  /\ h.sendSequence >= g.sendSequence
  /\ h.ackSequence >= g.ackSequence

\* It is enough that the endpoint of the acting peer slides.
LEMMA OneSlides ==
  ASSUME TypeOK, NEW p \in Peers, NEW h \in EndpointType,
         ep' = [ep EXCEPT ![p] = h], Slides(ep[p], h)
  PROVE  \A x \in Peers : Slides(ep[x], ep'[x])
<1> SUFFICES ASSUME NEW x \in Peers PROVE Slides(ep[x], ep'[x])
  OBVIOUS
<1>1. CASE x = p
  <2>1. ep'[x] = h
    BY <1>1 DEF TypeOK
  <2> QED BY <1>1, <2>1
<1>2. CASE x # p
  <2>1. PICK g \in EndpointType : g = ep[x]
    BY DEF TypeOK
  <2>2. ep'[x] = g
    BY <1>2, <2>1 DEF TypeOK
  <2>3. g.sendSequence - Len(g.sendList) \in Int /\ g.sendSequence \in Nat /\ g.ackSequence \in Nat
    BY DEF EndpointType
  <2>4. Slides(g, g)
    BY <2>3 DEF Slides
  <2> QED BY <2>1, <2>2, <2>4
<1> QED BY <1>1, <1>2

\* No handler takes a sequence number back.
LEMMA HandlersSlide ==
  ASSUME NEW g \in EndpointType
  PROVE  /\ \A msg \in Nat, count \in Nat \ {0} : Slides(g, SendViaGoBackN(g, msg, count))
         /\ g.sendListPos \in 0 .. Len(g.sendList) => Slides(g, TimerExpired(g))
         /\ Slides(g, Heard(g))
         /\ \A pkt \in PieceType : Slides(g, RecvData(g, pkt))
         /\ \A n \in Nat : Popped(g.sendList, n) \in 0 .. Len(g.sendList)
                             => Slides(g, RecvAck(g, n))
<1>1. /\ g.sendSequence \in Nat /\ g.ackSequence \in Nat
      /\ g.sendList \in Seq(PieceType) /\ Len(g.sendList) \in Nat
  BY DEF EndpointType
<1>2. ASSUME NEW h \in EndpointType, h.sendSequence = g.sendSequence,
             h.sendList = g.sendList, h.ackSequence = g.ackSequence
      PROVE  Slides(g, h)
  BY <1>1, <1>2 DEF Slides
<1>3. ASSUME NEW msg \in Nat, NEW count \in Nat \ {0}
      PROVE  Slides(g, SendViaGoBackN(g, msg, count))
  <2>1. PICK new \in Seq(PieceType) : new = NewPieces(g, msg, count)
    BY SendFields
  <2>2. PICK h \in EndpointType : h = SendViaGoBackN(g, msg, count)
    BY SendFields
  <2>3. /\ Len(new) = count /\ h.sendSequence = g.sendSequence + count
        /\ h.sendList = g.sendList \o new /\ h.ackSequence = g.ackSequence
    BY <2>1, <2>2, SendFields
  <2>4. Len(h.sendList) = Len(g.sendList) + count
    <3>1. PICK list \in Seq(PieceType) : list = g.sendList
      BY <1>1
    <3>2. Len(list \o new) = Len(list) + Len(new)
      BY AppendingPieces
    <3> QED BY <2>3, <3>1, <3>2
  <2>5. PICK a \in Nat : a = Len(g.sendList)
    BY <1>1
  <2>6. PICK b \in Nat : b = g.sendSequence
    BY <1>1
  <2>7. (b + count) - (a + count) >= b - a /\ b + count >= b
    OBVIOUS
  <2> QED BY <1>1, <2>2, <2>3, <2>4, <2>5, <2>6, <2>7 DEF Slides
<1>4. g.sendListPos \in 0 .. Len(g.sendList) => Slides(g, TimerExpired(g))
  BY <1>2, ExpireFields
<1>5. Slides(g, Heard(g))
  BY <1>2, HeardFields
<1>6. \A pkt \in PieceType : Slides(g, RecvData(g, pkt))
  BY <1>2, RecvDataFields
<1>7. ASSUME NEW n \in Nat, Popped(g.sendList, n) \in 0 .. Len(g.sendList)
      PROVE  Slides(g, RecvAck(g, n))
  <2>1. PICK h \in EndpointType : h = RecvAck(g, n)
    BY <1>7, RecvAckFields
  <2>2. PICK k \in 0 .. Len(g.sendList) : k = Popped(g.sendList, n)
    BY <1>7
  <2>3. /\ h.sendSequence = g.sendSequence /\ h.ackSequence >= g.ackSequence
        /\ Len(h.sendList) = Len(g.sendList) - k
    BY <1>7, <2>1, <2>2, RecvAckFields
  <2> QED BY <1>1, <2>1, <2>3 DEF Slides
<1> QED BY <1>3, <1>4, <1>5, <1>6, <1>7

\* In a step of the link every endpoint slides.
LEMMA StepSlides ==
  ASSUME Inductive, Next
  PROVE  \A x \in Peers : Slides(ep[x], ep'[x])
<1>1. TypeOK
  BY DEF Inductive
<1>2. ASSUME NEW p \in Peers, NEW count \in 1 .. MaxPieces, Send(p, count)
      PROVE  \A x \in Peers : Slides(ep[x], ep'[x])
  <2>1. PICK g \in EndpointType : g = ep[p]
    BY <1>1 DEF TypeOK
  <2>2. sent[p] + 1 \in Nat /\ count \in Nat \ {0}
    BY <1>1, LinkAssumption DEF TypeOK
  <2>3. PICK h \in EndpointType : h = SendViaGoBackN(g, sent[p] + 1, count)
    BY <2>2, SendFields
  <2>4. ep' = [ep EXCEPT ![p] = h]
    BY <1>2, <2>1, <2>3 DEF Send
  <2>5. Slides(g, h)
    BY <2>2, <2>3, HandlersSlide
  <2> QED BY <1>1, <2>1, <2>4, <2>5, OneSlides
<1>3. ASSUME NEW p \in Peers, Expire(p)
      PROVE  \A x \in Peers : Slides(ep[x], ep'[x])
  <2>1. PICK g \in EndpointType : g = ep[p] /\ g.sendListPos \in 0 .. Len(g.sendList)
    BY <1>1 DEF TypeOK
  <2>2. PICK h \in EndpointType : h = TimerExpired(g)
    BY <2>1, ExpireFields
  <2>3. ep' = [ep EXCEPT ![p] = h]
    BY <1>3, <2>1, <2>2 DEF Expire
  <2>4. Slides(g, h)
    BY <2>1, <2>2, HandlersSlide
  <2> QED BY <1>1, <2>1, <2>3, <2>4, OneSlides
<1>4. ASSUME NEW p \in Peers, NEW pkt \in net[p], NEW dup \in BOOLEAN, Receive(p, pkt, dup)
      PROVE  \A x \in Peers : Slides(ep[x], ep'[x])
  <2>1. PICK g \in EndpointType : g = ep[p]
    BY <1>1 DEF TypeOK
  <2>2. pkt \in PacketType
    BY <1>1 DEF TypeOK
  <2>3. PICK h : h = RecvFromSocket(g, pkt)
    OBVIOUS
  <2>4. ep' = [ep EXCEPT ![p] = h]
    BY <1>4, <2>1, <2>3 DEF Receive
  <2>5. h \in EndpointType /\ Slides(g, h)
    <3>1. CASE pkt.kind = "data"
      <4>1. h = RecvData(g, pkt) /\ pkt \in PieceType
        BY <2>2, <2>3, <3>1, PacketKinds DEF RecvFromSocket
      <4> QED BY <4>1, RecvDataFields, HandlersSlide
    <3>2. CASE pkt.kind = "ack"
      <4>1. PICK n \in Nat : n = pkt.sequence
        BY <2>2, <3>2, PacketKinds
      <4>2. h = RecvAck(g, n)
        BY <2>3, <3>2, <4>1 DEF RecvFromSocket
      <4>3. PICK q : q = Other(p)
        OBVIOUS
      <4>4. /\ DirectionHolds(g, ep[q], log[p], sent[p], net[q], net[p], delivered[q])
            /\ ep[q] \in EndpointType
            /\ log[p] \in Seq(PieceType) /\ sent[p] \in Nat /\ delivered[q] \in Seq(Nat)
        BY <2>1, <4>3, AroundPeer
      <4>5. n <= ep[q].recvSequence
        BY <3>2, <4>1, <4>4 DEF DirectionHolds
      <4>6. Popped(g.sendList, n) \in 0 .. Len(g.sendList)
        BY <4>4, <4>5, DirectionAcknowledges
      <4> QED BY <4>2, <4>6, RecvAckFields, HandlersSlide
    <3>3. CASE pkt.kind = "null"
      <4>1. h = Heard(g)
        BY <2>3, <3>3 DEF RecvFromSocket
      <4> QED BY <4>1, HeardFields, HandlersSlide
    <3> QED BY <2>2, <3>1, <3>2, <3>3, PacketKinds
  <2> QED BY <1>1, <2>1, <2>4, <2>5, OneSlides
<1>5. ASSUME NEW p \in Peers, NEW pkt \in net[p], Lose(p, pkt)
      PROVE  \A x \in Peers : Slides(ep[x], ep'[x])
  <2>1. PICK h \in EndpointType : h = ep[p]
    BY <1>1 DEF TypeOK
  <2>2. ep' = [ep EXCEPT ![p] = h]
    BY <1>1, <1>5, <2>1 DEF Lose, TypeOK
  <2>3. h.sendSequence - Len(h.sendList) \in Int /\ h.sendSequence \in Nat /\ h.ackSequence \in Nat
    BY DEF EndpointType
  <2>4. Slides(h, h)
    BY <2>3 DEF Slides
  <2> QED BY <1>1, <2>1, <2>2, <2>4, OneSlides
<1> QED
  BY <1>2, <1>3, <1>4, <1>5 DEF Next

\* No acknowledgement is taken back and no piece is unsent.
THEOREM LinkWindowSlides == Spec => WindowSlides
<1>1. Inductive /\ [Next]_vars
        => [\A p \in Peers :
              /\ Acknowledged(p)' >= Acknowledged(p)
              /\ ep'[p].sendSequence >= ep[p].sendSequence
              /\ ep'[p].ackSequence >= ep[p].ackSequence]_vars
  <2>1. CASE UNCHANGED vars
    BY <2>1
  <2>2. CASE Inductive /\ Next
    BY <2>2, StepSlides DEF Slides, Acknowledged
  <2> QED BY <2>1, <2>2
<1> QED
  BY <1>1, LinkInductive, PTL DEF Spec, WindowSlides
=============================================================================

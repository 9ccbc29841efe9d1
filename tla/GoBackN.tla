------------------------------ MODULE GoBackN ------------------------------
(***************************************************************************)
(* One endpoint of the Go-Back-N transport (lib/GoBackN.hpp, .cpp): the    *)
(* reliable, ordered stream that every SerializableSequence message of the *)
(* program travels on.                                                     *)
(*                                                                         *)
(* An endpoint is a record holding the private members of class GoBackN;   *)
(* each handler of the class is an operator from the endpoint (and what    *)
(* it is called with) to the endpoint it leaves behind, next to operators  *)
(* for what the handler emits through its Owner: packets for               *)
(* goBackNSendRaw, a message for goBackNRecvMsg, a goBackNTimeout.  The    *)
(* modules that own endpoints (GoBackNLink, UdpConnection) turn them into  *)
(* actions.                                                                *)
(*                                                                         *)
(* Abstractions: a message is an opaque value and is cut in count pieces,  *)
(* count = 1 standing for a message sent whole; sequence numbers are not   *)
(* wrapped at 2^32; of the Timer only isStarted() is kept.                  *)
(***************************************************************************)
EXTENDS Integers, Sequences

CONSTANT KeepAliveTicks   \* _keepAlive / _interval: timer ticks of silence

ASSUME KeepAliveTicksAssumption == KeepAliveTicks \in Nat

-----------------------------------------------------------------------------
(* Packets: what goBackNSendRaw puts on the wire.                          *)

\* A whole message (count = 1), or one SplitMessage of a long one.
Piece(sequence, msg, index, count) ==
  [kind |-> "data", sequence |-> sequence, msg |-> msg, index |-> index, count |-> count]

Ack(sequence) == [kind |-> "ack", sequence |-> sequence]
NullMsg       == [kind |-> "null"]                     \* keep-alive
Raw(msg)      == [kind |-> "raw", msg |-> msg]         \* not a SerializableSequence

IsSplit(p)       == p.count > 1

IsLastMessage(p) == p.index + 1 = p.count

-----------------------------------------------------------------------------
(* The endpoint.  sendListPos is the index of the next element to resend,  *)
(* 0 for cend().                                                           *)

NewEndpoint(keepAlive) ==
  [sendSequence |-> 0, recvSequence |-> 0, ackSequence |-> 0,
   sendList |-> << >>, sendListPos |-> 0, recvBuffer |-> << >>,
   sendTimer |-> "stopped", keepAlive |-> keepAlive,
   countDown |-> IF keepAlive THEN KeepAliveTicks ELSE 0,
   skipNextKeepAlive |-> FALSE]

RefreshKeepAlive(g) ==
  [g EXCEPT !.countDown = IF g.keepAlive THEN KeepAliveTicks ELSE 0]

CheckAndStartTimer(g) == [g EXCEPT !.sendTimer = "started"]

SetKeepAlive(g, keepAlive) == RefreshKeepAlive([g EXCEPT !.keepAlive = keepAlive])

DelayKeepAliveOnce(g) == [g EXCEPT !.skipNextKeepAlive = TRUE]

\* Wrong: leaves the cursor in the list it cleared.
ResetKeepingCursor(g) ==
  [g EXCEPT !.sendSequence = 0, !.recvSequence = 0, !.sendList = << >>,
            !.sendTimer = "stopped", !.recvBuffer = << >>]

\* reset() leaves _ackSequence, _countDown and _skipNextKeepAlive alone.
Reset(g) ==
  [g EXCEPT !.sendSequence = 0, !.recvSequence = 0, !.sendList = << >>,
            !.sendListPos = 0, !.sendTimer = "stopped", !.recvBuffer = << >>]

-----------------------------------------------------------------------------
(* sendViaGoBackN: number the pieces, send each once, keep them all.       *)

NewPieces(g, msg, count) ==
  [i \in 1 .. count |-> Piece(g.sendSequence + i, msg, i - 1, count)]

\* Wrong: the timer is left as it is.
SendViaGoBackNUntimed(g, msg, count) ==
  [g EXCEPT !.sendSequence = @ + count,
            !.sendList     = @ \o NewPieces(g, msg, count)]

SendViaGoBackN(g, msg, count) ==
  CheckAndStartTimer(
    [g EXCEPT !.sendSequence = @ + count,
              !.sendList     = @ \o NewPieces(g, msg, count)])

-----------------------------------------------------------------------------
(* timerExpired: resend the next unacknowledged piece, or keep alive.      *)

\* Wrong: starts over at the newest piece.
ResendPosFromNewest(g) == IF g.sendListPos = 0 THEN Len(g.sendList) ELSE g.sendListPos

ResendPos(g) == IF g.sendListPos = 0 THEN 1 ELSE g.sendListPos

Idle(g) == g.sendList = << >> /\ ~g.keepAlive

\* The timer expires, and no packet was heard for KeepAliveTicks of them.
TimesOut(g) == g.keepAlive /\ g.countDown = 0

TimerPackets(g) ==
  IF g.sendList # << >> THEN {g.sendList[ResendPos(g)]}
  ELSE IF g.keepAlive /\ ~g.skipNextKeepAlive THEN {NullMsg} ELSE {}

\* Wrong: returns after a keep-alive, before the count-down and the restart.
TimerExpiredReturning(g) ==
  [g EXCEPT
     !.sendListPos = IF g.sendList = << >> THEN @
                     ELSE IF ResendPos(g) = Len(g.sendList) THEN 0 ELSE ResendPos(g) + 1,
     !.countDown = IF g.sendList # << >> /\ @ > 0 THEN @ - 1 ELSE @,
     !.sendTimer = IF g.sendList = << >> \/ TimesOut(g) THEN "stopped" ELSE "started"]

TimerExpired(g) ==
  [g EXCEPT
     !.sendListPos = IF g.sendList = << >> THEN @
                     ELSE IF ResendPos(g) = Len(g.sendList) THEN 0 ELSE ResendPos(g) + 1,
     !.skipNextKeepAlive = @ /\ (g.sendList # << >> \/ ~g.keepAlive),
     !.countDown = IF g.keepAlive /\ @ > 0 THEN @ - 1 ELSE @,
     !.sendTimer = IF Idle(g) \/ TimesOut(g) THEN "stopped" ELSE "started"]

-----------------------------------------------------------------------------
(* recvFromSocket.                                                         *)

Heard(g) == IF g.keepAlive THEN CheckAndStartTimer(RefreshKeepAlive(g)) ELSE g

\* How many elements the loop of the AckSequence branch pops off the list.
Popped(list, sequence) ==
  CHOOSE k \in 0 .. Len(list) :
    /\ \A i \in 1 .. k : list[i].sequence <= sequence
    /\ k < Len(list) => list[k + 1].sequence > sequence

\* Wrong: an older acknowledgement takes back a newer one.
RecvAckLatest(g, sequence) ==
  [Heard(g) EXCEPT
     !.ackSequence = sequence,
     !.sendList    = SubSeq(@, Popped(@, sequence) + 1, Len(@)),
     !.sendListPos = 0]

RecvAck(g, sequence) ==
  [Heard(g) EXCEPT
     !.ackSequence = IF sequence > @ THEN sequence ELSE @,
     !.sendList    = SubSeq(@, Popped(@, sequence) + 1, Len(@)),
     !.sendListPos = 0]

\* Wrong: accepts a piece again.
InOrderWithRepeats(g, p) == p.sequence <= g.recvSequence + 1

InOrder(g, p) == p.sequence = g.recvSequence + 1

\* Decoding the concatenated bytes yields the original message, and consumes
\* all of them, when they are all its pieces and nothing else.
Decodes(buffer, p) ==
  /\ Len(buffer) = p.count
  /\ \A i \in 1 .. Len(buffer) : buffer[i].msg = p.msg /\ buffer[i].index = i - 1

RecvData(g, p) ==
  IF ~InOrder(g, p) THEN Heard(g)
  ELSE [Heard(g) EXCEPT
          !.recvSequence = @ + 1,
          !.recvBuffer   = IF ~IsSplit(p) THEN @
                           ELSE IF IsLastMessage(p) THEN << >> ELSE Append(@, p)]

\* Wrong: hands over a whole message before looking at its number.
DeliversAnyOrder(g, p) ==
  IsSplit(p) => InOrder(g, p) /\ IsLastMessage(p) /\ Decodes(Append(g.recvBuffer, p), p)

\* What a data piece makes the endpoint hand to goBackNRecvMsg.
Delivers(g, p) ==
  /\ InOrder(g, p)
  /\ IsSplit(p) => IsLastMessage(p) /\ Decodes(Append(g.recvBuffer, p), p)

\* A reassembled message that is thrown away although every piece was acknowledged.
FailsToDecode(g, p) ==
  /\ InOrder(g, p)
  /\ IsSplit(p) /\ IsLastMessage(p) /\ ~Decodes(Append(g.recvBuffer, p), p)

RecvFromSocket(g, p) ==
  CASE p.kind = "ack"  -> RecvAck(g, p.sequence)
    [] p.kind = "data" -> RecvData(g, p)
    [] OTHER           -> Heard(g)

\* Wrong: acknowledges a piece only the first time.
RecvPacketsOnce(g, p) ==
  IF p.kind = "data" /\ InOrder(g, p) THEN {Ack(RecvData(g, p).recvSequence)} ELSE {}

RecvPackets(g, p) == IF p.kind = "data" THEN {Ack(RecvData(g, p).recvSequence)} ELSE {}
=============================================================================

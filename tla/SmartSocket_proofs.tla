-------------------------- MODULE SmartSocket_proofs --------------------------
(***************************************************************************)
(* Theorems about SmartSocket: its variables keep their types, a client    *)
(* whose tunnel is being connected has a match, and the address that the   *)
(* host keeps for a match is the hole of the client matched, unless the    *)
(* ids of two relays coincide.                                             *)
(***************************************************************************)
EXTENDS SmartSocket, FiniteSetTheorems, SequenceTheorems, TLAPS

(* Types.                                                                  *)

MatchId == [relay : Relays, id : Nat]

Message ==
    [type : {"MatchInfo"}, id : Nat] \cup [type : {"Closed"}]
    \cup [type : {"TunInfo"}, id : Nat, address : MatchId \cup {Host}]

SocketType ==
    [state : {"Listening", "Idle", "Connecting", "Connected", "Disconnected"},
     direct : {"None", "Connecting", "Connected"}, heard : BOOLEAN, relay : 1 .. NumRelays + 1,
     vps : {"None", "Connecting", "Open"}, asked : BOOLEAN, inbox : Seq(Message), timer : BOOLEAN,
     match : MatchId \cup {None}, tun : {"None", "Bound", "Connecting", "Accepted", "Connected"},
     sending : BOOLEAN]

RelayType ==
    [host : BOOLEAN, last : Nat, matches : SUBSET [id : Nat, client : Clients, untold : SUBSET Apps]]

PendingType == [id : Nat, of : MatchId, address : MatchId \cup {None, Host}]

(* The inductive invariant.                                                *)

\* it has a match, or will read of one
Known(s) == s.match # None \/ \E j \in 1 .. Len(s.inbox) : s.inbox[j].type = "MatchInfo"

\* it reads of a match before it reads of the other end's hole
Told(s) ==
    \A k \in 1 .. Len(s.inbox) :
        s.inbox[k].type = "TunInfo" =>
            s.match # None \/ \E j \in 1 .. k - 1 : s.inbox[j].type = "MatchInfo"

ClientHolds(s) ==
    /\ s.tun # "None" \/ s.sending => s.match # None
    /\ Told(s)

\* what holds of the SmartSocket p when it is s
Holds(p, s) ==
    /\ s \in SocketType
    /\ s.vps # "None" => s.relay \in Relays
    /\ IF p = Host THEN s.state = "Listening" /\ s.tun = "None" ELSE ClientHolds(s)

SocketsHold(f) == f \in [Apps -> SocketType] /\ \A p \in Apps : Holds(p, f[p])

SocketsInv == SocketsHold(sock)

\* from f to g, no SmartSocket goes to another relay, and none forgets its match
Unmoved(f, g) ==
    \A p \in Apps :
        /\ g[p].vps = f[p].vps /\ g[p].relay = f[p].relay
        /\ g[p].sending = f[p].sending /\ g[p].match = f[p].match
        /\ Known(f[p]) => Known(g[p])

At(p, r) == sock[p].vps = "Open" /\ sock[p].relay = r

\* who is still to be told of the match m is connected to the relay r, and a client knows
\* of its match
MatchHolds(r, m) ==
    /\ Host \in m.untold => At(Host, r)
    /\ m.client \in m.untold => At(m.client, r) /\ Known(sock[m.client])

\* a relay knows only who is connected to it, and matched only who was told of it
RelayInv ==
    /\ relay \in [Relays -> RelayType]
    /\ \A r \in Relays : relay[r].host => At(Host, r)
    /\ \A r \in Relays : \A m \in relay[r].matches :
         MatchHolds(r, m)

\* the host keeps one pending client per match
OnePerMatch(P) == P \subseteq PendingType /\ IsFiniteSet(P) /\ \A t, u \in P : t.id = u.id => t = u

PendingInv ==
    /\ OnePerMatch(pending)
    /\ stale \in Nat
    /\ pending # {} => sock[Host].sending

TypeInv == SocketsInv /\ RelayInv /\ PendingInv

(* The strengthening for SameMatch.                                        *)

\* before the message after the n-th, a host h with the pending clients P keeps only the
\* match of its relay under the id, or has it to read
Ready(h, P, n, id) ==
    \/ \E j \in 1 .. n : h.inbox[j].type = "MatchInfo" /\ h.inbox[j].id = id
    \/ \A t \in P : t.id = id => t.of = [relay |-> h.relay, id |-> id]

\* it is told of holes for matches of its relay alone, after the match, and keeps them
HostHolds(h, P) ==
    /\ \A k \in 1 .. Len(h.inbox) :
         h.inbox[k].type = "TunInfo" =>
           /\ h.inbox[k].address = [relay |-> h.relay, id |-> h.inbox[k].id]
           /\ Ready(h, P, k - 1, h.inbox[k].id)
    /\ \A t \in P : t.address \in {None, t.of}

\* when it has read all, it is ready for every match that it is still to be told of
MatchesHold(h, P) ==
    \A r \in Relays : \A m \in relay[r].matches :
        Host \in m.untold => Ready(h, P, Len(h.inbox), m.id)

SameInv == HostHolds(sock[Host], pending) /\ MatchesHold(sock[Host], pending)

-----------------------------------------------------------------------------
(* What the operators do.                                                  *)

\* The names of no match, of the host and of a match differ.
LEMMA Names == Host \notin Clients /\ None # Host /\ None \notin MatchId /\ NumRelays \in Nat \ {0}
  BY SmartSocketAssumption DEF MatchId, Relays

\* The position in the list of relays is in the list, or at its end.
LEMMA RelayPositions ==
  /\ Relays \subseteq 1 .. NumRelays + 1 /\ NumRelays + 1 \in 1 .. NumRelays + 1 /\ 1 \in Relays
  /\ \A n \in 1 .. NumRelays + 1 : n < NumRelays => n + 1 \in Relays
  BY Names DEF Relays

\* A message that comes last leaves what was read before it.
LEMMA AppendInbox ==
  ASSUME NEW s \in SocketType, NEW msg \in Message
  PROVE  LET t == [s EXCEPT !.inbox = Append(@, msg)] IN
         /\ t \in SocketType
         /\ Known(s) \/ msg.type = "MatchInfo" => Known(t)
         /\ Told(s) /\ (msg.type = "TunInfo" => Known(s)) => Told(t)
<1> DEFINE t == [s EXCEPT !.inbox = Append(@, msg)]
<1>1. PICK box \in Seq(Message) : box = s.inbox
  BY DEF SocketType
<1>2. PICK n \in Nat : n = Len(box)
  BY <1>1, LenProperties
<1>3. /\ Append(box, msg) \in Seq(Message) /\ Len(Append(box, msg)) = n + 1
      /\ \A j \in 1 .. n : Append(box, msg)[j] = box[j]
      /\ Append(box, msg)[n + 1] = msg
  BY <1>1, <1>2, AppendProperties
<1>4. t \in SocketType /\ t.inbox = Append(box, msg) /\ t.match = s.match
  BY <1>1, <1>3 DEF SocketType
<1>5. ASSUME Known(s) \/ msg.type = "MatchInfo"
      PROVE  Known(t)
  <2>1. CASE s.match # None
    BY <2>1, <1>4 DEF Known
  <2>2. CASE \E j \in 1 .. n : box[j].type = "MatchInfo"
    <3>1. PICK j \in 1 .. n : box[j].type = "MatchInfo"
      BY <2>2
    <3>2. j \in 1 .. n + 1
      BY <1>2
    <3> QED
      BY <3>1, <3>2, <1>3, <1>4 DEF Known
  <2>3. CASE msg.type = "MatchInfo"
    <3>1. n + 1 \in 1 .. n + 1
      BY <1>2
    <3> QED
      BY <3>1, <2>3, <1>3, <1>4 DEF Known
  <2> QED
    BY <1>5, <2>1, <2>2, <2>3, <1>1, <1>2 DEF Known
<1>6. ASSUME Told(s), msg.type = "TunInfo" => Known(s)
      PROVE  Told(t)
  <2> SUFFICES ASSUME NEW k \in 1 .. n + 1, t.inbox[k].type = "TunInfo", s.match = None
               PROVE  \E j \in 1 .. k - 1 : t.inbox[j].type = "MatchInfo"
    BY <1>3, <1>4 DEF Told
  <2>1. CASE k \in 1 .. n
    <3>1. PICK j \in 1 .. k - 1 : box[j].type = "MatchInfo"
      BY <2>1, <1>1, <1>2, <1>3, <1>4, <1>6 DEF Told
    <3>2. j \in 1 .. n
      BY <2>1, <1>2
    <3> QED
      BY <3>1, <3>2, <1>3, <1>4
  <2>2. CASE k = n + 1
    <3>1. PICK j \in 1 .. n : box[j].type = "MatchInfo"
      BY <2>2, <1>1, <1>2, <1>3, <1>4, <1>6 DEF Known
    <3>2. j \in 1 .. k - 1
      BY <2>2, <1>2
    <3> QED
      BY <3>1, <3>2, <1>3, <1>4
  <2>3. k \in 1 .. n \/ k = n + 1
    BY ONLY <1>2, k \in 1 .. n + 1
  <2> QED
    BY <2>1, <2>2, <2>3
<1> QED
  BY <1>4, <1>5, <1>6

\* The message that is read is the first one, and a client that reads of the other
\* end's hole has a match.
LEMMA ReadInbox ==
  ASSUME NEW s \in SocketType, s.inbox # << >>
  PROVE  LET t == [s EXCEPT !.inbox = Tail(@)]
             msg == Head(s.inbox)
         IN  /\ t \in SocketType
             /\ msg \in Message
             /\ Told(s) /\ msg.type = "TunInfo" => s.match # None
<1> DEFINE t == [s EXCEPT !.inbox = Tail(@)]
           msg == Head(s.inbox)
<1>1. PICK box \in Seq(Message) : box = s.inbox
  BY DEF SocketType
<1>2. Head(box) \in Message /\ Tail(box) \in Seq(Message) /\ Len(box) \in Nat \ {0} /\ Head(box) = box[1]
  BY <1>1, HeadTailProperties, EmptySeq
<1>3. t \in SocketType
  BY <1>1, <1>2 DEF SocketType
<1>4. 1 \in 1 .. Len(box) /\ 1 .. 1 - 1 = {}
  BY <1>2
<1>5. ASSUME Told(s), msg.type = "TunInfo"
      PROVE  s.match # None
  BY <1>1, <1>2, <1>4, <1>5 DEF Told
<1> QED
  BY <1>1, <1>2, <1>3, <1>5

\* A message that is read has the fields of its type.
LEMMA MessageFields ==
  ASSUME NEW msg \in Message
  PROVE  /\ msg.type = "MatchInfo" \/ msg.type = "TunInfo" => msg.id \in Nat
         /\ msg.type = "TunInfo" => msg.address \in MatchId \cup {Host}
         /\ msg.type \in {"MatchInfo", "TunInfo", "Closed"}
  BY DEF Message

\* A connection to a relay is begun.
LEMMA TryRelayType ==
  ASSUME NEW s \in SocketType, NEW n \in Relays
  PROVE  LET t == TryRelay(s, n) IN
         /\ t \in SocketType /\ t.relay = n /\ t.vps = "Connecting"
         /\ Told(t)
         /\ t.state = s.state /\ t.tun = s.tun /\ t.match = s.match /\ t.sending = s.sending
<1> DEFINE t == TryRelay(s, n)
<1>1. << >> \in Seq(Message) /\ Len(<< >>) = 0 /\ 1 .. 0 = {}
  BY EmptySeq
<1>2. n \in 1 .. NumRelays + 1
  BY RelayPositions
<1>3. t \in SocketType
  BY <1>1, <1>2 DEF SocketType, TryRelay
<1>4. t.inbox = << >> /\ t.relay = n /\ t.vps = "Connecting"
  BY DEF SocketType, TryRelay
<1>5. t.state = s.state /\ t.tun = s.tun /\ t.match = s.match /\ t.sending = s.sending
  BY DEF SocketType, TryRelay
<1>6. Told(t)
  BY <1>1, <1>4 DEF Told
<1> QED
  BY <1>3, <1>4, <1>5, <1>6

\* A new SmartSocket has no connection.
LEMMA NewSocketType ==
  ASSUME NEW state \in {"Listening", "Idle", "Connecting", "Connected", "Disconnected"}
  PROVE  LET s == NewSocket(state) IN
         /\ s \in SocketType /\ Told(s)
         /\ s.state = state /\ s.tun = "None" /\ s.vps = "None" /\ ~s.sending
<1>1. << >> \in Seq(Message) /\ Len(<< >>) = 0 /\ 1 .. 0 = {}
  BY EmptySeq
<1>2. 1 \in 1 .. NumRelays + 1
  BY RelayPositions
<1> QED
  BY <1>1, <1>2 DEF NewSocket, SocketType, Told

\* One that is disconnected is a new one.
LEMMA DisconnectedHolds ==
  ASSUME NEW c \in Clients, NEW s
  PROVE  Holds(c, Disconnected(s))
  BY NewSocketType, Names DEF Disconnected, Holds, ClientHolds

\* The next relay is tried, if there is one.
LEMMA NextRelayHolds ==
  ASSUME NEW p \in Apps, NEW s \in SocketType, s.relay \in Relays,
         IF p = Host THEN s.state = "Listening" /\ s.tun = "None"
                     ELSE s.tun # "None" \/ s.sending => s.match # None
  PROVE  LET t == NextRelay(s) IN
         /\ Holds(p, t) /\ t.vps # "Open"
         /\ p = Host => t.sending = s.sending
<1> DEFINE t == NextRelay(s)
<1>1. CASE s.relay < NumRelays
  <2> DEFINE u == TryRelay(s, s.relay + 1)
  <2>1. s.relay + 1 \in Relays
    BY <1>1, RelayPositions
  <2>2. /\ u \in SocketType /\ u.relay = s.relay + 1 /\ u.vps = "Connecting" /\ Told(u)
        /\ u.state = s.state /\ u.tun = s.tun /\ u.match = s.match /\ u.sending = s.sending
    BY <2>1, TryRelayType
  <2>3. t = [u EXCEPT !.timer = FALSE]
    BY <1>1 DEF NextRelay
  <2> HIDE DEF u, t
  <2>4. /\ t \in SocketType /\ t.relay = s.relay + 1 /\ t.vps = "Connecting"
        /\ t.inbox = u.inbox /\ t.match = u.match
        /\ t.state = s.state /\ t.tun = s.tun /\ t.match = s.match /\ t.sending = s.sending
    BY <2>2, <2>3 DEF SocketType
  <2>5. Told(t)
    BY <2>2, <2>4 DEF Told
  <2> QED
    BY <2>1, <2>4, <2>5 DEF Holds, ClientHolds, t
<1>2. CASE ~(s.relay < NumRelays) /\ s.state = "Connecting"
  <2>1. p \in Clients
    BY <1>2 DEF Apps
  <2>2. t = Disconnected(s)
    BY <1>2 DEF NextRelay
  <2>3. t.vps = "None"
    BY <2>2, NewSocketType DEF Disconnected
  <2> QED
    BY <2>1, <2>2, <2>3, DisconnectedHolds, Names
<1>3. CASE ~(s.relay < NumRelays) /\ s.state # "Connecting"
  <2>1. t = [s EXCEPT !.relay = NumRelays + 1, !.vps = "None", !.asked = FALSE, !.inbox = << >>]
    BY <1>3 DEF NextRelay
  <2>2. << >> \in Seq(Message) /\ Len(<< >>) = 0 /\ 1 .. 0 = {}
    BY EmptySeq
  <2>3. NumRelays + 1 \in 1 .. NumRelays + 1
    BY RelayPositions
  <2> HIDE DEF t
  <2>4. /\ t \in SocketType /\ t.inbox = << >> /\ t.vps = "None"
        /\ t.state = s.state /\ t.tun = s.tun /\ t.match = s.match /\ t.sending = s.sending
    BY <2>1, <2>2, <2>3 DEF SocketType
  <2>5. Told(t)
    BY <2>2, <2>4 DEF Told
  <2> QED
    BY <2>4, <2>5 DEF Holds, ClientHolds, t
<1> QED
  BY <1>1, <1>2, <1>3

-----------------------------------------------------------------------------
(* Steps of one SmartSocket.                                               *)

\* A relay that forgets p keeps its type, and nothing that is not p's.
LEMMA ForgetType ==
  ASSUME NEW r \in RelayType, NEW p \in Apps
  PROVE  LET t == Forget(r, p) IN
         /\ t \in RelayType
         /\ t.host => r.host /\ p # Host
         /\ t.matches \subseteq {m \in r.matches : p \notin m.untold}
         /\ p # Host => t.host = r.host
  BY DEF Forget, RelayType

\* A SmartSocket that becomes s is still known only to the relay that it is connected
\* to, and to no relay if it has left.
LEMMA BecomesInv ==
  ASSUME NEW p \in Apps, NEW s, SocketsInv, RelayInv, Becomes(p, s), Holds(p, s),
         p # Host /\ sock[p].vps = "Open" /\ s.vps = "Open" /\ Known(sock[p]) => Known(s)
  PROVE  SocketsInv' /\ RelayInv'
<1>1. sock' = [sock EXCEPT ![p] = s] /\ relay' = RelaysAfter(p, s)
  BY DEF Becomes
<1>2. sock \in [Apps -> SocketType] /\ relay \in [Relays -> RelayType] /\ s \in SocketType
  BY DEF SocketsInv, SocketsHold, RelayInv, Holds
<1>3. sock'[p] = s /\ \A q \in Apps \ {p} : sock'[q] = sock[q]
  BY <1>1, <1>2
<1>4. SocketsInv'
  <2>1. sock' \in [Apps -> SocketType]
    BY <1>1, <1>2
  <2>2. \A q \in Apps : Holds(q, sock'[q])
    BY <1>3 DEF SocketsInv, SocketsHold
  <2> QED
    BY <2>1, <2>2 DEF SocketsInv, SocketsHold
<1>5. ASSUME NEW r \in Relays
      PROVE  /\ relay'[r] \in RelayType
             /\ relay'[r].host => At(Host, r)'
             /\ \A m \in relay'[r].matches : MatchHolds(r, m)'
  <2>1. CASE sock[p].vps = "Open" /\ sock[p].relay = r /\ (s.vps # "Open" \/ s.relay # r)
    <3>1. relay'[r] = Forget(relay[r], p)
      BY <1>1, <2>1 DEF RelaysAfter
    <3>2. /\ relay'[r] \in RelayType
          /\ relay'[r].host => relay[r].host /\ p # Host
          /\ relay'[r].matches \subseteq {m \in relay[r].matches : p \notin m.untold}
          /\ p # Host => relay'[r].host = relay[r].host
      BY <3>1, <1>2, ForgetType
    <3>3. relay'[r].host => At(Host, r)'
      BY <3>2, <1>3 DEF RelayInv, At, Apps
    <3>4. ASSUME NEW m \in relay'[r].matches
          PROVE  MatchHolds(r, m)'
      <4>1. m \in relay[r].matches /\ p \notin m.untold
        BY <3>2
      <4>2. MatchHolds(r, m) /\ m.client \in Apps /\ Host \in Apps
        BY <4>1, <1>2 DEF RelayInv, RelayType, Apps
      <4>3. \A q \in m.untold \cap Apps : sock'[q] = sock[q]
        BY <4>1, <1>3
      <4> QED
        BY <4>2, <4>3 DEF MatchHolds, At
    <3> QED
      BY <3>2, <3>3, <3>4
  <2>2. CASE ~(sock[p].vps = "Open" /\ sock[p].relay = r /\ (s.vps # "Open" \/ s.relay # r))
    <3>1. relay'[r] = relay[r]
      BY <1>1, <2>2 DEF RelaysAfter
    <3>2. At(p, r) => At(p, r)' /\ s.vps = "Open"
      BY <2>2, <1>3 DEF At
    <3>3. \A q \in Apps : At(q, r) => At(q, r)'
      BY <3>2, <1>3 DEF At
    <3>4. ASSUME NEW m \in relay[r].matches
          PROVE  MatchHolds(r, m)'
      <4>1. MatchHolds(r, m) /\ m.client \in Clients /\ m.client \in Apps /\ Host \in Apps
        BY <1>2 DEF RelayInv, RelayType, Apps
      <4>2. m.client \in m.untold => Known(sock'[m.client])
        BY <4>1, <3>2, <1>3, Names DEF MatchHolds, At
      <4> QED
        BY <4>1, <4>2, <3>3 DEF MatchHolds
    <3> QED
      BY <3>1, <3>3, <3>4, <1>2 DEF RelayInv, Apps
  <2> QED
    BY <2>1, <2>2
<1>6. relay' \in [Relays -> RelayType]
  BY <1>1, <1>5 DEF RelaysAfter
<1> QED
  BY <1>4, <1>5, <1>6 DEF RelayInv

\* The invariant holds after a step of p alone that leaves the pending clients.
LEMMA BecomesTypeInv ==
  ASSUME NEW p \in Apps, NEW s, TypeInv, Becomes(p, s), Holds(p, s), UNCHANGED <<pending, stale>>,
         p # Host /\ sock[p].vps = "Open" /\ s.vps = "Open" /\ Known(sock[p]) => Known(s),
         p = Host => s.sending = sock[p].sending
  PROVE  TypeInv'
<1>1. SocketsInv' /\ RelayInv'
  BY BecomesInv DEF TypeInv
<1>2. sock'[Host].sending = sock[Host].sending
  BY DEF TypeInv, SocketsInv, SocketsHold, Becomes, Apps
<1> QED
  BY <1>1, <1>2 DEF TypeInv, PendingInv

\* A client is a SmartSocket whose tunnel has a match.
LEMMA ClientFields ==
  ASSUME TypeInv, NEW c \in Clients
  PROVE  /\ c \in Apps /\ c # Host /\ sock[c] \in SocketType
         /\ sock[c].vps # "None" => sock[c].relay \in Relays
         /\ ClientHolds(sock[c])
<1>1. c \in Apps /\ c # Host
  BY Names DEF Apps
<1> QED
  BY <1>1 DEF TypeInv, SocketsInv, SocketsHold, Holds

\* A client that changes neither its connection to a relay, what it knows of its match,
\* nor what it is told, and needs its match for no more than before.
LEMMA ClientStep ==
  ASSUME NEW c \in Clients, NEW s \in SocketType, TypeInv, Becomes(c, s), UNCHANGED <<pending, stale>>,
         s.inbox = sock[c].inbox, s.match = sock[c].match, s.vps # "None" => s.relay \in Relays,
         s.tun # "None" \/ s.sending => s.match # None
  PROVE  TypeInv'
<1>1. /\ c \in Apps /\ c # Host /\ ClientHolds(sock[c])
  BY ClientFields
<1>2. Holds(c, s) /\ (Known(sock[c]) => Known(s))
  BY <1>1 DEF Holds, ClientHolds, Told, Known
<1> QED
  BY <1>1, <1>2, BecomesTypeInv

\* A client gives up.
LEMMA ClientGivesUp ==
  ASSUME NEW c \in Clients, NEW s, TypeInv, Becomes(c, Disconnected(s)), UNCHANGED <<pending, stale>>
  PROVE  TypeInv'
<1>1. c \in Apps /\ c # Host
  BY ClientFields
<1>2. Disconnected(s).vps = "None"
  BY NewSocketType DEF Disconnected
<1> QED
  BY <1>1, <1>2, DisconnectedHolds, BecomesTypeInv

\* A client begins a connection to a relay.
LEMMA ClientTriesRelay ==
  ASSUME NEW c \in Clients, NEW s \in SocketType, NEW n \in Relays, TypeInv, Becomes(c, TryRelay(s, n)),
         UNCHANGED <<pending, stale>>, s.tun # "None" \/ s.sending => s.match # None
  PROVE  TypeInv'
<1> DEFINE t == TryRelay(s, n)
<1>1. c \in Apps /\ c # Host
  BY ClientFields
<1>2. /\ t \in SocketType /\ t.relay = n /\ t.vps = "Connecting" /\ Told(t)
      /\ t.tun = s.tun /\ t.match = s.match /\ t.sending = s.sending
  BY TryRelayType
<1>3. Holds(c, t)
  BY <1>1, <1>2 DEF Holds, ClientHolds
<1> QED
  BY <1>1, <1>2, <1>3, BecomesTypeInv

-----------------------------------------------------------------------------
(* The steps of clients.                                                   *)

\* The constructor of a client begins one connection.
LEMMA ConnectTypeInv ==
  ASSUME TypeInv, NEW c \in Clients, Connect(c)
  PROVE  TypeInv'
<1> DEFINE s == NewSocket("Connecting")
           t == [s EXCEPT !.direct = "Connecting"]
<1>1. PICK forceTun \in BOOLEAN : Becomes(c, IF forceTun THEN TryRelay(s, 1) ELSE t)
  BY DEF Connect
<1>2. UNCHANGED <<pending, stale>>
  BY DEF Connect
<1>3. s \in SocketType /\ Told(s) /\ s.tun = "None" /\ s.vps = "None" /\ ~s.sending
  BY NewSocketType
<1>4. CASE forceTun
  <2>1. Becomes(c, TryRelay(s, 1))
    BY <1>1, <1>4
  <2> QED
    BY <2>1, <1>2, <1>3, ClientTriesRelay, RelayPositions
<1>5. CASE ~forceTun
  <2>1. Becomes(c, t)
    BY <1>1, <1>5
  <2> HIDE DEF s
  <2>2. /\ t \in SocketType /\ t.inbox = s.inbox /\ t.match = s.match /\ t.tun = "None" /\ t.vps = "None"
        /\ ~t.sending
    BY <1>3 DEF SocketType
  <2>3. Holds(c, t)
    BY <2>2, <1>3, Names DEF Holds, ClientHolds, Told
  <2>4. c \in Apps /\ c # Host
    BY ClientFields
  <2> QED
    BY <2>1, <2>2, <2>3, <2>4, <1>2, BecomesTypeInv
<1> QED
  BY <1>4, <1>5

\* A direct connection has nothing to do with a relay.
LEMMA DirectConnectedTypeInv ==
  ASSUME TypeInv, NEW c \in Clients, DirectConnected(c)
  PROVE  TypeInv'
<1> DEFINE s == [Connected(sock[c]) EXCEPT !.direct = "Connected"]
<1>1. Becomes(c, s) /\ UNCHANGED <<pending, stale>>
  BY DEF DirectConnected
<1>2. /\ sock[c] \in SocketType /\ (sock[c].vps # "None" => sock[c].relay \in Relays)
      /\ ClientHolds(sock[c])
  BY ClientFields
<1>3. /\ s \in SocketType /\ s.inbox = sock[c].inbox /\ s.match = sock[c].match
      /\ s.vps = sock[c].vps /\ s.relay = sock[c].relay /\ s.tun = sock[c].tun /\ ~s.sending
  BY <1>2 DEF SocketType, Connected
<1> QED
  BY <1>1, <1>2, <1>3, ClientStep DEF ClientHolds

\* What is read directly has nothing to do with a relay.
LEMMA DirectReadTypeInv ==
  ASSUME TypeInv, NEW c \in Clients, DirectRead(c)
  PROVE  TypeInv'
<1> DEFINE s == [sock[c] EXCEPT !.heard = TRUE]
<1>1. Becomes(c, s) /\ UNCHANGED <<pending, stale>>
  BY DEF DirectRead
<1>2. /\ sock[c] \in SocketType /\ (sock[c].vps # "None" => sock[c].relay \in Relays)
      /\ ClientHolds(sock[c])
  BY ClientFields
<1>3. /\ s \in SocketType /\ s.inbox = sock[c].inbox /\ s.match = sock[c].match
      /\ s.vps = sock[c].vps /\ s.relay = sock[c].relay /\ s.tun = sock[c].tun
      /\ s.sending = sock[c].sending
  BY <1>2 DEF SocketType
<1> QED
  BY <1>1, <1>2, <1>3, ClientStep DEF ClientHolds

\* A client whose direct connection fails turns to the first relay, with the match it
\* may have from an earlier attempt.
LEMMA DirectDisconnectedTypeInv ==
  ASSUME TypeInv, NEW c \in Clients, DirectDisconnected(c)
  PROVE  TypeInv'
<1> DEFINE s == [sock[c] EXCEPT !.direct = "None", !.heard = FALSE]
<1>1. Becomes(c, TryRelay(s, 1)) /\ UNCHANGED <<pending, stale>>
  BY DEF DirectDisconnected
<1>2. sock[c] \in SocketType /\ ClientHolds(sock[c])
  BY ClientFields
<1>3. s \in SocketType /\ s.match = sock[c].match /\ s.tun = sock[c].tun /\ s.sending = sock[c].sending
  BY <1>2 DEF SocketType
<1> HIDE DEF s
<1> QED
  BY <1>1, <1>2, <1>3, ClientTriesRelay, RelayPositions DEF ClientHolds

\* A client whose connect timer expires gives up.
LEMMA ConnectTimedOutTypeInv ==
  ASSUME TypeInv, NEW c \in Clients, ConnectTimedOut(c)
  PROVE  TypeInv'
  BY ClientGivesUp DEF ConnectTimedOut

\* A client whose tunnel is gone gives up.
LEMMA TunDisconnectedTypeInv ==
  ASSUME TypeInv, NEW c \in Clients, TunDisconnected(c)
  PROVE  TypeInv'
  BY ClientGivesUp DEF TunDisconnected

\* A tunnel that is connected has a match, and opens no hole any more.
LEMMA TunConnectedTypeInv ==
  ASSUME TypeInv, NEW c \in Clients, TunConnected(c)
  PROVE  TypeInv'
<1> DEFINE s == [Connected(sock[c]) EXCEPT !.tun = "Connected"]
<1>1. Becomes(c, s) /\ UNCHANGED <<pending, stale>> /\ sock[c].tun = "Accepted"
  BY DEF TunConnected
<1>2. /\ sock[c] \in SocketType /\ (sock[c].vps # "None" => sock[c].relay \in Relays)
      /\ ClientHolds(sock[c])
  BY ClientFields
<1>3. /\ s \in SocketType /\ s.inbox = sock[c].inbox /\ s.match = sock[c].match
      /\ s.vps = sock[c].vps /\ s.relay = sock[c].relay /\ ~s.sending
  BY <1>2 DEF SocketType, Connected
<1> QED
  BY <1>1, <1>2, <1>3, ClientStep DEF ClientHolds

-----------------------------------------------------------------------------
(* The steps at the relays.                                                *)

\* A message that reaches the inbox of q leaves the invariant of the sockets.
LEMMA InboxTypeInv ==
  ASSUME NEW f, SocketsHold(f), NEW q \in Apps, NEW msg \in Message,
         q # Host /\ msg.type = "TunInfo" => Known(f[q])
  PROVE  LET g == [f EXCEPT ![q].inbox = Append(@, msg)] IN
         /\ SocketsHold(g) /\ Unmoved(f, g)
         /\ msg.type = "MatchInfo" => Known(g[q])
<1> DEFINE s == f[q]
           t == [s EXCEPT !.inbox = Append(@, msg)]
           g == [f EXCEPT ![q] = t]
<1>1. f \in [Apps -> SocketType] /\ s \in SocketType /\ Holds(q, s)
  BY DEF SocketsHold
<1>2. /\ t \in SocketType
      /\ Known(s) \/ msg.type = "MatchInfo" => Known(t)
      /\ Told(s) /\ (msg.type = "TunInfo" => Known(s)) => Told(t)
  BY <1>1, AppendInbox
<1>3. [f EXCEPT ![q].inbox = Append(@, msg)] = g
  OBVIOUS
<1>4. /\ t.state = s.state /\ t.tun = s.tun /\ t.match = s.match /\ t.sending = s.sending
      /\ t.vps = s.vps /\ t.relay = s.relay
  BY <1>1 DEF SocketType
<1>5. Holds(q, t)
  BY <1>1, <1>2, <1>4 DEF Holds, ClientHolds
<1> HIDE DEF t
<1>6. g[q] = t /\ \A p \in Apps \ {q} : g[p] = f[p]
  BY <1>1
<1>7. g \in [Apps -> SocketType]
  BY <1>1, <1>2
<1> HIDE DEF g
<1>8. SocketsHold(g)
  BY <1>5, <1>6, <1>7 DEF SocketsHold
<1>9. Unmoved(f, g)
  BY <1>2, <1>4, <1>6 DEF Unmoved
<1> QED
  BY <1>2, <1>3, <1>6, <1>8, <1>9

\* Who is to be told of a match stays where it is.
LEMMA MatchStays ==
  ASSUME RelayInv, Unmoved(sock, sock'), NEW r \in Relays, NEW n \in relay[r].matches,
         NEW m, m.client = n.client, m.untold \subseteq n.untold
  PROVE  MatchHolds(r, m)'
<1>1. MatchHolds(r, n) /\ n.client \in Apps /\ Host \in Apps
  BY DEF RelayInv, RelayType, Apps
<1> QED
  BY <1>1 DEF MatchHolds, At, Unmoved

\* The relays forget something at most, while everyone they know stays.
LEMMA RelaysShrink ==
  ASSUME RelayInv, relay' \in [Relays -> RelayType], Unmoved(sock, sock'),
         \A r \in Relays : /\ relay'[r].host = relay[r].host
                           /\ \A m \in relay'[r].matches : \E n \in relay[r].matches :
                                m.client = n.client /\ m.untold \subseteq n.untold
  PROVE  RelayInv'
<1>1. ASSUME NEW r \in Relays, NEW m \in relay'[r].matches
      PROVE  MatchHolds(r, m)'
  <2>1. PICK n \in relay[r].matches : m.client = n.client /\ m.untold \subseteq n.untold
    OBVIOUS
  <2> QED
    BY <2>1, MatchStays
<1>2. \A r \in Relays : relay'[r].host => At(Host, r)'
  BY DEF RelayInv, At, Apps, Unmoved
<1> QED
  BY <1>1, <1>2 DEF RelayInv

\* The other end of a match is the matched client, or the host, and is at the relay if it
\* is still to be told.
LEMMA OtherEndType ==
  ASSUME RelayInv, NEW r \in Relays, NEW m \in relay[r].matches, NEW p \in Apps
  PROVE  /\ m \in [id : Nat, client : Clients, untold : SUBSET Apps]
         /\ OtherEnd(m, p) \in Apps
         /\ OtherEnd(m, p) \in m.untold => At(OtherEnd(m, p), r)
         /\ OtherEnd(m, p) \in m.untold /\ OtherEnd(m, p) # Host => Known(sock[OtherEnd(m, p)])
<1>1. m \in [id : Nat, client : Clients, untold : SUBSET Apps]
  BY DEF RelayInv, RelayType
<1>2. MatchHolds(r, m)
  BY DEF RelayInv
<1>3. OtherEnd(m, p) = Host \/ OtherEnd(m, p) = m.client
  BY DEF OtherEnd
<1> QED
  BY <1>1, <1>2, <1>3 DEF Apps, MatchHolds

\* A UdpData that arrives at a relay tells the other end of the match at most.
LEMMA RelayGetsTypeInv ==
  ASSUME TypeInv, NEW p \in Apps, NEW r \in Relays, NEW id \in Nat, NEW hole \in MatchId \cup {Host},
         RelayGets(p, r, id, hole), UNCHANGED <<pending, stale>>
  PROVE  TypeInv'
<1> DEFINE Q(m) == OtherEnd(m, p)
           Rest(m) == m.untold \ {Q(m)}
           R(m) == (relay[r].matches \ {m}) \cup (IF Rest(m) = {} THEN {} ELSE {[m EXCEPT !.untold = Rest(m)]})
           msg == [type |-> "TunInfo", id |-> id, address |-> hole]
<1>1. PICK m \in relay[r].matches :
        /\ m.id = id
        /\ sock' = IF Q(m) \notin m.untold THEN sock ELSE [sock EXCEPT ![Q(m)].inbox = Append(@, msg)]
        /\ relay' = [relay EXCEPT ![r].matches = R(m)]
  BY DEF RelayGets
<1>2. /\ m \in [id : Nat, client : Clients, untold : SUBSET Apps]
      /\ Q(m) \in Apps /\ (Q(m) \in m.untold /\ Q(m) # Host => Known(sock[Q(m)]))
  BY OtherEndType DEF TypeInv
<1>3. msg \in Message /\ msg.type = "TunInfo"
  BY DEF Message
<1>4. SocketsHold(sock') /\ Unmoved(sock, sock')
  <2>1. CASE Q(m) \notin m.untold
    <3>1. sock' = sock
      BY <2>1, <1>1
    <3> QED
      BY <3>1 DEF TypeInv, SocketsInv, Unmoved
  <2>2. CASE Q(m) \in m.untold
    <3>1. sock' = [sock EXCEPT ![Q(m)].inbox = Append(@, msg)]
      BY <2>2, <1>1
    <3> HIDE DEF msg, Q
    <3> QED
      BY <3>1, <2>2, <1>2, <1>3, InboxTypeInv DEF TypeInv, SocketsInv
  <2> QED
    BY <2>1, <2>2
<1>5. /\ R(m) \in SUBSET [id : Nat, client : Clients, untold : SUBSET Apps]
      /\ \A x \in R(m) : \E n \in relay[r].matches : x.client = n.client /\ x.untold \subseteq n.untold
  <2>1. /\ [m EXCEPT !.untold = Rest(m)] \in [id : Nat, client : Clients, untold : SUBSET Apps]
        /\ [m EXCEPT !.untold = Rest(m)].client = m.client
        /\ [m EXCEPT !.untold = Rest(m)].untold \subseteq m.untold
    BY <1>2
  <2>2. relay[r].matches \in SUBSET [id : Nat, client : Clients, untold : SUBSET Apps]
    BY DEF TypeInv, RelayInv, RelayType
  <2> QED
    BY <2>1, <2>2
<1> HIDE DEF R
<1>6. RelayInv'
  <2>1. relay \in [Relays -> RelayType]
    BY DEF TypeInv, RelayInv
  <2>2. /\ relay' \in [Relays -> RelayType]
        /\ relay'[r].matches = R(m) /\ relay'[r].host = relay[r].host
        /\ \A x \in Relays \ {r} : relay'[x] = relay[x]
    BY <1>1, <1>5, <2>1 DEF RelayType
  <2> QED
    BY <2>2, <1>4, <1>5, RelaysShrink DEF TypeInv
<1> QED
  BY <1>4, <1>6 DEF TypeInv, PendingInv, SocketsInv, Unmoved, Apps

\* A UdpData reaches the relay, from a socket that has something to send.
LEMMA SendUdpDataTypeInv ==
  ASSUME TypeInv, NEW p \in Apps, SendUdpData(p)
  PROVE  TypeInv'
<1>1. sock[p].relay \in Relays /\ UNCHANGED <<pending, stale>>
  BY DEF SendUdpData
<1>2. CASE p = Host
  <2>1. PICK t \in pending : RelayGets(p, sock[p].relay, t.id, Host)
    BY <1>2 DEF SendUdpData
  <2>2. t.id \in Nat
    BY DEF TypeInv, PendingInv, OnePerMatch, PendingType
  <2> QED
    BY <2>1, <2>2, <1>1, RelayGetsTypeInv
<1>3. CASE p # Host
  <2>1. RelayGets(p, sock[p].relay, sock[p].match.id, sock[p].match) /\ sock[p].sending
    BY <1>3 DEF SendUdpData
  <2>2. sock[p].match \in MatchId /\ sock[p].match.id \in Nat
    BY <1>3, <2>1 DEF TypeInv, SocketsInv, SocketsHold, Holds, ClientHolds, SocketType, MatchId
  <2> QED
    BY <2>1, <2>2, <1>1, RelayGetsTypeInv
<1> QED
  BY <1>2, <1>3

\* A relay reads a request: a host is registered, a client is matched, or turned away.
LEMMA RelayReadTypeInv ==
  ASSUME TypeInv, NEW p \in Apps, RelayRead(p)
  PROVE  TypeInv'
<1> DEFINE s == sock[p]
           r == s.relay
           u == [s EXCEPT !.asked = FALSE]
<1>1. s.vps = "Open" /\ UNCHANGED <<pending, stale>>
  BY DEF RelayRead
<1>2. s \in SocketType /\ Holds(p, s) /\ sock \in [Apps -> SocketType]
  BY DEF TypeInv, SocketsInv, SocketsHold
<1>3. r \in Relays /\ relay \in [Relays -> RelayType] /\ relay[r] \in RelayType
  BY <1>1, <1>2 DEF TypeInv, RelayInv, Holds
<1>4. /\ u \in SocketType /\ u.inbox = s.inbox /\ u.match = s.match /\ u.tun = s.tun /\ u.state = s.state
      /\ u.vps = s.vps /\ u.relay = s.relay /\ u.sending = s.sending
  BY <1>2 DEF SocketType
<1>5. Holds(p, u) /\ (Known(s) => Known(u))
  BY <1>2, <1>4 DEF Holds, ClientHolds, Told, Known
<1> DEFINE g == [sock EXCEPT ![p] = u]
<1> HIDE DEF u
<1>6. SocketsHold(g) /\ Unmoved(sock, g) /\ g[p] = u
  <2>1. g \in [Apps -> SocketType] /\ g[p] = u /\ \A q \in Apps \ {p} : g[q] = sock[q]
    BY <1>2, <1>4
  <2>2. Unmoved(sock, g)
    BY <2>1, <1>4, <1>5 DEF Unmoved
  <2>3. SocketsHold(g)
    BY <2>1, <1>5 DEF TypeInv, SocketsInv, SocketsHold
  <2> QED
    BY <2>1, <2>2, <2>3
<1>7. CASE p = Host
  <2>1. sock' = g /\ relay' = [relay EXCEPT ![r].host = TRUE]
    BY <1>7 DEF RelayRead, g, u
  <2>2. /\ relay' \in [Relays -> RelayType]
        /\ relay'[r].matches = relay[r].matches /\ relay'[r].host
        /\ \A x \in Relays \ {r} : relay'[x] = relay[x]
    BY <2>1, <1>3 DEF RelayType
  <2>3. At(Host, r)'
    BY <2>1, <1>1, <1>4, <1>6, <1>7 DEF At
  <2>4. ASSUME NEW x \in Relays, NEW m \in relay'[x].matches
        PROVE  MatchHolds(x, m)'
    <3>1. m \in relay[x].matches
      BY <2>2
    <3> QED
      BY <3>1, <2>1, <1>6, MatchStays DEF TypeInv
  <2>5. \A x \in Relays : relay'[x].host => At(Host, x)'
    BY <2>1, <2>2, <2>3, <1>6 DEF TypeInv, RelayInv, At, Apps, Unmoved
  <2>6. RelayInv'
    BY <2>2, <2>4, <2>5 DEF RelayInv
  <2> QED
    BY <2>1, <2>6, <1>1, <1>6 DEF TypeInv, PendingInv, SocketsInv, Unmoved, Apps
<1>8. CASE p # Host /\ relay[r].host
  <2> DEFINE id == relay[r].last + 1
             msg == [type |-> "MatchInfo", id |-> id]
             new == [id |-> id, client |-> p, untold |-> {Host, p}]
             h == [g EXCEPT ![p].inbox = Append(@, msg)]
             k == [h EXCEPT ![Host].inbox = Append(@, msg)]
  <2>1. sock' = k
    <3>1. sock' = [sock EXCEPT ![p].asked = FALSE, ![p].inbox = Append(@, msg), ![Host].inbox = Append(@, msg)]
      BY <1>8 DEF RelayRead
    <3> HIDE DEF msg
    <3> DEFINE next == [q \in Apps |-> IF q = Host THEN [sock[q] EXCEPT !.inbox = Append(@, msg)]
                                       ELSE IF q = p THEN [u EXCEPT !.inbox = Append(@, msg)] ELSE sock[q]]
    <3>2. u = [sock[p] EXCEPT !.asked = FALSE]
      BY DEF u
    <3>3. sock' = next
      BY <3>1, <3>2, <1>2, <1>8
    <3>4. h = [q \in Apps |-> IF q = p THEN [u EXCEPT !.inbox = Append(@, msg)] ELSE sock[q]]
      BY <1>2 DEF g
    <3> HIDE DEF h
    <3>5. k = next
      BY <3>4, <1>8 DEF Apps
    <3> QED
      BY <3>3, <3>5
  <2>2. relay' = [relay EXCEPT ![r].last = id, ![r].matches = @ \cup {new}]
    BY <1>8 DEF RelayRead
  <2>3. id \in Nat /\ msg \in Message /\ msg.type = "MatchInfo" /\ p \in Clients /\ Host \in Apps
    BY <1>3, <1>8 DEF Message, RelayType, Apps
  <2>4. new \in [id : Nat, client : Clients, untold : SUBSET Apps] /\ new.client = p
    BY <2>3 DEF Apps
  <2> HIDE DEF id, msg
  <2>5. SocketsHold(h) /\ Unmoved(g, h) /\ Known(h[p])
    BY <2>3, <1>6, InboxTypeInv
  <2> HIDE DEF h
  <2>6. SocketsHold(k) /\ Unmoved(h, k)
    BY <2>3, <2>5, InboxTypeInv
  <2> HIDE DEF k, new
  <2>7. Unmoved(sock, sock') /\ Known(sock'[p])
    BY <2>1, <2>5, <2>6, <1>6 DEF Unmoved
  <2>8. /\ relay' \in [Relays -> RelayType]
        /\ relay'[r].matches = relay[r].matches \cup {new} /\ relay'[r].host = relay[r].host
        /\ \A x \in Relays \ {r} : relay'[x] = relay[x]
    BY <2>2, <2>3, <2>4, <1>3 DEF RelayType
  <2>9. ASSUME NEW x \in Relays, NEW m \in relay'[x].matches
        PROVE  MatchHolds(x, m)'
    <3>1. CASE m \in relay[x].matches
      BY <3>1, <2>7, MatchStays DEF TypeInv
    <3>2. CASE m = new /\ x = r
      <4>1. At(Host, x) /\ At(p, x) /\ Host \in Apps
        BY <3>2, <1>1, <1>3, <1>8 DEF TypeInv, RelayInv, At, Apps
      <4>2. At(Host, x)' /\ At(p, x)'
        BY <4>1, <2>7 DEF At, Unmoved
      <4>3. m.client = p
        BY <3>2, <2>4
      <4> HIDE DEF r
      <4> QED
        BY <4>2, <4>3, <2>7 DEF MatchHolds
    <3> QED
      BY <3>1, <3>2, <2>8
  <2>10. \A x \in Relays : relay'[x].host => At(Host, x)'
    BY <2>7, <2>8 DEF TypeInv, RelayInv, At, Apps, Unmoved
  <2>11. RelayInv'
    BY <2>8, <2>9, <2>10 DEF RelayInv
  <2> QED
    BY <2>1, <2>6, <2>7, <2>11, <1>1 DEF TypeInv, PendingInv, SocketsInv, Unmoved, Apps
<1>9. CASE p # Host /\ ~relay[r].host
  <2> DEFINE msg == [type |-> "Closed"]
             h == [g EXCEPT ![p].inbox = Append(@, msg)]
  <2>1. sock' = h /\ relay' = [relay EXCEPT ![r] = Forget(@, p)]
    <3>1. /\ sock' = [sock EXCEPT ![p].asked = FALSE, ![p].inbox = Append(@, msg)]
          /\ relay' = [relay EXCEPT ![r] = Forget(@, p)]
      BY <1>9 DEF RelayRead
    <3> HIDE DEF msg
    <3> QED
      BY <3>1 DEF g, u
  <2>2. msg \in Message /\ msg.type = "Closed"
    BY DEF Message
  <2> HIDE DEF msg
  <2>3. SocketsHold(h) /\ Unmoved(g, h)
    BY <2>2, <1>6, InboxTypeInv
  <2> HIDE DEF h
  <2>4. Unmoved(sock, sock')
    BY <2>1, <2>3, <1>6 DEF Unmoved
  <2>5. /\ Forget(relay[r], p) \in RelayType
        /\ Forget(relay[r], p).matches \subseteq relay[r].matches
        /\ Forget(relay[r], p).host = relay[r].host
    BY <1>3, <1>9, ForgetType
  <2>6. /\ relay' \in [Relays -> RelayType] /\ relay'[r] = Forget(relay[r], p)
        /\ \A x \in Relays \ {r} : relay'[x] = relay[x]
    BY <2>1, <2>5, <1>3
  <2>7. RelayInv'
    BY <2>4, <2>5, <2>6, RelaysShrink DEF TypeInv
  <2> QED
    BY <2>1, <2>3, <2>4, <2>7, <1>1 DEF TypeInv, PendingInv, SocketsInv, Unmoved, Apps
<1> QED
  BY <1>7, <1>8, <1>9

-----------------------------------------------------------------------------
(* The steps of any SmartSocket.                                           *)

\* A SmartSocket is one of its kind.
LEMMA SocketFields ==
  ASSUME TypeInv, NEW p \in Apps
  PROVE  /\ sock[p] \in SocketType /\ Holds(p, sock[p])
         /\ sock[p].vps # "None" => sock[p].relay \in Relays
         /\ IF p = Host THEN sock[p].state = "Listening" /\ sock[p].tun = "None" ELSE ClientHolds(sock[p])
  BY DEF TypeInv, SocketsInv, SocketsHold, Holds

\* The request to a relay is sent.
LEMMA VpsConnectedTypeInv ==
  ASSUME TypeInv, NEW p \in Apps, VpsConnected(p)
  PROVE  TypeInv'
<1> DEFINE s == Asked(p, sock[p])
<1>1. Becomes(p, s) /\ UNCHANGED <<pending, stale>> /\ sock[p].vps = "Connecting"
  BY DEF VpsConnected
<1>2. /\ sock[p] \in SocketType /\ Holds(p, sock[p]) /\ sock[p].relay \in Relays
  BY <1>1, SocketFields
<1>3. /\ s \in SocketType /\ s.inbox = sock[p].inbox /\ s.match = sock[p].match /\ s.state = sock[p].state
      /\ s.tun = sock[p].tun /\ s.relay = sock[p].relay /\ s.sending = sock[p].sending
  BY <1>2 DEF Asked, SocketType
<1>4. Holds(p, s)
  BY <1>2, <1>3 DEF Holds, ClientHolds, Told
<1> QED
  BY <1>1, <1>3, <1>4, BecomesTypeInv

\* The next relay is tried, if there is one.
LEMMA NextRelayTypeInv ==
  ASSUME TypeInv, NEW p \in Apps, NEW s \in SocketType, Becomes(p, NextRelay(s)), UNCHANGED <<pending, stale>>,
         sock[p].vps # "None",
         s.relay = sock[p].relay, s.state = sock[p].state, s.tun = sock[p].tun,
         s.match = sock[p].match, s.sending = sock[p].sending
  PROVE  TypeInv'
<1>1. /\ s.relay \in Relays
      /\ IF p = Host THEN s.state = "Listening" /\ s.tun = "None"
                     ELSE s.tun # "None" \/ s.sending => s.match # None
  BY SocketFields DEF ClientHolds
<1>2. /\ Holds(p, NextRelay(s)) /\ NextRelay(s).vps # "Open"
      /\ p = Host => NextRelay(s).sending = s.sending
  BY <1>1, NextRelayHolds
<1> QED
  BY <1>2, BecomesTypeInv

\* The connection to a relay fails.
LEMMA VpsDisconnectedTypeInv ==
  ASSUME TypeInv, NEW p \in Apps, VpsDisconnected(p)
  PROVE  TypeInv'
<1>1. Becomes(p, NextRelay(sock[p])) /\ UNCHANGED <<pending, stale>> /\ sock[p].vps # "None"
  BY DEF VpsDisconnected
<1> QED
  BY <1>1, SocketFields, NextRelayTypeInv

\* A pending client is added in the place of the one of the same match.
LEMMA AddPending ==
  ASSUME NEW P, OnePerMatch(P), NEW new \in PendingType
  PROVE  OnePerMatch({t \in P : t.id # new.id} \cup {new})
<1> DEFINE kept == {t \in P : t.id # new.id}
<1>1. P \subseteq PendingType /\ IsFiniteSet(P) /\ \A t, u \in P : t.id = u.id => t = u
  BY DEF OnePerMatch
<1>2. IsFiniteSet(kept)
  BY <1>1, FS_Subset
<1>3. IsFiniteSet(kept \cup {new})
  BY <1>2, FS_AddElement
<1>4. \A t, u \in kept \cup {new} : t.id = u.id => t = u
  BY <1>1
<1> QED
  BY <1>1, <1>3, <1>4 DEF OnePerMatch

\* The address of one pending client is replaced.
LEMMA ReplacePending ==
  ASSUME NEW P, OnePerMatch(P), NEW id \in Nat, NEW address \in MatchId \cup {Host}
  PROVE  LET Q == {IF t.id = id THEN [t EXCEPT !.address = address] ELSE t : t \in P} IN
         OnePerMatch(Q) /\ (Q # {} => P # {})
<1> DEFINE new(t) == IF t.id = id THEN [t EXCEPT !.address = address] ELSE t
           Q == {new(t) : t \in P}
           f == [t \in P |-> new(t)]
<1>1. P \subseteq PendingType /\ IsFiniteSet(P) /\ \A t, u \in P : t.id = u.id => t = u
  BY DEF OnePerMatch
<1>2. \A t \in P : new(t) \in PendingType /\ new(t).id = t.id
  BY <1>1 DEF PendingType
<1> HIDE DEF new
<1>3. f \in Surjection(P, Q)
  BY DEF Surjection
<1>4. IsFiniteSet(Q)
  BY <1>1, <1>3, FS_Surjection
<1>5. \A t, u \in Q : t.id = u.id => t = u
  BY <1>1, <1>2
<1>6. OnePerMatch(Q)
  BY <1>2, <1>4, <1>5 DEF OnePerMatch
<1> QED
  BY <1>6 DEF new

\* Some pending clients are no longer waited for.
LEMMA FewerPending ==
  ASSUME NEW P, OnePerMatch(P), NEW Q \in SUBSET P
  PROVE  OnePerMatch(Q)
  BY FS_Subset DEF OnePerMatch

\* A MatchInfo is read.
LEMMA GotMatchTypeInv ==
  ASSUME TypeInv, NEW p \in Apps, NEW s \in SocketType, NEW id \in Nat, GotMatch(p, s, id),
         sock[p].vps = "Open",
         s.relay = sock[p].relay, s.state = sock[p].state, s.tun = sock[p].tun, s.match = sock[p].match,
         s.sending = sock[p].sending, s.vps = sock[p].vps
  PROVE  TypeInv'
<1> DEFINE match == [relay |-> s.relay, id |-> id]
           new == [id |-> id, of |-> match, address |-> None]
           t == IF p = Host THEN [s EXCEPT !.sending = TRUE]
                ELSE [s EXCEPT !.match = match, !.tun = "Bound", !.sending = TRUE]
<1>1. /\ Becomes(p, t)
      /\ pending' = IF p # Host THEN pending ELSE {x \in pending : x.id # id} \cup {new}
      /\ stale' = IF p = Host /\ \E x \in pending : x.id = id THEN stale + 1 ELSE stale
  BY DEF GotMatch
<1>2. /\ s.relay \in Relays
      /\ IF p = Host THEN s.state = "Listening" /\ s.tun = "None" ELSE ClientHolds(sock[p])
  BY SocketFields
<1>3. match \in MatchId
  BY <1>2 DEF MatchId
<1>4. /\ t \in SocketType /\ t.relay = s.relay /\ t.state = s.state /\ t.vps = s.vps /\ t.sending
      /\ t.inbox = s.inbox
      /\ IF p = Host THEN t.tun = s.tun ELSE t.match = match
  <2>1. CASE p = Host
    BY <2>1 DEF SocketType
  <2>2. CASE p # Host
    <3> HIDE DEF match
    <3> QED
      BY <2>2, <1>3 DEF SocketType
  <2> QED
    BY <2>1, <2>2
<1> HIDE DEF t
<1>5. p # Host => t.match # None
  BY <1>3, <1>4, Names
<1>6. Holds(p, t) /\ (p # Host => Known(t))
  BY <1>2, <1>4, <1>5 DEF Holds, ClientHolds, Told, Known
<1>7. SocketsInv' /\ RelayInv'
  BY <1>1, <1>6, BecomesInv DEF TypeInv
<1>8. sock' = [sock EXCEPT ![p] = t] /\ Host \in Apps /\ DOMAIN sock = Apps
  BY <1>1 DEF Becomes, Apps, TypeInv, SocketsInv, SocketsHold
<1>9. PendingInv'
  <2>1. CASE p = Host
    <3>1. sock'[Host].sending
      BY <2>1, <1>4, <1>8
    <3>2. new \in PendingType /\ new.id = id
      BY <1>3 DEF PendingType
    <3>3. OnePerMatch(pending')
      BY <2>1, <1>1, <3>2, AddPending DEF TypeInv, PendingInv
    <3>4. stale' \in Nat
      BY <1>1 DEF TypeInv, PendingInv
    <3> QED
      BY <3>1, <3>3, <3>4 DEF PendingInv
  <2>2. CASE p # Host
    BY <2>2, <1>1, <1>8 DEF TypeInv, PendingInv
  <2> QED
    BY <2>1, <2>2
<1> QED
  BY <1>7, <1>9 DEF TypeInv

\* A TunInfo is read, by the host or by a client that has a match.
LEMMA GotTunInfoTypeInv ==
  ASSUME TypeInv, NEW p \in Apps, NEW s \in SocketType, NEW id \in Nat, NEW address \in MatchId \cup {Host},
         GotTunInfo(p, s, id, address),
         sock[p].vps = "Open", p # Host => s.match # None,
         s.relay = sock[p].relay, s.state = sock[p].state, s.tun = sock[p].tun, s.match = sock[p].match,
         s.sending = sock[p].sending, s.vps = sock[p].vps
  PROVE  TypeInv'
<1> DEFINE t == IF p = Host THEN s ELSE [s EXCEPT !.timer = FALSE, !.tun = "Connecting"]
<1>1. /\ Becomes(p, t)
      /\ pending' = IF p # Host THEN pending
                    ELSE {IF x.id = id THEN [x EXCEPT !.address = address] ELSE x : x \in pending}
      /\ UNCHANGED stale
  BY DEF GotTunInfo
<1>2. /\ s.relay \in Relays
      /\ IF p = Host THEN s.state = "Listening" /\ s.tun = "None" ELSE ClientHolds(sock[p])
  BY SocketFields
<1>3. /\ t \in SocketType /\ t.relay = s.relay /\ t.state = s.state /\ t.vps = s.vps
      /\ t.sending = s.sending /\ t.match = s.match
      /\ p = Host => t.tun = s.tun
  <2>1. CASE p = Host
    BY <2>1
  <2>2. CASE p # Host
    BY <2>2 DEF SocketType
  <2> QED
    BY <2>1, <2>2
<1> HIDE DEF t
<1>4. Holds(p, t) /\ (p # Host => Known(t))
  BY <1>2, <1>3 DEF Holds, ClientHolds, Told, Known
<1>5. SocketsInv' /\ RelayInv'
  BY <1>1, <1>4, BecomesInv DEF TypeInv
<1>6. sock'[Host].sending = sock[Host].sending
  BY <1>1, <1>3 DEF Becomes, Apps, TypeInv, SocketsInv, SocketsHold
<1>7. OnePerMatch(pending') /\ (pending' # {} => pending # {})
  <2>1. CASE p = Host
    <3> DEFINE replaced == {IF x.id = id THEN [x EXCEPT !.address = address] ELSE x : x \in pending}
    <3>1. OnePerMatch(pending)
      BY DEF TypeInv, PendingInv
    <3>2. OnePerMatch(replaced) /\ (replaced # {} => pending # {})
      BY <3>1, ReplacePending
    <3> QED
      BY <2>1, <3>2, <1>1
  <2>2. CASE p # Host
    BY <2>2, <1>1 DEF TypeInv, PendingInv
  <2> QED
    BY <2>1, <2>2
<1> QED
  BY <1>1, <1>5, <1>6, <1>7 DEF TypeInv, PendingInv

\* A message of a relay is read.
LEMMA VpsReadTypeInv ==
  ASSUME TypeInv, NEW p \in Apps, VpsRead(p)
  PROVE  TypeInv'
<1> DEFINE msg == Head(sock[p].inbox)
           s == [sock[p] EXCEPT !.inbox = Tail(@)]
<1>1. sock[p].vps = "Open" /\ sock[p].inbox # << >>
  BY DEF VpsRead
<1>2. /\ sock[p] \in SocketType /\ (p # Host => Told(sock[p]))
  BY SocketFields DEF ClientHolds
<1>3. s \in SocketType /\ msg \in Message /\ (Told(sock[p]) /\ msg.type = "TunInfo" => sock[p].match # None)
  BY <1>1, <1>2, ReadInbox
<1>4. /\ s.relay = sock[p].relay /\ s.state = sock[p].state /\ s.tun = sock[p].tun
      /\ s.match = sock[p].match /\ s.sending = sock[p].sending /\ s.vps = sock[p].vps
  BY <1>2 DEF SocketType
<1>5. \/ msg.type = "MatchInfo" /\ GotMatch(p, s, msg.id)
      \/ msg.type = "TunInfo" /\ GotTunInfo(p, s, msg.id, msg.address)
      \/ msg.type = "Closed" /\ Becomes(p, NextRelay(s)) /\ UNCHANGED <<pending, stale>>
  BY DEF VpsRead
<1> HIDE DEF msg, s
<1>6. CASE msg.type = "MatchInfo" /\ GotMatch(p, s, msg.id)
  BY <1>1, <1>3, <1>4, <1>6, MessageFields, GotMatchTypeInv
<1>7. CASE msg.type = "TunInfo" /\ GotTunInfo(p, s, msg.id, msg.address)
  <2>1. msg.id \in Nat /\ msg.address \in MatchId \cup {Host}
    BY <1>3, <1>7, MessageFields
  <2>2. p # Host => s.match # None
    BY <1>2, <1>3, <1>4, <1>7
  <2> QED
    BY <2>1, <2>2, <1>1, <1>3, <1>4, <1>7, GotTunInfoTypeInv
<1>8. CASE msg.type = "Closed" /\ Becomes(p, NextRelay(s)) /\ UNCHANGED <<pending, stale>>
  BY <1>1, <1>3, <1>4, <1>8, NextRelayTypeInv
<1> QED
  BY <1>5, <1>6, <1>7, <1>8

\* The host stops sending for a pending client that it no longer waits for, unless it
\* waits for another one.
LEMMA DroppedTypeInv ==
  ASSUME TypeInv, NEW t \in pending, Dropped(t)
  PROVE  TypeInv'
<1> DEFINE s == [sock[Host] EXCEPT !.sending = @ /\ (pending' # {} \/ stale > 0)]
<1>1. pending' = pending \ {t} /\ Becomes(Host, s) /\ UNCHANGED stale
  BY DEF Dropped
<1>2. Host \in Apps /\ sock[Host] \in SocketType /\ Holds(Host, sock[Host]) /\ sock[Host].sending
  BY SocketFields DEF Apps, TypeInv, PendingInv
<1>3. pending' # {} => s.sending
  BY <1>2 DEF SocketType
<1>4. /\ s \in SocketType /\ s.vps = sock[Host].vps /\ s.relay = sock[Host].relay
      /\ s.state = sock[Host].state /\ s.tun = sock[Host].tun
  BY <1>2 DEF SocketType
<1> HIDE DEF s
<1>5. Holds(Host, s)
  BY <1>2, <1>4 DEF Holds
<1>6. SocketsInv' /\ RelayInv'
  BY <1>1, <1>2, <1>5, BecomesInv DEF TypeInv
<1>7. sock'[Host] = s
  BY <1>1, <1>2 DEF Becomes, TypeInv, SocketsInv, SocketsHold
<1>8. OnePerMatch(pending') /\ stale' \in Nat
  BY <1>1, FewerPending DEF TypeInv, PendingInv
<1> QED
  BY <1>3, <1>6, <1>7, <1>8 DEF TypeInv, PendingInv

\* The host accepts the tunnel of a client.
LEMMA TunAcceptedTypeInv ==
  ASSUME TypeInv, NEW c \in Clients, TunAccepted(c)
  PROVE  TypeInv'
<1> DEFINE s == [sock[c] EXCEPT !.tun = "Accepted"]
           known == {t \in pending : t.address = sock[c].match}
           after == pending \ known
           on == sock[Host].sending /\ (known = {} \/ after # {} \/ stale > 0)
           h == [sock[Host] EXCEPT !.sending = on]
<1>1. /\ sock[c].tun = "Connecting" /\ pending' = after
      /\ sock' = [sock EXCEPT ![c] = s, ![Host].sending = @ /\ (known = {} \/ after # {} \/ stale > 0)]
      /\ UNCHANGED <<stale, relay>>
  BY DEF TunAccepted
<1>2. c \in Apps /\ c # Host /\ Host \in Apps /\ sock \in [Apps -> SocketType]
  BY ClientFields DEF Apps, TypeInv, SocketsInv, SocketsHold
<1>3. /\ sock[c] \in SocketType /\ Holds(c, sock[c]) /\ sock[Host] \in SocketType /\ Holds(Host, sock[Host])
  BY <1>2, SocketFields
<1>4. sock' = [q \in Apps |-> IF q = c THEN s ELSE IF q = Host THEN h ELSE sock[q]]
  <2> HIDE DEF s, after, known
  <2> QED
    BY <1>1, <1>2
<1>5. on \in BOOLEAN
  BY <1>3 DEF SocketType
<1> HIDE DEF on
<1>6. /\ s \in SocketType /\ s.vps = sock[c].vps /\ s.relay = sock[c].relay /\ s.match = sock[c].match
      /\ s.sending = sock[c].sending /\ s.inbox = sock[c].inbox
  BY <1>3 DEF SocketType
<1>7. /\ h \in SocketType /\ h.vps = sock[Host].vps /\ h.relay = sock[Host].relay
      /\ h.tun = sock[Host].tun /\ h.state = sock[Host].state /\ h.sending = on
      /\ h.match = sock[Host].match /\ h.inbox = sock[Host].inbox
  BY <1>3, <1>5 DEF SocketType
<1> HIDE DEF s, h
<1>8. Holds(c, s) /\ Holds(Host, h)
  BY <1>1, <1>2, <1>3, <1>6, <1>7 DEF Holds, ClientHolds, Told
<1>9. /\ sock' \in [Apps -> SocketType]
      /\ \A q \in Apps : /\ Holds(q, sock'[q])
                         /\ sock'[q].vps = sock[q].vps /\ sock'[q].relay = sock[q].relay
                         /\ Known(sock[q]) => Known(sock'[q])
  <2>1. sock' \in [Apps -> SocketType]
    BY <1>2, <1>4, <1>6, <1>7
  <2>2. (Known(sock[c]) => Known(s)) /\ (Known(sock[Host]) => Known(h))
    BY <1>6, <1>7 DEF Known
  <2>3. \A q \in Apps : Holds(q, sock[q])
    BY DEF TypeInv, SocketsInv, SocketsHold
  <2> QED
    BY <2>1, <2>2, <2>3, <1>4, <1>6, <1>7, <1>8
<1>10. SocketsInv'
  BY <1>9 DEF SocketsInv, SocketsHold
<1>11. RelayInv'
  <2>1. \A r \in Relays : \A m \in relay[r].matches : m.client \in Apps /\ MatchHolds(r, m)
    BY DEF TypeInv, RelayInv, RelayType, Apps
  <2> QED
    BY <2>1, <1>1, <1>2, <1>9 DEF TypeInv, RelayInv, At, MatchHolds
<1>12. PendingInv'
  <2>1. OnePerMatch(pending') /\ stale' \in Nat
    BY <1>1, FewerPending DEF TypeInv, PendingInv
  <2>2. pending' # {} => on
    BY <1>1 DEF on, TypeInv, PendingInv
  <2>3. sock'[Host].sending = on
    BY <1>2, <1>4, <1>7
  <2> QED
    BY <2>1, <2>2, <2>3 DEF PendingInv
<1> QED
  BY <1>10, <1>11, <1>12 DEF TypeInv

-----------------------------------------------------------------------------
(* The types.                                                              *)

\* The invariant holds initially.
LEMMA TypeInit == Init => TypeInv
<1> SUFFICES ASSUME Init
             PROVE  TypeInv
  OBVIOUS
<1> DEFINE new == NewSocket("Listening")
           h == TryRelay(new, 1)
           idle == NewSocket("Idle")
<1>1. new \in SocketType /\ new.state = "Listening" /\ new.tun = "None"
  BY NewSocketType
<1>2. idle \in SocketType /\ Told(idle) /\ idle.tun = "None" /\ idle.vps = "None" /\ ~idle.sending
  BY NewSocketType
<1> HIDE DEF new, idle
<1>3. h \in SocketType /\ h.relay = 1 /\ h.state = "Listening" /\ h.tun = "None"
  BY <1>1, RelayPositions, TryRelayType
<1> HIDE DEF h
<1>4. Holds(Host, h) /\ \A c \in Clients : Holds(c, idle)
  BY <1>2, <1>3, RelayPositions, Names DEF Holds, ClientHolds
<1>5. sock = [p \in Apps |-> IF p = Host THEN h ELSE idle]
  BY DEF Init, h, new, idle
<1>6. SocketsInv
  BY <1>2, <1>3, <1>4, <1>5 DEF SocketsInv, SocketsHold, Apps
<1>7. relay = [r \in Relays |-> NewRelay] /\ NewRelay \in RelayType /\ NewRelay.matches = {} /\ ~NewRelay.host
  BY DEF Init, NewRelay, RelayType
<1>8. RelayInv
  BY <1>7 DEF RelayInv
<1>9. PendingInv
  BY FS_EmptySet DEF Init, PendingInv, OnePerMatch
<1> QED
  BY <1>6, <1>8, <1>9 DEF TypeInv

\* Every step preserves the invariant.
LEMMA TypeStep == TypeInv /\ [Next]_vars => TypeInv'
<1> SUFFICES ASSUME TypeInv, [Next]_vars
             PROVE  TypeInv'
  OBVIOUS
<1>1. CASE UNCHANGED vars
  BY <1>1 DEF vars, TypeInv, SocketsInv, RelayInv, At, MatchHolds, PendingInv
<1>2. CASE Next
  <2>1. ASSUME NEW c \in Clients,
               Connect(c) \/ DirectConnected(c) \/ DirectRead(c) \/ DirectDisconnected(c)
        PROVE  TypeInv'
    BY <2>1, ConnectTypeInv, DirectConnectedTypeInv, DirectReadTypeInv, DirectDisconnectedTypeInv
  <2>2. ASSUME NEW c \in Clients,
               ConnectTimedOut(c) \/ TunAccepted(c) \/ TunConnected(c) \/ TunDisconnected(c)
        PROVE  TypeInv'
    BY <2>2, ConnectTimedOutTypeInv, TunAcceptedTypeInv, TunConnectedTypeInv, TunDisconnectedTypeInv
  <2>3. ASSUME NEW p \in Apps,
               RelayRead(p) \/ VpsConnected(p) \/ VpsDisconnected(p) \/ VpsRead(p) \/ SendUdpData(p)
        PROVE  TypeInv'
    BY <2>3, RelayReadTypeInv, VpsConnectedTypeInv, VpsDisconnectedTypeInv, VpsReadTypeInv, SendUdpDataTypeInv
  <2>4. CASE PendingTimedOut
    BY <2>4, DroppedTypeInv DEF PendingTimedOut
  <2> QED
    BY <1>2, <2>1, <2>2, <2>3, <2>4 DEF Next
<1> QED
  BY <1>1, <1>2

\* The invariant holds in every state.
LEMMA TypeInvIsInvariant == Spec => []TypeInv
<1>1. Init => TypeInv
  BY TypeInit
<1>2. TypeInv /\ [Next]_vars => TypeInv'
  BY TypeStep
<1> QED
  BY <1>1, <1>2, PTL DEF Spec

\* Pending clients with one match each have as many match ids.
LEMMA AsManyIds ==
  ASSUME NEW P, OnePerMatch(P)
  PROVE  Cardinality({t.id : t \in P}) = Cardinality(P)
<1> DEFINE f == [t \in P |-> t.id]
<1>1. f \in Bijection(P, {t.id : t \in P})
  BY DEF OnePerMatch, Bijection, Injection, Surjection, IsInjective
<1>2. ExistsBijection(P, {t.id : t \in P})
  BY <1>1 DEF ExistsBijection
<1> QED
  BY <1>2, FS_Bijection DEF OnePerMatch

\* The position in the list of relays is in the list or at its end, a client whose
\* tunnel is being connected has a match, in whatever order its relays, its timers and
\* the messages come, and the host sends for as long as a client is pending.
THEOREM TypeCorrect == Spec => []TypeOK
<1>1. TypeInv => TypeOK
  <2> SUFFICES ASSUME TypeInv
               PROVE  TypeOK
    OBVIOUS
  <2>1. ASSUME NEW p \in Apps
        PROVE  /\ sock[p].state \in {"Listening", "Idle", "Connecting", "Connected", "Disconnected"}
               /\ sock[p].relay \in 1 .. NumRelays + 1
               /\ sock[p].vps # "None" => sock[p].relay \in Relays
               /\ sock[p].tun # "None" => sock[p].match # None
    <3>1. /\ sock[p] \in SocketType
          /\ sock[p].vps # "None" => sock[p].relay \in Relays
          /\ sock[p].tun # "None" => sock[p].match # None
      BY SocketFields DEF ClientHolds
    <3> QED
      BY <3>1 DEF SocketType
  <2>2. /\ stale \in Nat /\ Cardinality({t.id : t \in pending}) = Cardinality(pending)
        /\ pending # {} => sock[Host].sending
    BY AsManyIds DEF TypeInv, PendingInv
  <2> QED
    BY <2>1, <2>2 DEF TypeOK
<1> QED
  BY <1>1, TypeInvIsInvariant, PTL

-----------------------------------------------------------------------------
(* The address that the host keeps for a match.                            *)

\* no relay has a match that it did not have, or one that more are to be told of
Fewer ==
    \A r \in Relays : \A m \in relay'[r].matches :
        \E n \in relay[r].matches : m.id = n.id /\ m.untold \subseteq n.untold

\* A step of one SmartSocket alone makes no match.
LEMMA BecomesFewer ==
  ASSUME TypeInv, NEW p \in Apps, NEW s, Becomes(p, s)
  PROVE  Fewer
<1> SUFFICES ASSUME NEW r \in Relays
             PROVE  relay'[r].matches \subseteq relay[r].matches
  BY DEF Fewer
<1>1. relay[r] \in RelayType
  BY DEF TypeInv, RelayInv
<1>2. relay'[r] = Forget(relay[r], p) \/ relay'[r] = relay[r]
  BY DEF Becomes, RelaysAfter
<1> QED
  BY <1>1, <1>2, ForgetType

\* A host that waits for no client it did not wait for is as ready as before.
LEMMA ReadyStays ==
  ASSUME NEW h, NEW g, NEW P, NEW Q \in SUBSET P, NEW n, NEW id, Ready(h, P, n, id),
         g.relay = h.relay, \A j \in 1 .. n : g.inbox[j] = h.inbox[j]
  PROVE  Ready(g, Q, n, id)
  BY DEF Ready

\* A host whose messages stay, and that waits for no client it did not wait for.
LEMMA KeepsSame ==
  ASSUME SameInv, sock'[Host].inbox = sock[Host].inbox, sock'[Host].relay = sock[Host].relay,
         pending' \subseteq pending, Fewer
  PROVE  SameInv'
<1> DEFINE h == sock[Host]
           g == sock'[Host]
<1>1. g.inbox = h.inbox /\ g.relay = h.relay
  OBVIOUS
<1>2. HostHolds(h, pending) /\ MatchesHold(h, pending)
  BY DEF SameInv
<1> HIDE DEF h, g
<1>3. \A n, id : Ready(h, pending, n, id) => Ready(g, pending', n, id)
  BY <1>1, ReadyStays
<1>4. HostHolds(g, pending')
  BY <1>1, <1>2, <1>3 DEF HostHolds
<1>5. ASSUME NEW r \in Relays, NEW m \in relay'[r].matches, Host \in m.untold
      PROVE  Ready(g, pending', Len(g.inbox), m.id)
  <2>1. PICK n \in relay[r].matches : m.id = n.id /\ m.untold \subseteq n.untold
    BY DEF Fewer
  <2>2. Ready(h, pending, Len(h.inbox), n.id)
    BY <2>1, <1>2, <1>5 DEF MatchesHold
  <2> QED
    BY <2>1, <2>2, <1>1, <1>3
<1>6. HostHolds(sock'[Host], pending') /\ \A r \in Relays : \A m \in relay'[r].matches :
        Host \in m.untold => Ready(sock'[Host], pending', Len(sock'[Host].inbox), m.id)
  BY <1>4, <1>5 DEF g
<1> QED
  BY <1>6 DEF SameInv, MatchesHold

\* A message reaches the host: one about a match that it is ready for, or a match.
LEMMA AppendsSame ==
  ASSUME SameInv, sock[Host] \in SocketType, NEW msg \in Message,
         sock'[Host].inbox = Append(sock[Host].inbox, msg), sock'[Host].relay = sock[Host].relay,
         pending' = pending,
         msg.type = "TunInfo" =>
           /\ msg.address = [relay |-> sock[Host].relay, id |-> msg.id]
           /\ Ready(sock[Host], pending, Len(sock[Host].inbox), msg.id),
         \A r \in Relays : \A m \in relay'[r].matches :
           \/ \E n \in relay[r].matches : m.id = n.id /\ m.untold \subseteq n.untold
           \/ msg.type = "MatchInfo" /\ msg.id = m.id
  PROVE  SameInv'
<1> DEFINE h == sock[Host]
           g == sock'[Host]
<1>1. HostHolds(h, pending) /\ MatchesHold(h, pending)
  BY DEF SameInv
<1>2. PICK box \in Seq(Message) : box = h.inbox
  BY DEF SocketType
<1>3. PICK n \in Nat : n = Len(box)
  BY <1>2, LenProperties
<1>4. /\ g.relay = h.relay /\ Len(g.inbox) = n + 1 /\ g.inbox[n + 1] = msg
      /\ \A j \in 1 .. n : g.inbox[j] = h.inbox[j]
  BY <1>2, <1>3, AppendProperties
<1> HIDE DEF h, g
<1>5. ASSUME NEW k \in 0 .. n, NEW id, Ready(h, pending, k, id)
      PROVE  Ready(g, pending', k, id)
  <2>1. \A j \in 1 .. k : g.inbox[j] = h.inbox[j]
    BY <1>3, <1>4
  <2> QED
    BY <2>1, <1>4, <1>5, ReadyStays
<1>6. ASSUME NEW id, Ready(h, pending, n, id) \/ (msg.type = "MatchInfo" /\ msg.id = id)
      PROVE  Ready(g, pending', n + 1, id)
  <2>1. CASE Ready(h, pending, n, id)
    <3>1. Ready(g, pending', n, id)
      BY <2>1, <1>3, <1>5
    <3>2. \A j \in 1 .. n : j \in 1 .. n + 1
      BY <1>3
    <3> QED
      BY <3>1, <3>2 DEF Ready
  <2>2. CASE msg.type = "MatchInfo" /\ msg.id = id
    <3>1. n + 1 \in 1 .. n + 1
      BY <1>3
    <3> QED
      BY <3>1, <2>2, <1>4 DEF Ready
  <2> QED
    BY <2>1, <2>2, <1>6
<1>7. ASSUME NEW k \in 1 .. n + 1, g.inbox[k].type = "TunInfo"
      PROVE  /\ g.inbox[k].address = [relay |-> g.relay, id |-> g.inbox[k].id]
             /\ Ready(g, pending', k - 1, g.inbox[k].id)
  <2>1. CASE k \in 1 .. n
    <3>1. /\ h.inbox[k].address = [relay |-> h.relay, id |-> h.inbox[k].id]
          /\ Ready(h, pending, k - 1, h.inbox[k].id)
      BY <2>1, <1>1, <1>2, <1>3, <1>4, <1>7 DEF HostHolds
    <3>2. k - 1 \in 0 .. n
      BY <2>1, <1>3
    <3> QED
      BY <2>1, <3>1, <3>2, <1>4, <1>5
  <2>2. CASE k = n + 1
    <3>1. k - 1 = n /\ n \in 0 .. n
      BY <2>2, <1>3
    <3>2. /\ msg.address = [relay |-> h.relay, id |-> msg.id]
          /\ Ready(h, pending, n, msg.id)
      BY <2>2, <1>2, <1>3, <1>4, <1>7 DEF h
    <3> QED
      BY <2>2, <3>1, <3>2, <1>4, <1>5
  <2>3. k \in 1 .. n \/ k = n + 1
    BY ONLY <1>3, k \in 1 .. n + 1
  <2> QED
    BY <2>1, <2>2, <2>3
<1>8. HostHolds(g, pending')
  <2>1. \A t \in pending' : t.address \in {None, t.of}
    BY <1>1 DEF HostHolds
  <2> QED
    BY <2>1, <1>4, <1>7 DEF HostHolds
<1>9. ASSUME NEW r \in Relays, NEW m \in relay'[r].matches, Host \in m.untold
      PROVE  Ready(g, pending', n + 1, m.id)
  <2>1. CASE \E x \in relay[r].matches : m.id = x.id /\ m.untold \subseteq x.untold
    BY <2>1, <1>1, <1>2, <1>3, <1>6, <1>9 DEF MatchesHold
  <2>2. CASE msg.type = "MatchInfo" /\ msg.id = m.id
    BY <2>2, <1>6
  <2> QED
    BY <2>1, <2>2
<1>10. HostHolds(sock'[Host], pending') /\ \A r \in Relays : \A m \in relay'[r].matches :
        Host \in m.untold => Ready(sock'[Host], pending', Len(sock'[Host].inbox), m.id)
  BY <1>4, <1>8, <1>9 DEF g
<1> QED
  BY <1>10 DEF SameInv, MatchesHold

\* A host that has left its relay is to be told of no match, and reads no message.
LEMMA LeavesSame ==
  ASSUME SameInv, RelayInv', sock'[Host].inbox = << >>, sock'[Host].vps # "Open", pending' = pending
  PROVE  SameInv'
<1>1. Len(sock'[Host].inbox) = 0 /\ 1 .. 0 = {}
  BY EmptySeq
<1>2. HostHolds(sock'[Host], pending')
  BY <1>1 DEF SameInv, HostHolds
<1>3. \A r \in Relays : \A m \in relay'[r].matches : Host \notin m.untold
  BY DEF RelayInv, MatchHolds, At
<1> QED
  BY <1>2, <1>3 DEF SameInv, MatchesHold

\* What the steps of one SmartSocket change.
LEMMA OneBecomes ==
  ASSUME TypeInv, NEW p \in Apps, NEW s, Becomes(p, s)
  PROVE  /\ Host \in Apps /\ sock'[p] = s
         /\ p # Host => sock'[Host] = sock[Host]
  BY DEF Becomes, TypeInv, SocketsInv, SocketsHold, Apps

\* A step of a client alone.
LEMMA ClientSame ==
  ASSUME TypeInv, SameInv, NEW c \in Clients, NEW s, Becomes(c, s), pending' = pending
  PROVE  SameInv'
<1>1. c \in Apps /\ c # Host
  BY ClientFields
<1> QED
  BY <1>1, OneBecomes, BecomesFewer, KeepsSame

\* The host goes on to the next relay.
LEMMA HostLeaves ==
  ASSUME TypeInv, TypeInv', SameInv, NEW s \in SocketType, s.state = "Listening",
         Becomes(Host, NextRelay(s)), pending' = pending
  PROVE  SameInv'
<1>1. Host \in Apps
  BY DEF Apps
<1>2. sock'[Host] = NextRelay(s)
  BY <1>1, OneBecomes
<1>3. NextRelay(s).inbox = << >> /\ NextRelay(s).vps # "Open"
  BY DEF NextRelay, TryRelay, SocketType
<1> QED
  BY <1>2, <1>3, LeavesSame DEF TypeInv

-----------------------------------------------------------------------------
(* The steps, for the address that the host keeps.                         *)

\* The steps of a client alone.
LEMMA ClientStepsSame ==
  ASSUME TypeInv, SameInv, NEW c \in Clients,
         \/ Connect(c) \/ DirectConnected(c) \/ DirectRead(c) \/ DirectDisconnected(c)
         \/ ConnectTimedOut(c) \/ TunConnected(c) \/ TunDisconnected(c)
  PROVE  SameInv'
<1>1. pending' = pending /\ \E s : Becomes(c, s)
  BY DEF Connect, DirectConnected, DirectRead, DirectDisconnected, ConnectTimedOut, TunConnected,
         TunDisconnected
<1> QED
  BY <1>1, ClientSame

\* The host reads of a match before it is told of the hole.
LEMMA RelayReadSame ==
  ASSUME TypeInv, SameInv, NEW p \in Apps, RelayRead(p)
  PROVE  SameInv'
<1> DEFINE r == sock[p].relay
           id == relay[r].last + 1
           msg == [type |-> "MatchInfo", id |-> id]
           new == [id |-> id, client |-> p, untold |-> {Host, p}]
<1>1. sock[p].vps = "Open" /\ pending' = pending
  BY DEF RelayRead
<1>2. sock \in [Apps -> SocketType] /\ Host \in Apps /\ sock[Host] \in SocketType
  BY DEF TypeInv, SocketsInv, SocketsHold, Apps
<1>3. r \in Relays /\ relay \in [Relays -> RelayType] /\ relay[r] \in RelayType
  BY <1>1, SocketFields DEF TypeInv, RelayInv
<1>4. CASE p = Host
  <2>1. /\ sock' = [sock EXCEPT ![p].asked = FALSE]
        /\ relay' = [relay EXCEPT ![r].host = TRUE]
    BY <1>4 DEF RelayRead
  <2>2. sock'[Host].inbox = sock[Host].inbox /\ sock'[Host].relay = sock[Host].relay
    BY <2>1, <1>2, <1>4 DEF SocketType
  <2>3. \A x \in Relays : relay'[x].matches = relay[x].matches
    BY <2>1, <1>3 DEF RelayType
  <2> QED
    BY <2>2, <2>3, <1>1, KeepsSame DEF Fewer
<1>5. CASE p # Host /\ relay[r].host
  <2>1. /\ relay' = [relay EXCEPT ![r].last = id, ![r].matches = @ \cup {new}]
        /\ sock' = [sock EXCEPT ![p].asked = FALSE, ![p].inbox = Append(@, msg), ![Host].inbox = Append(@, msg)]
    BY <1>5 DEF RelayRead
  <2>2. id \in Nat /\ msg \in Message /\ msg.type = "MatchInfo" /\ msg.id = id /\ new.id = id
    BY <1>3 DEF Message, RelayType
  <2> HIDE DEF id, msg, new
  <2>3. sock'[Host].inbox = Append(sock[Host].inbox, msg) /\ sock'[Host].relay = sock[Host].relay
    <3>3. sock'[Host] = [sock[Host] EXCEPT !.inbox = Append(@, msg)]
      BY <2>1, <1>2, <1>5
    <3> QED
      BY <3>3, <1>2 DEF SocketType
  <2>4. /\ relay'[r].matches = relay[r].matches \cup {new}
        /\ \A x \in Relays \ {r} : relay'[x] = relay[x]
    BY <2>1, <1>3 DEF RelayType
  <2>5. ASSUME NEW x \in Relays, NEW m \in relay'[x].matches
        PROVE  \/ \E n \in relay[x].matches : m.id = n.id /\ m.untold \subseteq n.untold
               \/ msg.type = "MatchInfo" /\ msg.id = m.id
    BY <2>2, <2>4
  <2> HIDE DEF r
  <2> QED
    BY <2>2, <2>3, <2>5, <1>1, <1>2, AppendsSame
<1>6. CASE p # Host /\ ~relay[r].host
  <2> DEFINE closed == [type |-> "Closed"]
  <2>1. /\ sock' = [sock EXCEPT ![p].asked = FALSE, ![p].inbox = Append(@, closed)]
        /\ relay' = [relay EXCEPT ![r] = Forget(@, p)]
    BY <1>6 DEF RelayRead
  <2>2. sock'[Host] = sock[Host]
    BY <2>1, <1>2, <1>6
  <2>3. \A x \in Relays : relay'[x].matches \subseteq relay[x].matches
    BY <2>1, <1>3, ForgetType
  <2> QED
    BY <2>2, <2>3, <1>1, KeepsSame DEF Fewer
<1> QED
  BY <1>4, <1>5, <1>6

\* The host is told of a hole that a client has opened for the match of that relay, unless
\* the ids of two relays coincide.
LEMMA RelayGetsSame ==
  ASSUME TypeInv, SameInv, NoCoincidence, NEW p \in Apps, NEW r \in Relays, NEW id \in Nat,
         NEW hole \in MatchId \cup {Host},
         RelayGets(p, r, id, hole), pending' = pending, r = sock[p].relay, sock[p].sending,
         p # Host => sock[p].match \in MatchId /\ hole = sock[p].match /\ id = sock[p].match.id
  PROVE  SameInv'
<1> DEFINE Q(m) == OtherEnd(m, p)
           Rest(m) == m.untold \ {Q(m)}
           R(m) == (relay[r].matches \ {m}) \cup (IF Rest(m) = {} THEN {} ELSE {[m EXCEPT !.untold = Rest(m)]})
           msg == [type |-> "TunInfo", id |-> id, address |-> hole]
<1>1. PICK m \in relay[r].matches :
        /\ m.id = id
        /\ sock' = IF Q(m) \notin m.untold THEN sock ELSE [sock EXCEPT ![Q(m)].inbox = Append(@, msg)]
        /\ relay' = [relay EXCEPT ![r].matches = R(m)]
  BY DEF RelayGets
<1>2. /\ m \in [id : Nat, client : Clients, untold : SUBSET Apps]
      /\ Q(m) \in Apps /\ (Q(m) \in m.untold => At(Q(m), r))
  BY OtherEndType DEF TypeInv
<1>3. /\ msg \in Message /\ msg.type = "TunInfo" /\ msg.address = hole /\ msg.id = id
  BY DEF Message
<1>4. sock \in [Apps -> SocketType] /\ Host \in Apps /\ sock[Host] \in SocketType
  BY DEF TypeInv, SocketsInv, SocketsHold, Apps
<1>5. \A x \in R(m) : \E n \in relay[r].matches : x.id = n.id /\ x.untold \subseteq n.untold
  <2>1. /\ [m EXCEPT !.untold = Rest(m)].id = m.id
        /\ [m EXCEPT !.untold = Rest(m)].untold \subseteq m.untold
    BY <1>2
  <2> QED
    BY <2>1
<1> HIDE DEF R
<1>6. \A x \in Relays : \A y \in relay'[x].matches :
        \E n \in relay[x].matches : y.id = n.id /\ y.untold \subseteq n.untold
  <2>1. relay \in [Relays -> RelayType]
    BY DEF TypeInv, RelayInv
  <2>2. relay'[r].matches = R(m) /\ \A x \in Relays \ {r} : relay'[x] = relay[x]
    BY <1>1, <2>1 DEF RelayType
  <2> QED
    BY <2>2, <1>5
<1>7. CASE Q(m) = Host /\ Host \in m.untold
  <2>1. p \in Clients
    BY <1>2, <1>7, Names DEF OtherEnd, Apps
  <2>2. sock[p].match.relay = r
    BY <2>1, <1>1, Names DEF NoCoincidence, Coincides
  <2>3. sock[p].match = [relay |-> sock[p].match.relay, id |-> sock[p].match.id]
    BY <2>1, Names DEF MatchId
  <2>4. hole = [relay |-> sock[Host].relay, id |-> id]
    BY <2>1, <2>2, <2>3, <1>2, <1>7, Names DEF At
  <2>5. Ready(sock[Host], pending, Len(sock[Host].inbox), id)
    BY <1>1, <1>7 DEF SameInv, MatchesHold
  <2>6. sock'[Host] = [sock[Host] EXCEPT !.inbox = Append(@, msg)]
    BY <1>1, <1>4, <1>7
  <2> HIDE DEF msg, Q
  <2>7. sock'[Host].inbox = Append(sock[Host].inbox, msg) /\ sock'[Host].relay = sock[Host].relay
    BY <2>6, <1>4 DEF SocketType
  <2> QED
    BY <2>4, <2>5, <2>7, <1>3, <1>4, <1>6, AppendsSame
<1>8. CASE ~(Q(m) = Host /\ Host \in m.untold)
  <2>1. sock'[Host] = sock[Host]
    BY <1>1, <1>2, <1>4, <1>8
  <2> QED
    BY <2>1, <1>6, KeepsSame DEF Fewer
<1> QED
  BY <1>7, <1>8

\* A client sends from the hole of its match.
LEMMA SendUdpDataSame ==
  ASSUME TypeInv, SameInv, NoCoincidence, NEW p \in Apps, SendUdpData(p)
  PROVE  SameInv'
<1>1. sock[p].relay \in Relays /\ sock[p].sending /\ pending' = pending
  BY DEF SendUdpData
<1>2. CASE p = Host
  <2>1. PICK t \in pending : RelayGets(p, sock[p].relay, t.id, Host)
    BY <1>2 DEF SendUdpData
  <2>2. t.id \in Nat
    BY DEF TypeInv, PendingInv, OnePerMatch, PendingType
  <2> QED
    BY <2>1, <2>2, <1>1, <1>2, RelayGetsSame
<1>3. CASE p # Host
  <2>1. RelayGets(p, sock[p].relay, sock[p].match.id, sock[p].match)
    BY <1>3 DEF SendUdpData
  <2>2. sock[p].match \in MatchId /\ sock[p].match.id \in Nat
    BY <1>1, <1>3 DEF TypeInv, SocketsInv, SocketsHold, Holds, ClientHolds, SocketType, MatchId
  <2> QED
    BY <2>1, <2>2, <1>1, <1>3, RelayGetsSame
<1> QED
  BY <1>2, <1>3

\* The request to a relay is sent.
LEMMA VpsConnectedSame ==
  ASSUME TypeInv, SameInv, NEW p \in Apps, VpsConnected(p)
  PROVE  SameInv'
<1> DEFINE s == Asked(p, sock[p])
<1>1. Becomes(p, s) /\ pending' = pending
  BY DEF VpsConnected
<1>2. sock[p] \in SocketType
  BY SocketFields
<1>3. s.inbox = sock[p].inbox /\ s.relay = sock[p].relay
  BY <1>2 DEF Asked, SocketType
<1> HIDE DEF s
<1>4. sock'[Host].inbox = sock[Host].inbox /\ sock'[Host].relay = sock[Host].relay
  BY <1>1, <1>3, OneBecomes
<1> QED
  BY <1>1, <1>4, BecomesFewer, KeepsSame

\* The connection to a relay fails, or breaks.
LEMMA VpsDisconnectedSame ==
  ASSUME TypeInv, TypeInv', SameInv, NEW p \in Apps, VpsDisconnected(p)
  PROVE  SameInv'
<1>1. Becomes(p, NextRelay(sock[p])) /\ pending' = pending
  BY DEF VpsDisconnected
<1>2. sock[p] \in SocketType /\ (p = Host => sock[p].state = "Listening")
  BY SocketFields
<1>3. p = Host \/ p \in Clients
  BY DEF Apps
<1> QED
  BY <1>1, <1>2, <1>3, HostLeaves, ClientSame

\* The host reads a message, the one before all others.
LEMMA ReadyAfter ==
  ASSUME NEW s \in SocketType, s.inbox # << >>, NEW g, g.inbox = Tail(s.inbox), g.relay = s.relay,
         NEW P, NEW Q, NEW n \in Nat, NEW id, n + 1 <= Len(s.inbox), Ready(s, P, n + 1, id),
         \A t \in Q : t.id = id =>
           \/ t.of = [relay |-> s.relay, id |-> id]
           \/ /\ ~(s.inbox[1].type = "MatchInfo" /\ s.inbox[1].id = id)
              /\ \E u \in P : u.id = id /\ u.of = t.of
  PROVE  Ready(g, Q, n, id)
<1>1. PICK box \in Seq(Message) : box = s.inbox
  BY DEF SocketType
<1>2. PICK l \in Nat \ {0} : l = Len(box)
  BY <1>1, EmptySeq
<1>3. \A i \in 1 .. l - 1 : Tail(box)[i] = box[i + 1]
  BY <1>1, <1>2, HeadTailProperties
<1>4. \A i \in 1 .. n : g.inbox[i] = s.inbox[i + 1]
  BY <1>1, <1>2, <1>3
<1>5. CASE \E j \in 1 .. n + 1 : s.inbox[j].type = "MatchInfo" /\ s.inbox[j].id = id
  <2>1. PICK j \in 1 .. n + 1 : s.inbox[j].type = "MatchInfo" /\ s.inbox[j].id = id
    BY <1>5
  <2>2. CASE j = 1
    BY <2>1, <2>2 DEF Ready
  <2>3. CASE j # 1
    <3>1. j - 1 \in 1 .. n /\ (j - 1) + 1 = j
      BY <2>3
    <3>2. g.inbox[j - 1] = s.inbox[j]
      BY <3>1, <1>4
    <3> QED
      BY <3>1, <3>2, <2>1 DEF Ready
  <2> QED
    BY <2>2, <2>3
<1>6. CASE \A t \in P : t.id = id => t.of = [relay |-> s.relay, id |-> id]
  BY <1>6 DEF Ready
<1> QED
  BY <1>5, <1>6 DEF Ready

\* The host reads a match, which takes the place of one of the same id, or the hole of one
\* that it is ready for.
LEMMA ReadsSame ==
  ASSUME TypeInv, SameInv, sock[Host].inbox # << >>, NEW msg, msg = Head(sock[Host].inbox),
         sock'[Host].inbox = Tail(sock[Host].inbox), sock'[Host].relay = sock[Host].relay, Fewer,
         \/ /\ msg.type = "MatchInfo"
            /\ pending' = {t \in pending : t.id # msg.id} \cup
                 {[id |-> msg.id, of |-> [relay |-> sock[Host].relay, id |-> msg.id], address |-> None]}
         \/ /\ msg.type = "TunInfo"
            /\ pending' = {IF t.id = msg.id THEN [t EXCEPT !.address = msg.address] ELSE t : t \in pending}
  PROVE  SameInv'
<1> DEFINE h == sock[Host]
           g == sock'[Host]
           new == [id |-> msg.id, of |-> [relay |-> h.relay, id |-> msg.id], address |-> None]
           told(t) == IF t.id = msg.id THEN [t EXCEPT !.address = msg.address] ELSE t
<1>1. h \in SocketType /\ HostHolds(h, pending) /\ MatchesHold(h, pending) /\ pending \subseteq PendingType
  BY SocketFields DEF SameInv, TypeInv, PendingInv, OnePerMatch, Apps
<1>2. PICK box \in Seq(Message) : box = h.inbox
  BY <1>1 DEF SocketType
<1>3. PICK l \in Nat \ {0} : l = Len(box)
  BY <1>2, EmptySeq
<1>4. /\ h.inbox[1] = msg /\ Len(h.inbox) = l
      /\ g.inbox = Tail(h.inbox) /\ g.relay = h.relay /\ Len(g.inbox) = l - 1
      /\ \A i \in 1 .. l - 1 : g.inbox[i] = h.inbox[i + 1]
  BY <1>2, <1>3, HeadTailProperties
<1>5. \/ /\ msg.type = "MatchInfo"
         /\ pending' = {t \in pending : t.id # msg.id} \cup {new}
      \/ /\ msg.type = "TunInfo"
         /\ pending' = {told(t) : t \in pending}
  OBVIOUS
<1>6. \A t \in pending : told(t).id = t.id /\ told(t).of = t.of
  BY <1>1 DEF PendingType
<1>7. new.id = msg.id /\ new.of = [relay |-> h.relay, id |-> msg.id] /\ new.address = None
  OBVIOUS
<1> HIDE DEF new
<1>8. ASSUME NEW t \in pending', NEW id, t.id = id
      PROVE  \/ t.of = [relay |-> h.relay, id |-> id]
             \/ /\ ~(h.inbox[1].type = "MatchInfo" /\ h.inbox[1].id = id)
                /\ \E u \in pending : u.id = id /\ u.of = t.of
  <2>1. CASE msg.type = "MatchInfo" /\ pending' = {u \in pending : u.id # msg.id} \cup {new}
    BY <2>1, <1>4, <1>7, <1>8
  <2>2. CASE msg.type = "TunInfo" /\ pending' = {told(u) : u \in pending}
    <3>1. PICK u \in pending : t = told(u)
      BY <2>2
    <3>2. u.id = id /\ u.of = t.of
      BY <3>1, <1>6, <1>8
    <3> QED
      BY <2>2, <3>2, <1>4
  <2> QED
    BY <2>1, <2>2, <1>5
<1> HIDE DEF h, g
<1>9. ASSUME NEW n \in Nat, n + 1 <= l, NEW id, Ready(h, pending, n + 1, id)
      PROVE  Ready(g, pending', n, id)
  <2>1. h.inbox # << >>
    BY DEF h
  <2>2. \A t \in pending' : t.id = id =>
          \/ t.of = [relay |-> h.relay, id |-> id]
          \/ /\ ~(h.inbox[1].type = "MatchInfo" /\ h.inbox[1].id = id)
             /\ \E u \in pending : u.id = id /\ u.of = t.of
    BY <1>8
  <2>3. h \in SocketType /\ n + 1 <= Len(h.inbox) /\ g.inbox = Tail(h.inbox) /\ g.relay = h.relay
    BY <1>1, <1>4, <1>9
  <2> QED
    BY ONLY <2>1, <2>2, <2>3, n \in Nat, Ready(h, pending, n + 1, id), ReadyAfter
<1>10. ASSUME NEW t \in pending'
       PROVE  t.address \in {None, t.of}
  <2>1. CASE msg.type = "MatchInfo" /\ pending' = {u \in pending : u.id # msg.id} \cup {new}
    BY <2>1, <1>1, <1>7 DEF HostHolds
  <2>2. CASE msg.type = "TunInfo" /\ pending' = {told(u) : u \in pending}
    <3>1. PICK u \in pending : t = told(u)
      BY <2>2
    <3>2. u \in PendingType /\ u.address \in {None, u.of}
      BY <1>1 DEF HostHolds
    <3>3. CASE u.id = msg.id
      <4>1. 1 \in 1 .. Len(h.inbox) /\ 1 - 1 = 0 /\ 1 .. 0 = {}
        BY <1>3, <1>4
      <4>2. msg.address = [relay |-> h.relay, id |-> msg.id] /\ Ready(h, pending, 0, msg.id)
        BY <2>2, <4>1, <1>1, <1>4 DEF HostHolds
      <4>3. u.of = [relay |-> h.relay, id |-> msg.id]
        BY <4>1, <4>2, <3>3 DEF Ready
      <4>4. t.address = msg.address /\ t.of = u.of
        BY <3>1, <3>2, <3>3 DEF PendingType
      <4> QED
        BY <4>2, <4>3, <4>4
    <3>4. CASE u.id # msg.id
      BY <3>1, <3>2, <3>4
    <3> QED
      BY <3>3, <3>4
  <2> QED
    BY <2>1, <2>2, <1>5
<1>11. ASSUME NEW k \in 1 .. l - 1, g.inbox[k].type = "TunInfo"
       PROVE  /\ g.inbox[k].address = [relay |-> g.relay, id |-> g.inbox[k].id]
              /\ Ready(g, pending', k - 1, g.inbox[k].id)
  <2>1. k + 1 \in 1 .. l /\ (k + 1) - 1 = (k - 1) + 1 /\ k - 1 \in Nat /\ (k - 1) + 1 <= l
    BY <1>3
  <2>2. g.inbox[k] = h.inbox[k + 1]
    BY <1>4
  <2>3. /\ h.inbox[k + 1].address = [relay |-> h.relay, id |-> h.inbox[k + 1].id]
        /\ Ready(h, pending, (k + 1) - 1, h.inbox[k + 1].id)
    BY <2>1, <2>2, <1>1, <1>4, <1>11 DEF HostHolds
  <2>4. Ready(h, pending, (k - 1) + 1, h.inbox[k + 1].id)
    BY <2>1, <2>3
  <2>5. Ready(g, pending', k - 1, h.inbox[k + 1].id)
    BY <2>1, <2>4, <1>9
  <2> QED
    BY <2>2, <2>3, <2>5, <1>4
<1>12. HostHolds(g, pending')
  BY <1>4, <1>10, <1>11 DEF HostHolds
<1>13. ASSUME NEW r \in Relays, NEW m \in relay'[r].matches, Host \in m.untold
       PROVE  Ready(g, pending', l - 1, m.id)
  <2>1. PICK n \in relay[r].matches : m.id = n.id /\ m.untold \subseteq n.untold
    BY DEF Fewer
  <2>2. Ready(h, pending, l, n.id)
    BY <2>1, <1>1, <1>4, <1>13 DEF MatchesHold
  <2>3. l - 1 \in Nat /\ (l - 1) + 1 = l /\ l <= l
    BY <1>3
  <2> QED
    BY <2>1, <2>2, <2>3, <1>9
<1>14. HostHolds(sock'[Host], pending') /\ \A r \in Relays : \A m \in relay'[r].matches :
        Host \in m.untold => Ready(sock'[Host], pending', Len(sock'[Host].inbox), m.id)
  BY <1>4, <1>12, <1>13 DEF g
<1> QED
  BY <1>14 DEF SameInv, MatchesHold

\* A message of a relay is read.
LEMMA VpsReadSame ==
  ASSUME TypeInv, TypeInv', SameInv, NEW p \in Apps, VpsRead(p)
  PROVE  SameInv'
<1> DEFINE msg == Head(sock[p].inbox)
           s == [sock[p] EXCEPT !.inbox = Tail(@)]
<1>1. sock[p].vps = "Open" /\ sock[p].inbox # << >>
  BY DEF VpsRead
<1>2. sock[p] \in SocketType /\ (p = Host => sock[p].state = "Listening")
  BY SocketFields
<1>3. s \in SocketType
  BY <1>1, <1>2, ReadInbox
<1>4. s.relay = sock[p].relay /\ s.state = sock[p].state /\ s.inbox = Tail(sock[p].inbox)
  BY <1>2 DEF SocketType
<1>5. \/ msg.type = "MatchInfo" /\ GotMatch(p, s, msg.id)
      \/ msg.type = "TunInfo" /\ GotTunInfo(p, s, msg.id, msg.address)
      \/ msg.type = "Closed" /\ Becomes(p, NextRelay(s)) /\ UNCHANGED <<pending, stale>>
  BY DEF VpsRead
<1>6. msg = Head(sock[p].inbox)
  OBVIOUS
<1> HIDE DEF msg, s
<1>7. CASE p = Host
  <2>1. CASE msg.type = "MatchInfo" /\ GotMatch(p, s, msg.id)
    <3> DEFINE t == [s EXCEPT !.sending = TRUE]
    <3>1. /\ Becomes(Host, t)
          /\ pending' = {x \in pending : x.id # msg.id} \cup
               {[id |-> msg.id, of |-> [relay |-> s.relay, id |-> msg.id], address |-> None]}
      BY <2>1, <1>7 DEF GotMatch
    <3>2. t.relay = s.relay /\ t.inbox = s.inbox
      BY <1>3 DEF SocketType
    <3> HIDE DEF t
    <3>3. sock'[Host] = t /\ Fewer
      BY <3>1, <1>7, OneBecomes, BecomesFewer
    <3>4. sock'[Host].inbox = Tail(sock[Host].inbox) /\ sock'[Host].relay = sock[Host].relay
      BY <3>2, <3>3, <1>4, <1>7
    <3> QED
      BY <2>1, <3>1, <3>3, <3>4, <1>1, <1>4, <1>6, <1>7, ReadsSame
  <2>2. CASE msg.type = "TunInfo" /\ GotTunInfo(p, s, msg.id, msg.address)
    <3>1. /\ Becomes(Host, s)
          /\ pending' = {IF x.id = msg.id THEN [x EXCEPT !.address = msg.address] ELSE x : x \in pending}
      BY <2>2, <1>7 DEF GotTunInfo
    <3>2. sock'[Host] = s /\ Fewer
      BY <3>1, <1>7, OneBecomes, BecomesFewer
    <3> QED
      BY <2>2, <3>1, <3>2, <1>1, <1>4, <1>6, <1>7, ReadsSame
  <2>3. CASE msg.type = "Closed" /\ Becomes(p, NextRelay(s)) /\ UNCHANGED <<pending, stale>>
    BY <2>3, <1>2, <1>3, <1>4, <1>7, HostLeaves
  <2> QED
    BY <2>1, <2>2, <2>3, <1>5
<1>8. CASE p # Host
  <2>1. p \in Clients
    BY <1>8 DEF Apps
  <2>2. pending' = pending /\ \E t : Becomes(p, t)
    BY <1>5, <1>8 DEF GotMatch, GotTunInfo
  <2> QED
    BY <2>1, <2>2, ClientSame
<1> QED
  BY <1>7, <1>8

\* The host waits for fewer clients.
LEMMA DroppedSame ==
  ASSUME TypeInv, SameInv, NEW t \in pending, Dropped(t)
  PROVE  SameInv'
<1> DEFINE s == [sock[Host] EXCEPT !.sending = @ /\ (pending' # {} \/ stale > 0)]
<1>1. pending' = pending \ {t} /\ Becomes(Host, s) /\ Host \in Apps
  BY DEF Dropped, Apps
<1>2. sock[Host] \in SocketType
  BY SocketFields DEF Apps
<1>3. s.relay = sock[Host].relay /\ s.inbox = sock[Host].inbox
  BY <1>2 DEF SocketType
<1> HIDE DEF s
<1>4. sock'[Host] = s /\ Fewer
  BY <1>1, OneBecomes, BecomesFewer
<1> QED
  BY <1>1, <1>3, <1>4, KeepsSame

\* The host waits for fewer clients.
LEMMA TunAcceptedSame ==
  ASSUME TypeInv, SameInv, NEW c \in Clients, TunAccepted(c)
  PROVE  SameInv'
<1> DEFINE known == {t \in pending : t.address = sock[c].match}
           after == pending \ known
<1>1. /\ pending' = after /\ relay' = relay
      /\ sock' = [sock EXCEPT ![c] = [sock[c] EXCEPT !.tun = "Accepted"],
                              ![Host].sending = @ /\ (known = {} \/ after # {} \/ stale > 0)]
  BY DEF TunAccepted
<1>2. c \in Apps /\ c # Host /\ Host \in Apps /\ sock \in [Apps -> SocketType]
  BY ClientFields DEF Apps, TypeInv, SocketsInv, SocketsHold
<1>3. pending' \subseteq pending /\ Fewer
  BY <1>1 DEF Fewer
<1> HIDE DEF known, after
<1>4. sock'[Host].inbox = sock[Host].inbox /\ sock'[Host].relay = sock[Host].relay
  BY <1>1, <1>2 DEF SocketType
<1> QED
  BY <1>3, <1>4, KeepsSame

\* The invariant holds initially.
LEMMA SameInit == Init => SameInv
<1> SUFFICES ASSUME Init
             PROVE  SameInv
  OBVIOUS
<1>1. /\ Host \in Apps
      /\ sock = [p \in Apps |-> IF p = Host THEN TryRelay(NewSocket("Listening"), 1) ELSE NewSocket("Idle")]
      /\ pending = {} /\ relay = [r \in Relays |-> NewRelay]
  BY DEF Init, Apps
<1>2. sock[Host].inbox = << >>
  BY <1>1 DEF TryRelay, NewSocket
<1>3. Len(sock[Host].inbox) = 0 /\ 1 .. 0 = {}
  BY <1>2, EmptySeq
<1>4. HostHolds(sock[Host], pending)
  BY <1>1, <1>3 DEF HostHolds
<1>5. \A r \in Relays : relay[r].matches = {}
  BY <1>1 DEF NewRelay
<1> QED
  BY <1>4, <1>5 DEF SameInv, MatchesHold

\* Every step preserves the invariant, if no ids coincide.
LEMMA SameStep == TypeInv /\ TypeInv' /\ SameInv /\ NoCoincidence /\ [Next]_vars => SameInv'
<1> SUFFICES ASSUME TypeInv, TypeInv', SameInv, NoCoincidence, [Next]_vars
             PROVE  SameInv'
  OBVIOUS
<1>1. CASE UNCHANGED vars
  BY <1>1 DEF vars, SameInv, MatchesHold
<1>2. CASE Next
  <2>1. ASSUME NEW c \in Clients,
               \/ Connect(c) \/ DirectConnected(c) \/ DirectRead(c) \/ DirectDisconnected(c)
               \/ ConnectTimedOut(c) \/ TunConnected(c) \/ TunDisconnected(c)
        PROVE  SameInv'
    BY <2>1, ClientStepsSame
  <2>2. ASSUME NEW c \in Clients, TunAccepted(c)
        PROVE  SameInv'
    BY <2>2, TunAcceptedSame
  <2>3. ASSUME NEW p \in Apps,
               RelayRead(p) \/ VpsConnected(p) \/ VpsDisconnected(p) \/ VpsRead(p) \/ SendUdpData(p)
        PROVE  SameInv'
    BY <2>3, RelayReadSame, VpsConnectedSame, VpsDisconnectedSame, VpsReadSame, SendUdpDataSame
  <2>4. CASE PendingTimedOut
    BY <2>4, DroppedSame DEF PendingTimedOut
  <2> QED
    BY <1>2, <2>1, <2>2, <2>3, <2>4 DEF Next
<1> QED
  BY <1>1, <1>2

\* The address that the host keeps for a match is the hole that the matched client has
\* opened for it, whoever loses its relay and whatever is sent late or left over from the
\* matches of another relay, by any number of clients and over any number of relays, as
\* long as no client sends to a relay that has given the id of its match to another one:
\* every relay numbers its matches from 1.
THEOREM MatchesAreTheSame == Spec => SameMatch
<1>1. Init => SameInv
  BY SameInit
<1>2. TypeInv /\ TypeInv' /\ SameInv /\ NoCoincidence /\ [Next]_vars => SameInv'
  BY SameStep
<1>3. SameInv => RightHoles
  BY DEF SameInv, HostHolds, RightHoles
<1> QED
  BY <1>1, <1>2, <1>3, TypeInvIsInvariant, PTL DEF Spec, SameMatch
=============================================================================

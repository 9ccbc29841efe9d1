----------------------------- MODULE SmartSocket -----------------------------
(***************************************************************************)
(* SmartSocket: a host that listens, and clients that connect to it         *)
(* directly or, when that fails, over a UDP tunnel that a relay server      *)
(* arranges ("Tunnel protocol", scripts/server.py).                         *)
(*                                                                          *)
(* Every socket that a SmartSocket uses says by a callback that it is       *)
(* connected or gone, after the timeout it has for connecting.  The         *)
(* UdpData that both ends send again and again to open their holes arrives  *)
(* at once or not at all.  A relay learns at once that a connection to it   *)
(* is closed.  A hole is named after the match that it was opened for.      *)
(***************************************************************************)
EXTENDS Integers, Sequences, FiniteSets

CONSTANTS
    Host, Clients,  \* the SmartSockets
    None,           \* no match, no address
    NumRelays,      \* the length of relayServers
    Breaks          \* bound: the SmartSockets, and the states in which the connection of each
                    \* to a relay may break

ASSUME SmartSocketAssumption ==
    /\ Host \notin Clients /\ IsFiniteSet(Clients) /\ NumRelays \in Nat \ {0}
    /\ Breaks \subseteq (Clients \cup {Host}) \X {"Listening", "Connecting", "Connected"}
    /\ None # Host /\ None \notin [relay : 1 .. NumRelays, id : Nat]

VARIABLES
    sock,     \* the SmartSockets
    pending,  \* _pendingClients of the host: matches, and what each one is truly of
    stale,    \* keys of _pendingTimers whose client is not in _pendingClients
    relay     \* the relay servers: is the host registered, the last match id, the matches

vars == <<sock, pending, stale, relay>>

Apps == {Host} \cup Clients
Relays == 1 .. NumRelays

\* A SmartSocket.  relay is the position of _vpsAddress, asked says that the relay has
\* not read its request, heard that the direct socket has read something.
NewSocket(state) ==
    [state |-> state, direct |-> "None", heard |-> FALSE, relay |-> 1, vps |-> "None", asked |-> FALSE,
     inbox |-> << >>, timer |-> FALSE, match |-> None, tun |-> "None", sending |-> FALSE]

\* disconnect
Disconnected(s) == NewSocket("Disconnected")

-----------------------------------------------------------------------------
(* scripts/server.py                                                       *)

NewRelay == [host |-> FALSE, last |-> 0, matches |-> {}]

\* "otherwise disconnect": a host p is deleted, and the matches that p is still to be told
\* of.  A match that p was told of no longer names it, and stays.
Forget(r, p) ==
    [r EXCEPT !.host = @ /\ p # Host, !.matches = {m \in @ : p \notin m.untold}]

\* The relays after the socket of p became s: one that p has left forgets it.
RelaysAfter(p, s) ==
    [r \in Relays |-> IF sock[p].vps = "Open" /\ sock[p].relay = r /\ (s.vps # "Open" \/ s.relay # r)
                        THEN Forget(relay[r], p) ELSE relay[r]]

\* Step of p alone.
Becomes(p, s) ==
    /\ sock' = [sock EXCEPT ![p] = s]
    /\ relay' = RelaysAfter(p, s)

\* A host registers.  A client is matched with the host, or disconnected.
RelayRead(p) ==
    LET r == sock[p].relay
        id == relay[r].last + 1
        matched == [type |-> "MatchInfo", id |-> id]
    IN  /\ sock[p].vps = "Open" /\ sock[p].asked
        /\ IF p = Host
             THEN /\ relay' = [relay EXCEPT ![r].host = TRUE]
                  /\ sock' = [sock EXCEPT ![p].asked = FALSE]
           ELSE IF relay[r].host
             THEN /\ relay' = [relay EXCEPT ![r].last = id,
                                            ![r].matches = @ \cup {[id |-> id, client |-> p, untold |-> {Host, p}]}]
                  /\ sock' = [sock EXCEPT ![p].asked = FALSE, ![p].inbox = Append(@, matched),
                                          ![Host].inbox = Append(@, matched)]
           ELSE /\ relay' = [relay EXCEPT ![r] = Forget(@, p)]
                /\ sock' = [sock EXCEPT ![p].asked = FALSE, ![p].inbox = Append(@, [type |-> "Closed"])]
        /\ UNCHANGED <<pending, stale>>

\* Wrong: the one who sent it is told its own address.
OtherEndSame(m, p) == p

\* matches [ matchId ] [ index ]
OtherEnd(m, p) == IF p = Host THEN m.client ELSE Host

\* The UdpData of match id arrives at relay r from a hole of p: the other end is told
\* the address, once, and a match of which both ends were told is over.
RelayGets(p, r, id, hole) ==
    \E m \in {n \in relay[r].matches : n.id = id} :
        LET q == OtherEnd(m, p)
            rest == m.untold \ {q}
        IN  /\ sock' = IF q \notin m.untold THEN sock
                       ELSE [sock EXCEPT ![q].inbox = Append(@, [type |-> "TunInfo", id |-> id, address |-> hole])]
            /\ relay' = [relay EXCEPT ![r].matches =
                            (@ \ {m}) \cup (IF rest = {} THEN {} ELSE {[m EXCEPT !.untold = rest]})]

-----------------------------------------------------------------------------
(* SmartSocket                                                             *)

\* A connection to the relay is begun.
TryRelay(s, n) ==
    [s EXCEPT !.relay = n, !.vps = "Connecting", !.asked = FALSE, !.inbox = << >>]

Init ==
    /\ sock = [p \in Apps |-> IF p = Host THEN TryRelay(NewSocket("Listening"), 1) ELSE NewSocket("Idle")]
    /\ pending = {} /\ stale = 0
    /\ relay = [r \in Relays |-> NewRelay]

\* The constructor of a client.
Connect(c) ==
    /\ sock[c].state = "Idle"
    /\ \E forceTun \in BOOLEAN :
         Becomes(c, LET s == NewSocket("Connecting") IN
                    IF forceTun THEN TryRelay(s, 1) ELSE [s EXCEPT !.direct = "Connecting"])
    /\ UNCHANGED <<pending, stale>>

\* socketConnected, of the direct socket or of the tunnel
Connected(s) == [s EXCEPT !.state = "Connected", !.timer = FALSE, !.sending = FALSE]

DirectConnected(c) ==
    /\ sock[c].direct = "Connecting"
    /\ Becomes(c, [Connected(sock[c]) EXCEPT !.direct = "Connected"])
    /\ UNCHANGED <<pending, stale>>

\* socketRead
DirectRead(c) ==
    /\ sock[c].direct = "Connected" /\ ~sock[c].heard
    /\ Becomes(c, [sock[c] EXCEPT !.heard = TRUE])
    /\ UNCHANGED <<pending, stale>>

\* socketDisconnected, of the direct socket: switch to the tunnel.  That the direct
\* socket has read something is asked of the SmartSocket, which never reads.
DirectDisconnected(c) ==
    /\ sock[c].direct # "None"
    /\ Becomes(c, TryRelay([sock[c] EXCEPT !.direct = "None", !.heard = FALSE], 1))
    /\ UNCHANGED <<pending, stale>>

\* Wrong: the client does not time its wait for a match.
AskedUntimed(p, s) == [s EXCEPT !.vps = "Open", !.asked = TRUE]

\* socketConnected, of the socket to the relay: the request is sent
Asked(p, s) == [s EXCEPT !.vps = "Open", !.asked = TRUE, !.timer = @ \/ p # Host]

VpsConnected(p) ==
    /\ sock[p].vps = "Connecting"
    /\ Becomes(p, Asked(p, sock[p]))
    /\ UNCHANGED <<pending, stale>>

\* Wrong: the next relay is tried even after the last one.
NextRelayUnchecked(s) == [TryRelay(s, s.relay + 1) EXCEPT !.timer = FALSE]

\* socketDisconnected, of the socket to the relay: the next one, if there is one
NextRelay(s) ==
    IF s.relay < NumRelays THEN [TryRelay(s, s.relay + 1) EXCEPT !.timer = FALSE]
    ELSE IF s.state = "Connecting" THEN Disconnected(s)
    ELSE [s EXCEPT !.relay = NumRelays + 1, !.vps = "None", !.asked = FALSE, !.inbox = << >>]

VpsDisconnected(p) ==
    /\ \/ sock[p].vps = "Connecting"
       \/ sock[p].vps = "Open" /\ <<p, sock[p].state>> \in Breaks
    /\ Becomes(p, NextRelay(sock[p]))
    /\ UNCHANGED <<pending, stale>>

\* gotMatch: the host has one more pending client, a client opens its own hole
GotMatch(p, s, id) ==
    LET match == [relay |-> s.relay, id |-> id] IN
    /\ Becomes(p, IF p = Host THEN [s EXCEPT !.sending = TRUE]
                  ELSE [s EXCEPT !.match = match, !.tun = "Bound", !.sending = TRUE])
    /\ pending' = IF p # Host THEN pending
                  ELSE {t \in pending : t.id # id} \cup {[id |-> id, of |-> match, address |-> None]}
    /\ stale' = IF p = Host /\ \E t \in pending : t.id = id THEN stale + 1 ELSE stale

\* gotTunInfo: where the other end's hole is
GotTunInfo(p, s, id, address) ==
    /\ Becomes(p, IF p = Host THEN s ELSE [s EXCEPT !.timer = FALSE, !.tun = "Connecting"])
    /\ pending' = IF p # Host THEN pending
                  ELSE {IF t.id = id THEN [t EXCEPT !.address = address] ELSE t : t \in pending}
    /\ UNCHANGED stale

\* socketRead, of the socket to the relay
VpsRead(p) ==
    LET msg == Head(sock[p].inbox)
        s == [sock[p] EXCEPT !.inbox = Tail(@)]
    IN  /\ sock[p].vps = "Open" /\ sock[p].inbox # << >>
        /\ \/ msg.type = "MatchInfo" /\ GotMatch(p, s, msg.id)
           \/ msg.type = "TunInfo" /\ GotTunInfo(p, s, msg.id, msg.address)
           \/ msg.type = "Closed" /\ Becomes(p, NextRelay(s)) /\ UNCHANGED <<pending, stale>>

\* timerExpired: UdpData that arrives at the relay of _vpsAddress
SendUdpData(p) ==
    /\ sock[p].sending /\ sock[p].relay \in Relays
    /\ IF p = Host THEN \E t \in pending : RelayGets(p, sock[p].relay, t.id, Host)
       ELSE RelayGets(p, sock[p].relay, sock[p].match.id, sock[p].match)
    /\ UNCHANGED <<pending, stale>>

\* timerExpired: no match in time
ConnectTimedOut(c) ==
    /\ sock[c].timer
    /\ Becomes(c, Disconnected(sock[c]))
    /\ UNCHANGED <<pending, stale>>

\* A pending client is no longer waited for, with whom the send timer stops if it is
\* the last one.
Dropped(t) ==
    /\ pending' = pending \ {t}
    /\ Becomes(Host, [sock[Host] EXCEPT !.sending = @ /\ (pending' # {} \/ stale > 0)])
    /\ UNCHANGED stale

PendingTimedOut == \E t \in pending : Dropped(t)

\* accept: the tunnel of a client, which may have been dropped
TunAccepted(c) ==
    /\ sock[c].tun = "Connecting"
    /\ \E s \in {[sock[c] EXCEPT !.tun = "Accepted"]} :
       LET known == {t \in pending : t.address = sock[c].match}
           after == pending \ known
       IN  /\ pending' = after
           /\ sock' = [sock EXCEPT ![c] = s,
                                   ![Host].sending = @ /\ (known = {} \/ after # {} \/ stale > 0)]
    /\ UNCHANGED <<stale, relay>>

\* socketConnected, of the tunnel
TunConnected(c) ==
    /\ sock[c].tun = "Accepted"
    /\ Becomes(c, [Connected(sock[c]) EXCEPT !.tun = "Connected"])
    /\ UNCHANGED <<pending, stale>>

\* socketDisconnected, of the tunnel
TunDisconnected(c) ==
    /\ sock[c].tun \in {"Connecting", "Accepted", "Connected"}
    /\ Becomes(c, Disconnected(sock[c]))
    /\ UNCHANGED <<pending, stale>>

Next ==
    \/ \E c \in Clients : \/ Connect(c) \/ DirectConnected(c) \/ DirectRead(c) \/ DirectDisconnected(c)
                          \/ ConnectTimedOut(c)
                          \/ TunAccepted(c) \/ TunConnected(c) \/ TunDisconnected(c)
    \/ \E p \in Apps : RelayRead(p) \/ VpsConnected(p) \/ VpsDisconnected(p) \/ VpsRead(p) \/ SendUdpData(p)
    \/ PendingTimedOut

Spec == Init /\ [][Next]_vars

\* A socket that connects is connected or fails, after its timeout at the latest; the
\* connect timer expires.
FairSpec ==
    /\ Spec
    /\ \A c \in Clients :
         /\ WF_vars(DirectConnected(c) \/ (sock[c].direct = "Connecting" /\ DirectDisconnected(c)))
         /\ WF_vars(VpsConnected(c) \/ (sock[c].vps = "Connecting" /\ VpsDisconnected(c)))
         /\ WF_vars(ConnectTimedOut(c))
         /\ WF_vars(TunConnected(c) \/ (sock[c].tun # "Connected" /\ TunDisconnected(c)))

-----------------------------------------------------------------------------
(* Correctness.                                                            *)

\* The position in the list of relays is in the list or at its end, a client whose tunnel
\* is being connected has a match, and the host sends for as long as a client is pending.
TypeOK ==
    /\ \A p \in Apps :
         /\ sock[p].state \in {"Listening", "Idle", "Connecting", "Connected", "Disconnected"}
         /\ sock[p].relay \in 1 .. NumRelays + 1
         /\ sock[p].vps # "None" => sock[p].relay \in Relays
         /\ sock[p].tun # "None" => sock[p].match # None
    /\ stale \in Nat /\ Cardinality({t.id : t \in pending}) = Cardinality(pending)
    /\ pending # {} => sock[Host].sending

\* Client c, matched at another relay, sends to one that has given the id of its match to
\* another match.
Coincides(c) ==
    /\ sock[c].sending /\ sock[c].relay \in Relays /\ sock[c].match.relay # sock[c].relay
    /\ \E m \in relay[sock[c].relay].matches : m.id = sock[c].match.id

NoCoincidence == \A c \in Clients : ~Coincides(c)

\* every address kept is the hole that the matched client has opened
RightHoles == \A t \in pending : t.address \in {None, t.of}

\* As long as no client sends so, the address that the host keeps for a match is the hole
\* that the matched client has opened for it, whoever loses its relay, and whatever is sent
\* late or left over from the matches of a relay that the host has lost.
SameMatch == []NoCoincidence => []RightHoles

\* Every attempt to connect ends.
ClientSettles == \A c \in Clients : sock[c].state = "Connecting" ~> sock[c].state # "Connecting"

\* "Did we get a successful recv()? If not, it is possible we never really connected"
\* (Socket.hpp:150): a client whose direct connection did get one, and is lost, is told.
LossIsReported ==
    [][\A c \in Clients : sock[c].direct = "Connected" /\ sock[c].heard /\ sock'[c].direct = "None"
         => sock'[c].state = "Disconnected"]_vars
=============================================================================

------------------------ MODULE NetplaySetup_proofs ------------------------
(***************************************************************************)
(* Proofs about NetplaySetup: its sockets are in order, the host plays     *)
(* with one client, on the terms both users have seen, and no client is    *)
(* left waiting.                                                           *)
(*                                                                         *)
(* A client goes through the protocol once.  At each point one thing, a    *)
(* message or a pinger, carries it on.  The invariant Good says that there *)
(* is never a second one, and what the statistics are at each point; Hope  *)
(* says that there is always one, or that an end is told of a failure.     *)
(***************************************************************************)
EXTENDS NetplaySetup, TLAPS

-----------------------------------------------------------------------------
(* Types.                                                                  *)

Samples == [Apps -> Nat]

Msg ==
    [type : {"Open", "Closed", "VersionConfig", "ErrorMessage", "ConfirmConfig"}]
      \cup [type : {"InitialConfig"}, port : {0, 1}]
      \cup [type : {"PingStats"}, samples : Samples]
      \cup [type : {"NetplayConfig"}, session : {1}]
      \cup [type : {"Ping"}, from : Apps]

PingerType == [on : BOOLEAN, count : 0 .. NumPings, samples : Samples]

AppType ==
    [role : Roles, status : {"Idle", "Running", "Starting", "InGame", "Stopped"},
     ctrl : Clients \cup {None, Host}, data : {"None", "Listening", "Connecting", "Open"},
     peer : Clients \cup {None}, port : {0, 1}, ready : BOOLEAN, final : BOOLEAN,
     ui : {"No", "Asked", "Answered", "Taken"}, confirmed : BOOLEAN, timeout : BOOLEAN, session : {0, 1},
     pinger : PingerType, stats : Samples]

LinkType == [to : [Apps -> Seq(Msg)], ends : SUBSET Apps]

World == [app : [Apps -> AppType], link : [Kinds -> [Clients -> LinkType]], pending : SUBSET Clients]

\* The messages to p of client c's control connection, and the ends it has.
To(w, c, p) == w.link["ctrl"][c].to[p]
Ends(w, c) == w.link["ctrl"][c].ends

\* A message of the type is on its way; at most one is.
Has(q, type) == \E i \in 1 .. Len(q) : q[i].type = type
Once(q, type) == \A i, j \in 1 .. Len(q) : q[i].type = type /\ q[j].type = type => i = j

\* The statistics on their way.
StatsIn(q) == {q[i].samples : i \in {j \in 1 .. Len(q) : q[j].type = "PingStats"}}

\* The connection l of client c has its ends only, nothing is on its way to an end
\* that is not there, and a data connection carries pings.
Wired(l, kind, c) ==
    /\ l.ends \subseteq {Host, c}
    /\ \A p \in Apps : l.to[p] # << >> => p \in l.ends
    /\ kind = "data" =>
         \A p \in Apps : \A i \in 1 .. Len(l.to[p]) : l.to[p][i].type \in {"Open", "Closed", "Ping"}

\* The ends of connections are of applications that run.
Alive(w) == \A kind \in Kinds, c \in Clients : \A p \in w.link[kind][c].ends : Running(w, p)

\* The sockets that the host has accepted and not chosen are open.
Waiting(w) == \A c \in w.pending : Host \in Ends(w, c)

AllWired(w) == \A kind \in Kinds, c \in Clients : Wired(w.link[kind][c], kind, c)

Typed(w) == w \in World /\ AllWired(w) /\ Alive(w) /\ Waiting(w)

-----------------------------------------------------------------------------
(* The points of the protocol that client c can be at.                     *)

\* c has not been chosen yet.
Untried(w, c) == w.app[c].status = "Idle" \/ Has(To(w, c, c), "Open") \/ Has(To(w, c, Host), "VersionConfig")

\* The host waits for the data connection of c; it pings; it has sent its statistics;
\* c pings; c has sent its own statistics; the host asks its user.
Chosen(w, c) == w.app[Host].ctrl = c /\ w.app[Host].data = "Listening"
HostPings(w, c) == w.app[Host].ctrl = c /\ w.app[Host].pinger.on
HostTells(w, c) == Has(To(w, c, c), "PingStats")
ClientPings(w, c) == w.app[c].pinger.on
ClientTells(w, c) == Has(To(w, c, Host), "PingStats")
HostAsks(w, c) == w.app[Host].ctrl = c /\ w.app[Host].ui # "No"

\* c is past a point, and its user has not been asked.
NoStats(w, c) == ~HostTells(w, c) /\ ~ClientPings(w, c) /\ ~ClientTells(w, c)

Stages(w, c) ==
    /\ Untried(w, c) => NoStats(w, c) /\ w.app[Host].ctrl # c
    /\ Chosen(w, c) => NoStats(w, c) /\ ~HostPings(w, c) /\ ~HostAsks(w, c)
    /\ HostPings(w, c) => NoStats(w, c) /\ ~HostAsks(w, c)
    /\ HostTells(w, c) => ~ClientPings(w, c) /\ ~ClientTells(w, c) /\ ~HostAsks(w, c)
    /\ ClientPings(w, c) => ~ClientTells(w, c) /\ ~HostAsks(w, c)
    /\ ClientTells(w, c) => ~HostAsks(w, c)
    /\ Untried(w, c) \/ Chosen(w, c) \/ HostPings(w, c) \/ HostTells(w, c) \/ ClientPings(w, c)
         => w.app[c].ui = "No"
    /\ w.app[Host].ctrl # c /\ Host \in Ends(w, c) => NoStats(w, c)

\* Each message is sent once, and c is accepted once.
Single(w, c) ==
    /\ Once(To(w, c, Host), "Open") /\ Once(To(w, c, c), "Open")
    /\ Once(To(w, c, Host), "VersionConfig")
    /\ Once(To(w, c, Host), "PingStats") /\ Once(To(w, c, c), "PingStats")
    /\ Has(To(w, c, c), "Open") => ~Has(To(w, c, Host), "VersionConfig")
    /\ Has(To(w, c, Host), "Open") => c \notin w.pending /\ w.app[Host].ctrl # c
    /\ c \in w.pending => w.app[Host].ctrl # c
    /\ w.app[c].status = "Idle" => Ends(w, c) = {}

\* What the host has sent to c and c to the host when they agree.
Deal(w, c) ==
    /\ w.app[c].final \/ Has(To(w, c, c), "NetplayConfig") => w.app[Host].ctrl = c /\ w.app[Host].ui = "Taken"
    /\ w.app[c].final => w.app[c].session = 1
    /\ ~Has(To(w, c, c), "ConfirmConfig")
    /\ Has(To(w, c, Host), "ConfirmConfig") => w.app[c].confirmed /\ w.app[c].final
    /\ w.app[c].status \in {"Starting", "InGame"} => w.app[c].confirmed /\ w.app[c].final
    /\ w.app[c].confirmed => w.app[c].ui \in {"Answered", "Taken"}
    /\ w.app[Host].ctrl = c /\ w.app[Host].final => w.app[c].confirmed /\ w.app[c].final

\* The statistics, when c is the client that the host has chosen.
Figures(w, c) ==
    LET own == w.app[Host].pinger.samples
        stats == w.app[c].stats
    IN w.app[Host].ctrl = c =>
         /\ Running(w, Host) => \A s \in StatsIn(To(w, c, c)) : s = own
         /\ Running(w, Host) /\ ClientPings(w, c) => stats = own
         /\ w.app[c].ui # "No" =>
              /\ \A s \in StatsIn(To(w, c, Host)) : \A q \in Apps : stats[q] = own[q] + s[q]
              /\ w.app[Host].ui # "No" => w.app[Host].stats = stats

\* The host has chosen a client when it pings, asks its user, or starts.
HostInOrder(w) ==
    /\ w.app[Host].ctrl \in Clients \cup {None}
    /\ \/ w.app[Host].pinger.on \/ w.app[Host].ui # "No" \/ w.app[Host].final \/ w.app[Host].peer # None
       => w.app[Host].ctrl \in Clients
    /\ w.app[Host].status \in {"Starting", "InGame"} => w.app[Host].final
    /\ w.app[Host].status # "Idle"

TermsOf(w, c) == Stages(w, c) /\ Single(w, c) /\ Deal(w, c) /\ Figures(w, c)

Terms(w) == HostInOrder(w) /\ \A c \in Clients : TermsOf(w, c)

Good(w) == Typed(w) /\ Terms(w)

\* c is past all that it had to do by now, and its user has not been asked.
Between(w, c) ==
    /\ NoStats(w, c) /\ ~Untried(w, c) /\ ~Chosen(w, c) /\ ~HostPings(w, c) /\ ~HostAsks(w, c)
    /\ w.app[c].ui = "No"

-----------------------------------------------------------------------------
(* Queues of messages.                                                     *)

\* The fields of a message, by its type.
LEMMA MsgFields ==
    ASSUME NEW m \in Msg
    PROVE  /\ m.type = "PingStats" => m.samples \in Samples
           /\ m.type = "InitialConfig" => m.port \in {0, 1}
           /\ m.type = "NetplayConfig" => m.session = 1
           /\ m.type = "Ping" => m.from \in Apps
    BY DEF Msg

\* Nothing is on its way in an empty queue.
LEMMA EmptyQueue ==
    ASSUME NEW type
    PROVE  ~Has(<< >>, type) /\ Once(<< >>, type) /\ StatsIn(<< >>) = {}
    BY DEF Has, Once, StatsIn

\* What Append adds.
LEMMA AppendQueue ==
    ASSUME NEW q \in Seq(Msg), NEW m \in Msg, NEW type
    PROVE  /\ Append(q, m) \in Seq(Msg)
           /\ Has(Append(q, m), type) <=> Has(q, type) \/ m.type = type
           /\ Once(q, type) /\ (m.type # type \/ ~Has(q, type)) => Once(Append(q, m), type)
           /\ StatsIn(Append(q, m)) = StatsIn(q) \cup (IF m.type = "PingStats" THEN {m.samples} ELSE {})
  <1> DEFINE r == Append(q, m)
  <1>1. r \in Seq(Msg) /\ Len(r) = Len(q) + 1 /\ r[Len(q) + 1] = m /\ \A i \in 1 .. Len(q) : r[i] = q[i]
        /\ Len(q) \in Nat
    OBVIOUS
  <1> HIDE DEF r
  <1>2. Has(r, type) <=> Has(q, type) \/ m.type = type
    BY <1>1 DEF Has
  <1>3. Once(q, type) /\ (m.type # type \/ ~Has(q, type)) => Once(r, type)
    BY <1>1 DEF Has, Once
  <1>4. StatsIn(r) = StatsIn(q) \cup (IF m.type = "PingStats" THEN {m.samples} ELSE {})
    <2>1. CASE m.type = "PingStats"
      <3>1. ASSUME NEW s \in StatsIn(r) PROVE s \in StatsIn(q) \cup {m.samples}
        BY <1>1, <3>1 DEF StatsIn
      <3>2. ASSUME NEW s \in StatsIn(q) \cup {m.samples} PROVE s \in StatsIn(r)
        <4>1. CASE s = m.samples
          BY <1>1, <2>1, <4>1 DEF StatsIn
        <4>2. CASE s \in StatsIn(q)
          <5>1. PICK i \in 1 .. Len(q) : q[i].type = "PingStats" /\ s = q[i].samples
            BY <4>2 DEF StatsIn
          <5>2. i \in 1 .. Len(r) /\ r[i].type = "PingStats" /\ s = r[i].samples
            BY <5>1, <1>1
          <5> QED BY <5>2 DEF StatsIn
        <4> QED BY <3>2, <4>1, <4>2
      <3> QED BY <2>1, <3>1, <3>2
    <2>2. CASE m.type # "PingStats"
      <3>1. ASSUME NEW s \in StatsIn(r) PROVE s \in StatsIn(q)
        BY <1>1, <2>2, <3>1 DEF StatsIn
      <3>2. ASSUME NEW s \in StatsIn(q) PROVE s \in StatsIn(r)
        BY <1>1, <3>2 DEF StatsIn
      <3> QED BY <2>2, <3>1, <3>2
    <2> QED BY <2>1, <2>2
  <1> QED BY <1>1, <1>2, <1>3, <1>4 DEF r

\* What Tail leaves, and what Head is.
LEMMA TailQueue ==
    ASSUME NEW q \in Seq(Msg), q # << >>, NEW type
    PROVE  /\ Tail(q) \in Seq(Msg) /\ Head(q) \in Msg
           /\ Has(Tail(q), type) => Has(q, type)
           /\ Once(q, type) => Once(Tail(q), type)
           /\ StatsIn(Tail(q)) \subseteq StatsIn(q)
           /\ Head(q).type = type => Has(q, type)
           /\ Head(q).type = type /\ Once(q, type) => ~Has(Tail(q), type)
           /\ Head(q).type = "PingStats" => Head(q).samples \in StatsIn(q)
  <1> DEFINE r == Tail(q)
  <1>1. r \in Seq(Msg) /\ Len(r) = Len(q) - 1 /\ (\A i \in 1 .. Len(r) : r[i] = q[i + 1])
        /\ Len(q) \in Nat \ {0} /\ Head(q) = q[1] /\ q[1] \in Msg
    OBVIOUS
  <1> HIDE DEF r
  <1>2. Has(r, type) => Has(q, type)
    BY <1>1 DEF Has
  <1>3. ASSUME Once(q, type), NEW i \in 1 .. Len(r), NEW j \in 1 .. Len(r), r[i].type = type, r[j].type = type
        PROVE  i = j
    <2>1. i + 1 \in 1 .. Len(q) /\ j + 1 \in 1 .. Len(q) /\ q[i + 1].type = type /\ q[j + 1].type = type
      BY <1>1, <1>3
    <2>2. i + 1 = j + 1
      BY <2>1, <1>3 DEF Once
    <2> QED BY <2>2
  <1>4. ASSUME NEW s \in StatsIn(r) PROVE s \in StatsIn(q)
    <2>1. PICK i \in 1 .. Len(r) : r[i].type = "PingStats" /\ s = r[i].samples
      BY <1>4 DEF StatsIn
    <2>2. i + 1 \in 1 .. Len(q) /\ q[i + 1].type = "PingStats" /\ s = q[i + 1].samples
      BY <2>1, <1>1
    <2> QED BY <2>2 DEF StatsIn
  <1>5. q[1].type = type => Has(q, type)
    BY <1>1 DEF Has
  <1>6. q[1].type = type /\ Once(q, type) => ~Has(r, type)
    BY <1>1 DEF Has, Once
  <1>7. q[1].type = "PingStats" => q[1].samples \in StatsIn(q)
    BY <1>1 DEF StatsIn
  <1> QED BY <1>1, <1>2, <1>3, <1>4, <1>5, <1>6, <1>7 DEF r, Once

\* A queue of one message.
LEMMA OneMessage ==
    ASSUME NEW m \in Msg, NEW type
    PROVE  /\ << m >> \in Seq(Msg)
           /\ Has(<< m >>, type) <=> m.type = type
           /\ Once(<< m >>, type)
           /\ m.type # "PingStats" => StatsIn(<< m >>) = {}
    BY DEF Has, Once, StatsIn

\* Statistics are on their way in messages.
LEMMA StatsAreTold ==
    ASSUME NEW q, ~Has(q, "PingStats")
    PROVE  StatsIn(q) = {}
    BY DEF Has, StatsIn

-----------------------------------------------------------------------------
(* Less going on: some messages less, some ends less, nothing new that     *)
(* carries a client on.                                                    *)

\* The messages to p that say something about how far a client is.
Telling(p) ==
    IF p = Host THEN {"Open", "VersionConfig", "PingStats", "ConfirmConfig"}
    ELSE {"Open", "PingStats", "NetplayConfig", "ConfirmConfig"}

\* In the queue q to p there is no more than in r.
Fewer(q, r, p) ==
    /\ \A type \in Telling(p) : (Has(q, type) => Has(r, type)) /\ (Once(r, type) => Once(q, type))
    /\ StatsIn(q) \subseteq StatsIn(r)

LessLink(k, l) == k.ends \subseteq l.ends /\ \A p \in Apps : Fewer(k.to[p], l.to[p], p)

\* The application p has a where it had b.
Quieter(a, b) ==
    /\ a.ctrl = b.ctrl /\ a.final = b.final /\ a.ui = b.ui /\ a.confirmed = b.confirmed
    /\ a.session = b.session /\ a.stats = b.stats /\ a.peer = b.peer
    /\ a.data = "Listening" => b.data = "Listening"
    /\ a.pinger.on => b.pinger.on
    /\ a.status = "Idle" <=> b.status = "Idle"
    /\ a.status \in {"Starting", "InGame"} => b.status \in {"Starting", "InGame"}
    /\ a.status \in {"Running", "Starting"} =>
         b.status \in {"Running", "Starting"} /\ a.pinger.samples = b.pinger.samples

Less(v, w) ==
    /\ \A p \in Apps : Quieter(v.app[p], w.app[p])
    /\ \A c \in Clients : LessLink(v.link["ctrl"][c], w.link["ctrl"][c])
    /\ v.pending \subseteq w.pending

Calm(v, w) == Typed(v) /\ Less(v, w)

\* An empty queue, a shorter one, and one with a message that says nothing about the
\* client have no more in them.
LEMMA FewerMessages ==
    ASSUME NEW q \in Seq(Msg), NEW p \in Apps
    PROVE  /\ Fewer(q, q, p) /\ Fewer(<< >>, q, p)
           /\ q # << >> => Fewer(Tail(q), q, p)
           /\ \A m \in Msg : m.type \notin Telling(p) => Fewer(Append(q, m), q, p) /\ Fewer(<< m >>, q, p)
  <1>1. Fewer(q, q, p) /\ Fewer(<< >>, q, p)
    BY EmptyQueue DEF Fewer
  <1>2. ASSUME q # << >> PROVE Fewer(Tail(q), q, p)
    BY <1>2, TailQueue DEF Fewer
  <1>3. ASSUME NEW m \in Msg, m.type \notin Telling(p)
        PROVE  Fewer(Append(q, m), q, p) /\ Fewer(<< m >>, q, p)
    <2>1. m.type # "PingStats"
      BY <1>3 DEF Telling
    <2>2. ASSUME NEW type \in Telling(p)
          PROVE  /\ Has(Append(q, m), type) => Has(q, type)
                 /\ Once(q, type) => Once(Append(q, m), type)
                 /\ Has(<< m >>, type) => Has(q, type)
                 /\ Once(<< m >>, type)
      BY <1>3, <2>2, AppendQueue, OneMessage
    <2>3. StatsIn(Append(q, m)) = StatsIn(q) /\ StatsIn(<< m >>) = {}
      BY Zenon, <2>1, AppendQueue, OneMessage
    <2> QED BY <2>2, <2>3 DEF Fewer
  <1> QED BY <1>1, <1>2, <1>3

\* No more than no more is no more.
LEMMA LessIsTransitive ==
    ASSUME NEW u, NEW v, NEW w, Less(u, v), Less(v, w)
    PROVE  Less(u, w)
  <1>1. ASSUME NEW p \in Apps PROVE Quieter(u.app[p], w.app[p])
    BY <1>1 DEF Less, Quieter
  <1>2. ASSUME NEW c \in Clients PROVE LessLink(u.link["ctrl"][c], w.link["ctrl"][c])
    <2>1. LessLink(u.link["ctrl"][c], v.link["ctrl"][c]) /\ LessLink(v.link["ctrl"][c], w.link["ctrl"][c])
      BY <1>2 DEF Less
    <2> QED BY <2>1 DEF LessLink, Fewer
  <1> QED BY <1>1, <1>2 DEF Less

\* Calm steps follow each other.
LEMMA CalmIsTransitive ==
    ASSUME NEW u, NEW v, NEW w, Calm(u, v), Calm(v, w)
    PROVE  Calm(u, w)
    BY LessIsTransitive DEF Calm

\* Doing nothing is calm.
LEMMA CalmIsReflexive ==
    ASSUME NEW w, Typed(w)
    PROVE  Calm(w, w)
  <1>1. ASSUME NEW c \in Clients PROVE LessLink(w.link["ctrl"][c], w.link["ctrl"][c])
    BY <1>1 DEF LessLink, Fewer
  <1>2. ASSUME NEW p \in Apps PROVE Quieter(w.app[p], w.app[p])
    BY DEF Quieter
  <1> QED BY <1>1, <1>2 DEF Calm, Less

-----------------------------------------------------------------------------
(* Links.                                                                  *)

\* Closing an end of a connection.
LEMMA CutIsCalm ==
    ASSUME NEW l \in LinkType, NEW kind, NEW c \in Clients, NEW p \in Apps, Wired(l, kind, c)
    PROVE  /\ Cut(l, c, p) \in LinkType /\ Wired(Cut(l, c, p), kind, c) /\ LessLink(Cut(l, c, p), l)
           /\ Cut(l, c, p).ends = l.ends \ {p}
  <1> DEFINE o == OtherEnd(p, c)
             m == [type |-> "Closed"]
             k == Cut(l, c, p)
  <1>1. CASE p \notin l.ends
    <2>1. k = l
      BY <1>1 DEF Cut
    <2>2. LessLink(l, l)
      BY DEF LessLink, Fewer
    <2> QED BY <2>1, <2>2, <1>1
  <1>2. CASE p \in l.ends
    <2>1. p \in {Host, c} /\ o \in {Host, c} /\ o # p /\ o \in Apps
      BY <1>2, SetupAssumption DEF Wired, OtherEnd, Apps
    <2>2. m \in Msg /\ \A q \in Apps : m.type \notin Telling(q)
      BY DEF Msg, Telling
    <2>3. l.to \in [Apps -> Seq(Msg)] /\ l.ends \subseteq Apps /\ l = [to |-> l.to, ends |-> l.ends]
      BY DEF LinkType
    <2>4. PICK x : x = IF l.ends = {Host, c} THEN Append(l.to[o], m) ELSE l.to[o]
      OBVIOUS
    <2>5. x \in Seq(Msg) /\ Fewer(x, l.to[o], o)
      BY <2>1, <2>2, <2>3, <2>4, AppendQueue, FewerMessages
    <2>6. k = [to |-> [q \in Apps |-> IF q = p THEN << >> ELSE IF q = o THEN x ELSE l.to[q]], ends |-> l.ends \ {p}]
      BY <1>2, <2>1, <2>4 DEF Cut
    <2> HIDE DEF k, m, o
    <2>7. \A q \in Apps : k.to[q] = IF q = p THEN << >> ELSE IF q = o THEN x ELSE l.to[q]
      BY <2>6
    <2>8. k.ends = l.ends \ {p} /\ k \in LinkType
      BY <2>3, <2>5, <2>6 DEF LinkType
    <2>9. \A q \in Apps : Fewer(k.to[q], l.to[q], q)
      BY <2>3, <2>5, <2>7, FewerMessages
    <2>10. \A q \in Apps : k.to[q] # << >> => q \in k.ends
      <3>1. ASSUME NEW q \in Apps, k.to[q] # << >> PROVE q \in k.ends
        <4>1. q # p
          BY <3>1, <2>7
        <4>2. CASE q = o /\ l.ends = {Host, c}
          BY <4>1, <4>2, <2>1, <2>8
        <4>3. CASE ~(q = o /\ l.ends = {Host, c})
          <5>1. k.to[q] = l.to[q]
            BY <4>1, <4>3, <2>4, <2>7
          <5> QED BY <3>1, <5>1, <4>1, <2>8 DEF Wired
        <4> QED BY <4>2, <4>3
      <3> QED BY <3>1
    <2>11. kind = "data" => \A q \in Apps : \A i \in 1 .. Len(k.to[q]) : k.to[q][i].type \in {"Open", "Closed", "Ping"}
      <3>1. ASSUME kind = "data", NEW q \in Apps, NEW i \in 1 .. Len(k.to[q])
            PROVE  k.to[q][i].type \in {"Open", "Closed", "Ping"}
        <4>1. \A j \in 1 .. Len(l.to[q]) : l.to[q][j].type \in {"Open", "Closed", "Ping"}
          BY <3>1 DEF Wired
        <4>2. CASE k.to[q] = l.to[q]
          BY <3>1, <4>1, <4>2
        <4>3. CASE k.to[q] = << >>
          BY <3>1, <4>3
        <4>4. CASE k.to[q] = Append(l.to[q], m)
          BY <3>1, <4>1, <4>4, <2>3 DEF m
        <4> QED BY <4>2, <4>3, <4>4, <2>4, <2>7
      <3> QED BY <3>1
    <2>12. Wired(k, kind, c)
      BY <2>8, <2>10, <2>11 DEF Wired
    <2>13. LessLink(k, l)
      BY <2>8, <2>9 DEF LessLink
    <2> QED BY <2>8, <2>12, <2>13 DEF k
  <1> QED BY <1>1, <1>2

\* One queue of a connection is replaced by x, which may have a message only when its
\* end is there.
LEMMA QueueIsReplaced ==
    ASSUME NEW l \in LinkType, NEW kind, NEW c \in Clients, NEW p \in Apps, Wired(l, kind, c),
           NEW x \in Seq(Msg), x # << >> => p \in l.ends,
           kind = "data" => \A i \in 1 .. Len(x) : x[i].type \in {"Open", "Closed", "Ping"}
    PROVE  LET k == [l EXCEPT !.to[p] = x] IN
           /\ k \in LinkType /\ Wired(k, kind, c) /\ k.ends = l.ends
           /\ k.to[p] = x /\ \A q \in Apps : q # p => k.to[q] = l.to[q]
           /\ Fewer(x, l.to[p], p) => LessLink(k, l)
  <1> DEFINE k == [l EXCEPT !.to[p] = x]
  <1>1. k \in LinkType /\ k.ends = l.ends /\ k.to[p] = x /\ \A q \in Apps : q # p => k.to[q] = l.to[q]
    BY DEF LinkType
  <1> HIDE DEF k
  <1>2. Wired(k, kind, c)
    BY <1>1 DEF Wired
  <1>3. ASSUME Fewer(x, l.to[p], p) PROVE LessLink(k, l)
    BY <1>1, <1>3, FewerMessages DEF LessLink, LinkType
  <1> QED BY <1>1, <1>2, <1>3 DEF k

\* A message more.
LEMMA MessageIsAdded ==
    ASSUME NEW l \in LinkType, NEW kind, NEW c \in Clients, NEW p \in l.ends, Wired(l, kind, c), NEW m \in Msg,
           kind = "data" => m.type \in {"Open", "Closed", "Ping"}
    PROVE  LET k == [l EXCEPT !.to[p] = Append(@, m)] IN
           /\ k \in LinkType /\ Wired(k, kind, c) /\ k.ends = l.ends
           /\ k.to[p] = Append(l.to[p], m) /\ \A q \in Apps : q # p => k.to[q] = l.to[q]
           /\ m.type \notin Telling(p) => LessLink(k, l)
  <1>1. p \in Apps /\ l.to[p] \in Seq(Msg)
    BY DEF LinkType
  <1> DEFINE x == Append(l.to[p], m)
  <1>2. x \in Seq(Msg) /\ Len(x) = Len(l.to[p]) + 1 /\ x[Len(l.to[p]) + 1] = m
        /\ \A i \in 1 .. Len(l.to[p]) : x[i] = l.to[p][i]
    BY <1>1
  <1>3. m.type \notin Telling(p) => Fewer(x, l.to[p], p)
    BY <1>1, FewerMessages
  <1>4. [l EXCEPT !.to[p] = Append(@, m)] = [l EXCEPT !.to[p] = x]
    BY <1>1 DEF LinkType
  <1> HIDE DEF x
  <1>5. kind = "data" => \A i \in 1 .. Len(x) : x[i].type \in {"Open", "Closed", "Ping"}
    BY <1>1, <1>2 DEF Wired
  <1>6. [l EXCEPT !.to[p] = x].to[p] = x
    BY <1>1 DEF LinkType
  <1>7. x # << >> => p \in l.ends
    BY <1>1
  <1>8. LET k == [l EXCEPT !.to[p] = x] IN
        /\ k \in LinkType /\ Wired(k, kind, c) /\ k.ends = l.ends
        /\ k.to[p] = x /\ \A q \in Apps : q # p => k.to[q] = l.to[q]
        /\ Fewer(x, l.to[p], p) => LessLink(k, l)
    BY <1>1, <1>2, <1>5, <1>7, QueueIsReplaced
  <1> QED BY <1>3, <1>4, <1>8 DEF x

\* The first message is taken.
LEMMA MessageIsTaken ==
    ASSUME NEW l \in LinkType, NEW kind, NEW c \in Clients, NEW p \in Apps, Wired(l, kind, c), l.to[p] # << >>
    PROVE  LET k == [l EXCEPT !.to[p] = Tail(@)] IN
           /\ k \in LinkType /\ Wired(k, kind, c) /\ k.ends = l.ends
           /\ k.to[p] = Tail(l.to[p]) /\ \A q \in Apps : q # p => k.to[q] = l.to[q]
           /\ LessLink(k, l)
  <1>1. l.to[p] \in Seq(Msg) /\ p \in l.ends
    BY DEF LinkType, Wired
  <1> DEFINE x == Tail(l.to[p])
  <1>2. x \in Seq(Msg) /\ Len(x) = Len(l.to[p]) - 1 /\ (\A i \in 1 .. Len(x) : x[i] = l.to[p][i + 1])
        /\ Len(l.to[p]) \in Nat \ {0}
    BY <1>1
  <1>3. Fewer(x, l.to[p], p)
    BY <1>1, FewerMessages
  <1>4. [l EXCEPT !.to[p] = Tail(@)] = [l EXCEPT !.to[p] = x]
    BY <1>1 DEF LinkType
  <1> HIDE DEF x
  <1>5. kind = "data" => \A i \in 1 .. Len(x) : x[i].type \in {"Open", "Closed", "Ping"}
    BY <1>1, <1>2 DEF Wired
  <1>7. x # << >> => p \in l.ends
    BY <1>1
  <1>8. LET k == [l EXCEPT !.to[p] = x] IN
        /\ k \in LinkType /\ Wired(k, kind, c) /\ k.ends = l.ends
        /\ k.to[p] = x /\ \A q \in Apps : q # p => k.to[q] = l.to[q]
        /\ Fewer(x, l.to[p], p) => LessLink(k, l)
    BY <1>1, <1>2, <1>5, <1>7, QueueIsReplaced
  <1> QED BY <1>3, <1>4, <1>8 DEF x

\* An end is gone, with what is on its way to it.
LEMMA EndIsGone ==
    ASSUME NEW l \in LinkType, NEW kind, NEW c \in Clients, NEW p \in Apps, Wired(l, kind, c)
    PROVE  LET k == [to |-> [l.to EXCEPT ![p] = << >>], ends |-> l.ends \ {p}] IN
           k \in LinkType /\ Wired(k, kind, c) /\ LessLink(k, l) /\ k.ends = l.ends \ {p}
  <1> DEFINE k == [to |-> [l.to EXCEPT ![p] = << >>], ends |-> l.ends \ {p}]
  <1>1. k \in LinkType /\ k.ends = l.ends \ {p} /\ k.to[p] = << >> /\ \A q \in Apps : q # p => k.to[q] = l.to[q]
    <2>1. l.to \in [Apps -> Seq(Msg)] /\ l.ends \subseteq Apps /\ << >> \in Seq(Msg)
      BY DEF LinkType
    <2> QED BY <2>1 DEF LinkType
  <1> HIDE DEF k
  <1>2. Wired(k, kind, c)
    <2>1. k.ends \subseteq {Host, c} /\ \A q \in Apps : k.to[q] # << >> => q \in k.ends
      BY <1>1 DEF Wired
    <2>2. ASSUME kind = "data", NEW q \in Apps, NEW i \in 1 .. Len(k.to[q])
          PROVE  k.to[q][i].type \in {"Open", "Closed", "Ping"}
      <3>1. CASE q = p
        BY <1>1, <2>2, <3>1
      <3>2. CASE q # p
        BY <1>1, <2>2, <3>2 DEF Wired
      <3> QED BY <3>1, <3>2
    <2> QED BY <2>1, <2>2 DEF Wired
  <1>3. ASSUME NEW q \in Apps PROVE Fewer(k.to[q], l.to[q], q)
    <2>1. l.to[q] \in Seq(Msg)
      BY DEF LinkType
    <2>2. k.to[q] = << >> \/ k.to[q] = l.to[q]
      BY <1>1
    <2> QED BY <2>1, <2>2, FewerMessages
  <1>4. LessLink(k, l)
    BY <1>1, <1>3 DEF LessLink
  <1> QED BY <1>1, <1>2, <1>4 DEF k

\* A connection with one message, told to the ends it has.
LEMMA NewLink ==
    ASSUME NEW c \in Clients, NEW kind, NEW E \in SUBSET {Host, c}, NEW m \in Msg,
           kind = "data" => m.type \in {"Open", "Closed", "Ping"}
    PROVE  LET k == [to |-> Told(E, m), ends |-> E] IN
           k \in LinkType /\ Wired(k, kind, c)
           /\ \A p \in Apps : k.to[p] = IF p \in E THEN << m >> ELSE << >>
  <1> DEFINE k == [to |-> Told(E, m), ends |-> E]
  <1>1. << m >> \in Seq(Msg) /\ << >> \in Seq(Msg) /\ E \subseteq Apps /\ << m >> # << >>
    BY OneMessage DEF Apps
  <1>2. k \in LinkType /\ (\A p \in Apps : k.to[p] = IF p \in E THEN << m >> ELSE << >>) /\ k.ends = E
    BY <1>1 DEF LinkType, Told
  <1> HIDE DEF k
  <1>3. k.ends \subseteq {Host, c} /\ \A q \in Apps : k.to[q] # << >> => q \in k.ends
    BY <1>2
  <1>4. ASSUME kind = "data", NEW q \in Apps, NEW i \in 1 .. Len(k.to[q])
        PROVE  k.to[q][i].type \in {"Open", "Closed", "Ping"}
    <2>1. CASE q \in E
      <3>1. k.to[q] = << m >>
        BY <2>1, <1>2
      <3> QED BY <3>1, <1>4
    <2>2. CASE q \notin E
      <3>1. k.to[q] = << >>
        BY <2>2, <1>2
      <3> QED BY <3>1, <1>4
    <2> QED BY <2>1, <2>2
  <1> QED BY <1>2, <1>3, <1>4 DEF k, Wired

-----------------------------------------------------------------------------
(* Worlds.                                                                 *)

\* A world is its applications, links and pending sockets.
LEMMA WorldFields ==
    ASSUME NEW w \in World
    PROVE  /\ w.app \in [Apps -> AppType] /\ w.link \in [Kinds -> [Clients -> LinkType]] /\ w.pending \subseteq Clients
           /\ w = [app |-> w.app, link |-> w.link, pending |-> w.pending]
           /\ \A kind \in Kinds, c \in Clients : w.link[kind][c] \in LinkType
           /\ \A kind \in Kinds, c \in Clients, p \in Apps : w.link[kind][c].to[p] \in Seq(Msg)
           /\ \A c \in Clients, p \in Apps : To(w, c, p) \in Seq(Msg)
    BY DEF World, LinkType, To, Kinds

\* The applications are the host and the clients.
LEMMA WhoIsWho ==
    /\ Host \in Apps /\ Clients \subseteq Apps /\ Host \notin Clients /\ None \notin Apps /\ None \notin Clients
    /\ None # Host
    /\ \A p \in Apps : p # Host => p \in Clients
    /\ \A c \in Clients : OtherEnd(Host, c) = c /\ OtherEnd(c, c) = Host
    /\ "ctrl" \in Kinds /\ "data" \in Kinds
    BY SetupAssumption DEF Apps, OtherEnd, Kinds

\* One link of a world is replaced by l.
LEMMA LinkIsReplaced ==
    ASSUME NEW w, Typed(w), NEW kind \in Kinds, NEW c \in Clients, NEW l \in LinkType, Wired(l, kind, c),
           \A p \in l.ends : Running(w, p),
           NEW v \in World, v.app = w.app, v.link = [w.link EXCEPT ![kind][c] = l], v.pending \subseteq w.pending,
           kind = "ctrl" /\ c \in v.pending => Host \in l.ends
    PROVE  /\ Typed(v)
           /\ v.link[kind][c] = l
           /\ \A k \in Kinds, d \in Clients : k # kind \/ d # c => v.link[k][d] = w.link[k][d]
           /\ kind = "data" \/ LessLink(l, w.link[kind][c]) => Calm(v, w)
  <1>1. w \in World /\ AllWired(w) /\ Alive(w) /\ Waiting(w)
    BY DEF Typed
  <1>2. /\ w.app \in [Apps -> AppType] /\ w.link \in [Kinds -> [Clients -> LinkType]] /\ w.pending \subseteq Clients
    BY <1>1, WorldFields
  <1>3. v \in World /\ v.app = w.app /\ v.pending \subseteq w.pending
    OBVIOUS
  <1>4. /\ v.link[kind][c] = l
        /\ \A k \in Kinds, d \in Clients : k # kind \/ d # c => v.link[k][d] = w.link[k][d]
    BY <1>2
  <1>5. AllWired(v)
    BY <1>1, <1>4 DEF AllWired
  <1>6. Alive(v)
    BY <1>1, <1>3, <1>4 DEF Alive, Running
  <1>7. Waiting(v)
    BY <1>1, <1>2, <1>3, <1>4, WhoIsWho DEF Waiting, Ends
  <1>8. Typed(v)
    BY <1>3, <1>5, <1>6, <1>7 DEF Typed
  <1>9. ASSUME kind = "data" \/ LessLink(l, w.link[kind][c]) PROVE Less(v, w)
    <2>1. Less(w, w)
      BY CalmIsReflexive DEF Calm
    <2>2. ASSUME NEW d \in Clients PROVE LessLink(v.link["ctrl"][d], w.link["ctrl"][d])
      BY <1>4, <1>9, <2>1, <2>2, WhoIsWho DEF Less
    <2> QED BY <1>3, <2>1, <2>2 DEF Less
  <1> QED BY <1>4, <1>8, <1>9 DEF Calm

\* v is w after the message m was sent to o, or was not sent.
Sent(v, w, kind, c, o, m) ==
    /\ Typed(v) /\ v.app = w.app /\ v.pending = w.pending
    /\ \A k \in Kinds, d \in Clients : v.link[k][d].ends = w.link[k][d].ends
    /\ \A k \in Kinds, d \in Clients, q \in Apps :
         k # kind \/ d # c \/ q # o => v.link[k][d].to[q] = w.link[k][d].to[q]
    /\ \/ v.link[kind][c].to[o] = w.link[kind][c].to[o]
       \/ /\ v.link[kind][c].to[o] = Append(w.link[kind][c].to[o], m)
          /\ w.link[kind][c].ends = {Host, c}

\* A message is sent, when both ends are there.
LEMMA SendShape ==
    ASSUME NEW w, Typed(w), NEW kind \in Kinds, NEW c \in Clients, NEW p \in {Host, c}, NEW m \in Msg,
           kind = "data" => m.type \in {"Open", "Closed", "Ping"}
    PROVE  /\ Sent(Send(w, kind, c, p, m), w, kind, c, OtherEnd(p, c), m)
           /\ kind = "data" \/ m.type \notin Telling(OtherEnd(p, c)) => Calm(Send(w, kind, c, p, m), w)
  <1> DEFINE v == Send(w, kind, c, p, m)
             o == OtherEnd(p, c)
             l == w.link[kind][c]
  <1>1. CASE l.ends # {Host, c}
    <2>1. v = w
      BY <1>1 DEF Send
    <2>2. Calm(w, w)
      BY CalmIsReflexive
    <2>3. Sent(w, w, kind, c, o, m)
      BY DEF Sent
    <2> QED BY <2>1, <2>2, <2>3
  <1>2. CASE l.ends = {Host, c}
    <2>1. w \in World /\ l \in LinkType /\ Wired(l, kind, c) /\ \A q \in l.ends : Running(w, q)
      <3>1. w \in World /\ AllWired(w) /\ Alive(w)
        BY DEF Typed
      <3> QED BY <3>1, WorldFields DEF AllWired, Alive
    <2>2. o \in l.ends
      BY <1>2, WhoIsWho
    <2> DEFINE k == [l EXCEPT !.to[o] = Append(@, m)]
    <2>3. /\ k \in LinkType /\ Wired(k, kind, c) /\ k.ends = l.ends
          /\ k.to[o] = Append(l.to[o], m) /\ \A q \in Apps : q # o => k.to[q] = l.to[q]
          /\ m.type \notin Telling(o) => LessLink(k, l)
      <3> HIDE DEF l, o
      <3> QED BY <2>1, <2>2, MessageIsAdded
    <2>4. l.to[o] \in Seq(Msg) /\ Append(l.to[o], m) \in Seq(Msg) /\ o \in Apps
      <3> HIDE DEF l, o
      <3> QED BY <2>1, <2>2 DEF LinkType
    <2>5. v \in World /\ v.app = w.app /\ v.link = [w.link EXCEPT ![kind][c] = k] /\ v.pending = w.pending
      <3>1. v = [w EXCEPT !.link[kind][c].to[o] = Append(@, m)]
        BY <1>2, Zenon DEF Send
      <3> HIDE DEF v, o
      <3> QED BY Zenon, <2>1, <2>4, <3>1 DEF World, LinkType
    <2>6. kind = "ctrl" /\ c \in w.pending => Host \in k.ends
      BY Zenon, <1>2, <2>3
    <2> HIDE DEF v, k, o, l
    <2>7. /\ Typed(v)
          /\ v.link[kind][c] = k
          /\ \A x \in Kinds, d \in Clients : x # kind \/ d # c => v.link[x][d] = w.link[x][d]
          /\ kind = "data" \/ LessLink(k, l) => Calm(v, w)
      <3>1. \A q \in k.ends : Running(w, q)
        BY <2>1, <2>3
      <3> QED BY <2>3, <2>5, <2>6, <3>1, LinkIsReplaced DEF l
    <2>8. v.app = w.app /\ v.pending = w.pending
      BY <2>5
    <2>9. Sent(v, w, kind, c, o, m)
      BY <1>2, <2>3, <2>7, <2>8 DEF Sent, l
    <2> QED BY <2>3, <2>7, <2>9 DEF v, o, l
  <1> QED BY <1>1, <1>2

\* A socket is closed.
LEMMA CloseIsCalm ==
    ASSUME NEW w, Typed(w), NEW kind \in Kinds, NEW c \in Clients, NEW p \in Apps
    PROVE  LET v == Close(w, kind, c, p) IN
           /\ Calm(v, w) /\ v.app = w.app
           /\ v.link[kind][c].ends = w.link[kind][c].ends \ {p}
           /\ v.pending = IF kind = "ctrl" /\ p = Host THEN w.pending \ {c} ELSE w.pending
  <1> DEFINE v == Close(w, kind, c, p)
             l == Cut(w.link[kind][c], c, p)
             pend == IF kind = "ctrl" /\ p = Host THEN w.pending \ {c} ELSE w.pending
  <1>1. w \in World /\ AllWired(w) /\ Alive(w) /\ Waiting(w)
    BY DEF Typed
  <1>2. /\ w.app \in [Apps -> AppType] /\ w.link \in [Kinds -> [Clients -> LinkType]] /\ w.pending \subseteq Clients
        /\ w = [app |-> w.app, link |-> w.link, pending |-> w.pending]
        /\ w.link[kind][c] \in LinkType /\ Wired(w.link[kind][c], kind, c)
        /\ \A q \in w.link[kind][c].ends : Running(w, q)
    BY <1>1, WorldFields DEF AllWired, Alive
  <1>3. l \in LinkType /\ Wired(l, kind, c) /\ LessLink(l, w.link[kind][c]) /\ l.ends = w.link[kind][c].ends \ {p}
    BY <1>2, CutIsCalm
  <1> HIDE DEF l
  <1>4. v \in World /\ v.app = w.app /\ v.link = [w.link EXCEPT ![kind][c] = l] /\ v.pending = pend
    <2>1. v = [w EXCEPT !.link[kind][c] = l, !.pending = pend]
      BY <1>2 DEF Close, l
    <2>2. pend \subseteq Clients
      BY <1>2
    <2> HIDE DEF v, pend
    <2> QED BY <1>1, <1>3, <2>1, <2>2 DEF World
  <1>5. pend \subseteq w.pending /\ (kind = "ctrl" /\ c \in pend => Host \in l.ends)
    <2>1. c \in w.pending => Host \in w.link["ctrl"][c].ends
      BY <1>1 DEF Waiting, Ends
    <2> QED BY <2>1, <1>3
  <1> HIDE DEF v, pend
  <1>6. Calm(v, w) /\ v.link[kind][c] = l
    <2>1. \A q \in l.ends : Running(w, q)
      BY <1>2, <1>3
    <2>2. v.pending \subseteq w.pending /\ (kind = "ctrl" /\ c \in v.pending => Host \in l.ends)
      BY <1>4, <1>5
    <2>3. Calm(v, w)
      BY <1>3, <1>4, <2>1, <2>2, LinkIsReplaced
    <2>4. v.link[kind][c] = l
      BY <1>1, <1>4, WorldFields
    <2> QED BY <2>3, <2>4
  <1>7. v.app = w.app /\ v.pending = pend
    BY <1>4
  <1> QED BY <1>3, <1>6, <1>7 DEF v, pend

\* An application changes, and the connections stay as they are.
LEMMA AppIsTyped ==
    ASSUME NEW w, Typed(w), NEW p \in Apps, NEW v \in World, v.link = w.link, v.pending = w.pending,
           \A q \in Apps : q # p => v.app[q] = w.app[q],
           Running(v, p) \/ \A kind \in Kinds, c \in Clients : p \notin w.link[kind][c].ends
    PROVE  Typed(v)
  <1>1. w \in World /\ AllWired(w) /\ Alive(w) /\ Waiting(w)
    BY DEF Typed
  <1>2. AllWired(v) /\ Waiting(v)
    BY <1>1 DEF AllWired, Waiting, Ends
  <1>3. ASSUME NEW kind \in Kinds, NEW c \in Clients, NEW q \in v.link[kind][c].ends PROVE Running(v, q)
    <2>1. q \in Apps /\ Running(w, q) /\ q \in w.link[kind][c].ends
      BY <1>1, <1>3, WorldFields DEF Alive, LinkType
    <2>2. CASE q = p
      BY <2>1, <2>2
    <2>3. CASE q # p
      BY <2>1, <2>3 DEF Running
    <2> QED BY <2>2, <2>3
  <1> QED BY <1>2, <1>3 DEF Typed, Alive

\* An application that changes and has no more going on than before.
LEMMA AppIsQuieter ==
    ASSUME NEW w, Typed(w), NEW p \in Apps, NEW v \in World, v.link = w.link, v.pending = w.pending,
           \A q \in Apps : q # p => v.app[q] = w.app[q], Quieter(v.app[p], w.app[p]),
           Running(v, p) \/ \A kind \in Kinds, c \in Clients : p \notin w.link[kind][c].ends
    PROVE  Calm(v, w)
  <1>1. Typed(v)
    BY AppIsTyped
  <1>2. Less(w, w)
    BY CalmIsReflexive DEF Calm
  <1>3. Less(v, w)
    BY <1>2 DEF Less
  <1> QED BY <1>1, <1>3 DEF Calm

\* Several connections are cut at the end of p.
LEMMA CutsAreCalm ==
    ASSUME NEW w, Typed(w), NEW p \in Apps, NEW v \in World, v.app = w.app, v.pending \subseteq w.pending,
           \A kind \in Kinds, c \in Clients :
             v.link[kind][c] = w.link[kind][c] \/ v.link[kind][c] = Cut(w.link[kind][c], c, p),
           \A c \in v.pending : p = Host => v.link["ctrl"][c] = w.link["ctrl"][c]
    PROVE  Calm(v, w)
  <1>1. w \in World /\ AllWired(w) /\ Alive(w) /\ Waiting(w)
    BY DEF Typed
  <1>2. ASSUME NEW kind \in Kinds, NEW c \in Clients
        PROVE  /\ Wired(v.link[kind][c], kind, c) /\ LessLink(v.link[kind][c], w.link[kind][c])
               /\ v.link[kind][c].ends \in {w.link[kind][c].ends, w.link[kind][c].ends \ {p}}
    <2>1. w.link[kind][c] \in LinkType /\ Wired(w.link[kind][c], kind, c)
      BY <1>1, <1>2, WorldFields DEF AllWired
    <2>2. LessLink(w.link[kind][c], w.link[kind][c])
      BY DEF LessLink, Fewer
    <2>3. CASE v.link[kind][c] = w.link[kind][c]
      BY <2>1, <2>2, <2>3
    <2>4. CASE v.link[kind][c] = Cut(w.link[kind][c], c, p)
      BY <2>1, <2>4, <1>2, CutIsCalm
    <2> QED BY <1>2, <2>3, <2>4
  <1>3. AllWired(v)
    BY <1>2 DEF AllWired
  <1>4. Alive(v)
    BY <1>1, <1>2 DEF Alive, Running
  <1>5. ASSUME NEW c \in v.pending PROVE Host \in Ends(v, c)
    <2>1. c \in Clients /\ Host \in w.link["ctrl"][c].ends
      BY <1>1, <1>5, WorldFields DEF Waiting, Ends
    <2>2. CASE p = Host
      BY <1>5, <2>1, <2>2 DEF Ends
    <2>3. CASE p # Host
      BY <1>2, <2>1, <2>3, WhoIsWho DEF Ends
    <2> QED BY <2>2, <2>3
  <1>6. Less(v, w)
    <2>1. \A q \in Apps : Quieter(v.app[q], w.app[q])
      BY DEF Quieter
    <2> QED BY <1>2, <2>1, WhoIsWho DEF Less
  <1> QED BY <1>3, <1>4, <1>5, <1>6 DEF Calm, Typed, Waiting

\* An application that is over has no ends.
LEMMA CloseAllIsCalm ==
    ASSUME NEW w, Typed(w), NEW p \in Apps
    PROVE  LET v == CloseAll(w, p) IN
           Calm(v, w) /\ v.app = w.app /\ \A kind \in Kinds, c \in Clients : p \notin v.link[kind][c].ends
  <1> DEFINE v == CloseAll(w, p)
  <1>1. w \in World /\ AllWired(w)
    BY DEF Typed
  <1>2. \A kind \in Kinds, c \in Clients :
          Cut(w.link[kind][c], c, p) \in LinkType /\ Cut(w.link[kind][c], c, p).ends = w.link[kind][c].ends \ {p}
    BY <1>1, WorldFields, CutIsCalm DEF AllWired
  <1>3. [kind \in Kinds |-> [c \in Clients |-> Cut(w.link[kind][c], c, p)]] \in [Kinds -> [Clients -> LinkType]]
    BY <1>2
  <1>4. /\ v \in World /\ v.app = w.app /\ v.pending = IF p = Host THEN {} ELSE w.pending
        /\ v.link = [kind \in Kinds |-> [c \in Clients |-> Cut(w.link[kind][c], c, p)]]
    <2> DEFINE links == [kind \in Kinds |-> [c \in Clients |-> Cut(w.link[kind][c], c, p)]]
    <2>1. v = [w EXCEPT !.link = links, !.pending = IF p = Host THEN {} ELSE w.pending]
      BY DEF CloseAll
    <2> HIDE DEF v, links
    <2>2. CASE p = Host
      BY <1>1, <1>3, <2>1, <2>2 DEF World, links
    <2>3. CASE p # Host
      BY <1>1, <1>3, <2>1, <2>3 DEF World, links
    <2> QED BY <2>2, <2>3 DEF links
  <1> HIDE DEF v
  <1>5. \A kind \in Kinds, c \in Clients : v.link[kind][c] = Cut(w.link[kind][c], c, p)
    BY <1>4
  <1>6. \A c \in v.pending : p = Host => v.link["ctrl"][c] = w.link["ctrl"][c]
    BY <1>4
  <1>7. v.pending \subseteq w.pending
    BY <1>4
  <1>8. Calm(v, w)
    BY <1>4, <1>5, <1>6, <1>7, CutsAreCalm
  <1> QED BY <1>2, <1>4, <1>5, <1>8 DEF v

\* stop: the application ends, and nothing else changes but the ends of its connections.
LEMMA StopIsCalm ==
    ASSUME NEW w, Typed(w), NEW p \in Apps, w.app[p].status # "Idle"
    PROVE  LET v == Stop(w, p) IN
           /\ Calm(v, w) /\ ~Running(v, p) /\ \A q \in Apps : q # p => v.app[q] = w.app[q]
           /\ \A kind \in Kinds, c \in Clients : p \notin v.link[kind][c].ends
  <1> DEFINE t == CloseAll(w, p)
             v == Stop(w, p)
  <1>1. Calm(t, w) /\ t.app = w.app /\ \A kind \in Kinds, c \in Clients : p \notin t.link[kind][c].ends
    BY CloseAllIsCalm
  <1>2. t \in World /\ Typed(t)
    BY <1>1 DEF Calm, Typed
  <1>3. v = [t EXCEPT !.app[p] = [@ EXCEPT !.status = "Stopped", !.pinger = NoPinger]]
    BY DEF Stop
  <1> HIDE DEF t, v
  <1>4. t.app \in [Apps -> AppType] /\ t.app[p] \in AppType
    BY <1>2, WorldFields
  <1>5. NoPinger \in PingerType /\ ~NoPinger.on
    BY SetupAssumption DEF NoPinger, PingerType, NoSamples, Samples
  <1>6. v \in World /\ v.link = t.link /\ v.pending = t.pending /\ (\A q \in Apps : q # p => v.app[q] = t.app[q])
        /\ v.app[p] = [t.app[p] EXCEPT !.status = "Stopped", !.pinger = NoPinger]
    BY <1>2, <1>3, <1>4, <1>5 DEF World, AppType
  <1>7. v.app[p].status = "Stopped" /\ Quieter(v.app[p], t.app[p])
    BY <1>1, <1>4, <1>5, <1>6 DEF Quieter, AppType
  <1>8. Calm(v, t)
    BY <1>1, <1>2, <1>6, <1>7, AppIsQuieter
  <1>9. Calm(v, w)
    BY <1>1, <1>8, CalmIsTransitive
  <1>10. ~Running(v, p)
    BY <1>7 DEF Running
  <1> QED BY <1>1, <1>6, <1>9, <1>10 DEF v

\* An end is gone.
LEMMA GoneIsCalm ==
    ASSUME NEW w, Typed(w), NEW kind \in Kinds, NEW c \in Clients, NEW p \in Apps, NEW pend, pend \subseteq w.pending,
           kind = "ctrl" /\ p = Host => c \notin pend
    PROVE  LET v == [Gone(w, p, kind, c) EXCEPT !.pending = pend] IN
           Calm(v, w) /\ v.app = w.app /\ v.link[kind][c].ends = w.link[kind][c].ends \ {p}
  <1> DEFINE v == [Gone(w, p, kind, c) EXCEPT !.pending = pend]
             l == [to |-> [w.link[kind][c].to EXCEPT ![p] = << >>], ends |-> w.link[kind][c].ends \ {p}]
  <1>1. w \in World /\ AllWired(w) /\ Alive(w) /\ Waiting(w)
    BY DEF Typed
  <1>2. w.link[kind][c] \in LinkType /\ Wired(w.link[kind][c], kind, c) /\ \A q \in w.link[kind][c].ends : Running(w, q)
    BY <1>1, WorldFields DEF AllWired, Alive
  <1>3. l \in LinkType /\ Wired(l, kind, c) /\ LessLink(l, w.link[kind][c]) /\ l.ends = w.link[kind][c].ends \ {p}
    BY <1>2, EndIsGone
  <1>4. v \in World /\ v.app = w.app /\ v.link = [w.link EXCEPT ![kind][c] = l] /\ v.pending = pend
    <2>1. v = [[w EXCEPT !.link[kind][c] = l] EXCEPT !.pending = pend]
      BY DEF Gone
    <2>2. pend \subseteq Clients
      BY <1>1, WorldFields
    <2> HIDE DEF v, l
    <2> QED BY <1>1, <1>3, <2>1, <2>2 DEF World
  <1> HIDE DEF v, l
  <1>5. kind = "ctrl" /\ c \in v.pending => Host \in l.ends
    <2>1. ASSUME kind = "ctrl", c \in v.pending PROVE Host \in l.ends
      <3>1. c \in w.pending /\ p # Host
        BY <1>4, <2>1
      <3>2. Host \in w.link[kind][c].ends
        BY <1>1, <2>1, <3>1 DEF Waiting, Ends
      <3> QED BY <1>3, <3>1, <3>2
    <2> QED BY <2>1
  <1>6. Calm(v, w)
    <2>1. \A q \in l.ends : Running(w, q)
      BY <1>2, <1>3
    <2>2. v.pending \subseteq w.pending
      BY <1>4
    <2> QED BY <1>3, <1>4, <1>5, <2>1, <2>2, LinkIsReplaced
  <1>7. v.link[kind][c] = l
    BY <1>1, <1>4, WorldFields
  <1> QED BY <1>3, <1>4, <1>6, <1>7 DEF v

\* The host lets go of a client that it has chosen or that it does not want any more.
LEMMA ReleasedIsCalm ==
    ASSUME NEW w, Typed(w), NEW c \in Clients
    PROVE  LET v == Released(w, c) IN
           /\ Calm(v, w) /\ v.app = w.app /\ v.pending = w.pending
           /\ c \notin w.pending => Host \notin Ends(v, c)
  <1> DEFINE t == IF c \in w.pending THEN w ELSE Close(w, "ctrl", c, Host)
             v == Released(w, c)
  <1>1. Calm(t, w) /\ t.app = w.app /\ t.pending = w.pending /\ (c \notin w.pending => Host \notin t.link["ctrl"][c].ends)
    <2>1. CASE c \in w.pending
      BY <2>1, CalmIsReflexive
    <2>2. CASE c \notin w.pending
      BY <2>2, CloseIsCalm, WhoIsWho
    <2> QED BY <2>1, <2>2
  <1>2. v = [t EXCEPT !.link["data"] = [d \in Clients |-> Cut(t.link["data"][d], d, Host)]]
    BY DEF Released
  <1> HIDE DEF t, v
  <1>3. Typed(t) /\ t \in World /\ AllWired(t)
    BY <1>1 DEF Calm, Typed
  <1>4. \A d \in Clients : Cut(t.link["data"][d], d, Host) \in LinkType
    BY <1>3, WorldFields, WhoIsWho, CutIsCalm DEF AllWired
  <1>5. v \in World /\ v.app = t.app /\ v.pending = t.pending
        /\ v.link = [t.link EXCEPT !["data"] = [d \in Clients |-> Cut(t.link["data"][d], d, Host)]]
    <2> DEFINE links == [d \in Clients |-> Cut(t.link["data"][d], d, Host)]
    <2>1. links \in [Clients -> LinkType]
      BY <1>4
    <2>2. v = [t EXCEPT !.link["data"] = links]
      BY <1>2
    <2> HIDE DEF links
    <2>3. v \in World /\ v.app = t.app /\ v.pending = t.pending /\ v.link = [t.link EXCEPT !["data"] = links]
      BY <1>3, <2>1, <2>2, WhoIsWho DEF World
    <2> QED BY <2>3 DEF links
  <1>6. \A d \in Clients : v.link["ctrl"][d] = t.link["ctrl"][d] /\ v.link["data"][d] = Cut(t.link["data"][d], d, Host)
    BY <1>3, <1>5, WorldFields, WhoIsWho
  <1>7. \A kind \in Kinds, d \in Clients :
          v.link[kind][d] = t.link[kind][d] \/ v.link[kind][d] = Cut(t.link[kind][d], d, Host)
    BY <1>6 DEF Kinds
  <1>8. \A d \in v.pending : v.link["ctrl"][d] = t.link["ctrl"][d]
    BY <1>3, <1>5, <1>6, WorldFields
  <1>9. Calm(v, t)
    <2>1. v.pending \subseteq t.pending
      BY <1>5
    <2> QED BY <1>3, <1>5, <1>7, <1>8, <2>1, WhoIsWho, CutsAreCalm
  <1>10. Calm(v, w)
    BY <1>1, <1>9, CalmIsTransitive
  <1> QED BY <1>1, <1>5, <1>6, <1>10 DEF v, Ends

\* A ping is sent, or the application stops.
LEMMA PingerSendPingIsCalm ==
    ASSUME NEW w, Typed(w), NEW p \in Apps, NEW origin \in Apps, Running(w, p)
    PROVE  LET v == PingerSendPing(w, p, origin) IN
           Calm(v, w) /\ (Running(v, p) => v.app = w.app)
  <1> DEFINE v == PingerSendPing(w, p, origin)
             c == ClientOf(w, p, "data")
             m == [type |-> "Ping", from |-> origin]
  <1>1. CASE w.app[p].data # "Open" \/ ~Connected(w, p, "data")
    <2>1. v = Stop(w, p)
      BY <1>1 DEF PingerSendPing
    <2>2. w.app[p].status # "Idle"
      BY DEF Running
    <2> QED BY <2>1, <2>2, StopIsCalm
  <1>2. CASE ~(w.app[p].data # "Open" \/ ~Connected(w, p, "data"))
    <2>1. v = Send(w, "data", c, p, m)
      BY <1>2 DEF PingerSendPing
    <2>2. c \in Clients /\ p \in {Host, c}
      <3>1. w.app[p] \in AppType
        BY WorldFields DEF Typed
      <3>2. c # None
        BY <1>2 DEF Connected
      <3>3. c = IF p # Host THEN p ELSE w.app[p].peer
        BY DEF ClientOf
      <3> QED BY <3>1, <3>2, <3>3, WhoIsWho DEF AppType
    <2>3. m \in Msg /\ m.type = "Ping"
      BY DEF Msg
    <2> HIDE DEF c, m, v
    <2>4. Sent(v, w, "data", c, OtherEnd(p, c), m) /\ Calm(v, w)
      BY <2>1, <2>2, <2>3, SendShape, WhoIsWho
    <2>5. v.app = w.app
      BY Zenon, <2>4 DEF Sent
    <2> QED BY <2>4, <2>5 DEF v
  <1> QED BY <1>1, <1>2

\* The host or a client sends a message over its control connection.
LEMMA SendCtrlShape ==
    ASSUME NEW w, Typed(w), NEW p \in Apps, NEW m \in Msg, p = Host => w.app[Host].ctrl \in Clients
    PROVE  LET c == ClientOf(w, p, "ctrl") IN
           /\ c \in Clients /\ (p = Host => c = w.app[Host].ctrl /\ OtherEnd(p, c) = c)
           /\ p # Host => c = p /\ OtherEnd(p, c) = Host
           /\ Sent(SendCtrl(w, p, m), w, "ctrl", c, OtherEnd(p, c), m)
           /\ m.type \notin Telling(OtherEnd(p, c)) => Calm(SendCtrl(w, p, m), w)
  <1> DEFINE c == ClientOf(w, p, "ctrl")
  <1>1. c \in Clients /\ p \in {Host, c} /\ (p = Host => c = w.app[Host].ctrl) /\ (p # Host => c = p)
    BY WhoIsWho DEF ClientOf
  <1>2. SendCtrl(w, p, m) = Send(w, "ctrl", c, p, m)
    BY DEF SendCtrl
  <1>3. (p = Host => OtherEnd(p, c) = c) /\ (p # Host => OtherEnd(p, c) = Host)
    BY DEF OtherEnd
  <1> HIDE DEF c
  <1>4. Sent(Send(w, "ctrl", c, p, m), w, "ctrl", c, OtherEnd(p, c), m)
    BY <1>1, SendShape, WhoIsWho
  <1>5. m.type \notin Telling(OtherEnd(p, c)) => Calm(Send(w, "ctrl", c, p, m), w)
    BY <1>1, SendShape, WhoIsWho
  <1> QED BY <1>1, <1>2, <1>3, <1>4, <1>5 DEF c

-----------------------------------------------------------------------------
(* The terms are kept when there is less going on.                         *)

\* What less going on is for the queues of client c.
LEMMA LessInQueues ==
    ASSUME NEW v, NEW w, NEW c \in Clients, LessLink(v.link["ctrl"][c], w.link["ctrl"][c])
    PROVE  /\ \A type \in {"Open", "PingStats", "NetplayConfig", "ConfirmConfig"} :
                /\ Has(To(v, c, c), type) => Has(To(w, c, c), type)
                /\ Once(To(w, c, c), type) => Once(To(v, c, c), type)
           /\ \A type \in {"Open", "VersionConfig", "PingStats", "ConfirmConfig"} :
                /\ Has(To(v, c, Host), type) => Has(To(w, c, Host), type)
                /\ Once(To(w, c, Host), type) => Once(To(v, c, Host), type)
           /\ \A p \in Apps : StatsIn(To(v, c, p)) \subseteq StatsIn(To(w, c, p))
           /\ Ends(v, c) \subseteq Ends(w, c)
  <1>1. LessLink(v.link["ctrl"][c], w.link["ctrl"][c])
    OBVIOUS
  <1>2. \A p \in Apps : Fewer(To(v, c, p), To(w, c, p), p)
    BY <1>1 DEF LessLink, To
  <1>3. c # Host /\ c \in Apps /\ Host \in Apps
    BY WhoIsWho
  <1>4. Telling(c) = {"Open", "PingStats", "NetplayConfig", "ConfirmConfig"}
        /\ Telling(Host) = {"Open", "VersionConfig", "PingStats", "ConfirmConfig"}
    BY <1>3 DEF Telling
  <1>5. Fewer(To(v, c, c), To(w, c, c), c) /\ Fewer(To(v, c, Host), To(w, c, Host), Host)
    BY <1>2, <1>3
  <1>6. \A p \in Apps : StatsIn(To(v, c, p)) \subseteq StatsIn(To(w, c, p))
    BY <1>2 DEF Fewer
  <1>7. \A type \in Telling(c) : /\ Has(To(v, c, c), type) => Has(To(w, c, c), type)
                                 /\ Once(To(w, c, c), type) => Once(To(v, c, c), type)
    BY <1>5 DEF Fewer
  <1>8. \A type \in Telling(Host) : /\ Has(To(v, c, Host), type) => Has(To(w, c, Host), type)
                                    /\ Once(To(w, c, Host), type) => Once(To(v, c, Host), type)
    BY <1>5 DEF Fewer
  <1>9. Ends(v, c) \subseteq Ends(w, c)
    BY <1>1 DEF LessLink, Ends
  <1> QED BY <1>4, <1>6, <1>7, <1>8, <1>9

\* What less going on is for an application.
LEMMA LessInApps ==
    ASSUME NEW v, NEW w, Less(v, w), NEW p \in Apps
    PROVE  /\ Quieter(v.app[p], w.app[p])
           /\ Running(v, p) => Running(w, p) /\ v.app[p].pinger.samples = w.app[p].pinger.samples
    BY DEF Less, Quieter, Running

\* Who is told something has an end, and runs.
LEMMA ToldRuns ==
    ASSUME NEW w, Typed(w), NEW c \in Clients, NEW p \in Apps
    PROVE  /\ To(w, c, p) # << >> => p \in Ends(w, c) /\ Running(w, p)
           /\ p \in Ends(w, c) => Running(w, p) /\ p \in {Host, c}
           /\ \A type : Has(To(w, c, p), type) => p \in Ends(w, c) /\ Running(w, p)
           /\ \A s \in StatsIn(To(w, c, p)) : p \in Ends(w, c) /\ Running(w, p)
  <1>1. Wired(w.link["ctrl"][c], "ctrl", c) /\ \A q \in Ends(w, c) : Running(w, q)
    BY WhoIsWho DEF Typed, AllWired, Alive, Ends
  <1>2. /\ To(w, c, p) # << >> => p \in Ends(w, c) /\ Running(w, p)
        /\ p \in Ends(w, c) => Running(w, p) /\ p \in {Host, c}
    BY <1>1 DEF Wired, To, Ends
  <1>3. To(w, c, p) = << >> => (\A type : ~Has(To(w, c, p), type)) /\ StatsIn(To(w, c, p)) = {}
    BY EmptyQueue
  <1> QED BY <1>2, <1>3

\* The terms stay when there is less going on.
LEMMA CalmKeepsTerms ==
    ASSUME NEW v, NEW w, Terms(w), Calm(v, w)
    PROVE  Terms(v)
  <1> USE DEF Calm
  <1>1. HostInOrder(v)
    <2>1. HostInOrder(w) /\ Quieter(v.app[Host], w.app[Host])
      BY LessInApps, WhoIsWho DEF Terms
    <2> QED BY <2>1 DEF HostInOrder, Quieter
  <1>2. ASSUME NEW c \in Clients PROVE TermsOf(v, c)
    <2>1. Stages(w, c) /\ Single(w, c) /\ Deal(w, c) /\ Figures(w, c)
      BY <1>2 DEF Terms, TermsOf
    <2>2. /\ Quieter(v.app[Host], w.app[Host]) /\ Quieter(v.app[c], w.app[c])
          /\ Running(v, Host) => Running(w, Host) /\ v.app[Host].pinger.samples = w.app[Host].pinger.samples
      BY <1>2, LessInApps, WhoIsWho
    <2>3. /\ \A type \in {"Open", "PingStats", "NetplayConfig", "ConfirmConfig"} :
               /\ Has(To(v, c, c), type) => Has(To(w, c, c), type)
               /\ Once(To(w, c, c), type) => Once(To(v, c, c), type)
          /\ \A type \in {"Open", "VersionConfig", "PingStats", "ConfirmConfig"} :
               /\ Has(To(v, c, Host), type) => Has(To(w, c, Host), type)
               /\ Once(To(w, c, Host), type) => Once(To(v, c, Host), type)
          /\ StatsIn(To(v, c, c)) \subseteq StatsIn(To(w, c, c))
          /\ StatsIn(To(v, c, Host)) \subseteq StatsIn(To(w, c, Host))
          /\ Ends(v, c) \subseteq Ends(w, c)
      <3>1. LessLink(v.link["ctrl"][c], w.link["ctrl"][c])
        BY <1>2 DEF Less
      <3> QED BY <1>2, <3>1, LessInQueues, WhoIsWho
    <2>4. v.pending \subseteq w.pending
      BY DEF Less
    <2>5. /\ Untried(v, c) => Untried(w, c)
          /\ Chosen(v, c) => Chosen(w, c)
          /\ HostPings(v, c) => HostPings(w, c)
          /\ HostTells(v, c) => HostTells(w, c)
          /\ ClientPings(v, c) => ClientPings(w, c)
          /\ ClientTells(v, c) => ClientTells(w, c)
          /\ HostAsks(v, c) => HostAsks(w, c)
          /\ v.app[c].ui = w.app[c].ui /\ v.app[Host].ctrl = w.app[Host].ctrl
      BY <2>2, <2>3 DEF Untried, Chosen, HostPings, HostTells, ClientPings, ClientTells, HostAsks, Quieter
    <2>6. Stages(v, c)
      BY <2>1, <2>3, <2>5 DEF Stages, NoStats
    <2>7. Single(v, c)
      BY <2>1, <2>2, <2>3, <2>4 DEF Single, Quieter
    <2>8. Deal(v, c)
      BY <2>1, <2>2, <2>3 DEF Deal, Quieter
    <2>9. Figures(v, c)
      <3>1. /\ v.app[c].stats = w.app[c].stats /\ v.app[Host].stats = w.app[Host].stats
            /\ v.app[c].ui = w.app[c].ui /\ v.app[Host].ui = w.app[Host].ui
            /\ v.app[Host].ctrl = w.app[Host].ctrl
        BY <2>2 DEF Quieter
      <3>2. ASSUME v.app[Host].ctrl = c, Running(v, Host)
            PROVE  /\ \A s \in StatsIn(To(v, c, c)) : s = v.app[Host].pinger.samples
                   /\ ClientPings(v, c) => v.app[c].stats = v.app[Host].pinger.samples
        BY <2>1, <2>2, <2>3, <2>5, <3>1, <3>2 DEF Figures
      <3>3. ASSUME v.app[Host].ctrl = c, v.app[c].ui # "No", v.app[Host].ui # "No"
            PROVE  v.app[Host].stats = v.app[c].stats
        BY <2>1, <3>1, <3>3 DEF Figures
      <3>4. ASSUME v.app[Host].ctrl = c, v.app[c].ui # "No", NEW s \in StatsIn(To(v, c, Host)), NEW q \in Apps
            PROVE  v.app[c].stats[q] = v.app[Host].pinger.samples[q] + s[q]
        <4>1. Running(v, Host)
          BY <1>2, <3>4, ToldRuns, WhoIsWho
        <4>2. v.app[Host].pinger.samples = w.app[Host].pinger.samples
          BY <4>1, <2>2
        <4> QED BY <2>1, <2>3, <3>1, <3>4, <4>2 DEF Figures
      <3> QED BY <3>2, <3>3, <3>4 DEF Figures
    <2> QED BY <2>6, <2>7, <2>8, <2>9 DEF TermsOf
  <1> QED BY <1>1, <1>2 DEF Terms

\* And with the terms, a good world stays good.
LEMMA CalmKeepsGood ==
    ASSUME NEW v, NEW w, Good(w), Calm(v, w)
    PROVE  Good(v)
    BY CalmKeepsTerms DEF Good, Calm

\* What a client is past is past.
LEMMA CalmKeepsBetween ==
    ASSUME NEW v, NEW w, Calm(v, w), NEW c \in Clients, Between(w, c)
    PROVE  Between(v, c)
  <1>1. /\ Quieter(v.app[Host], w.app[Host]) /\ Quieter(v.app[c], w.app[c])
    BY LessInApps, WhoIsWho DEF Calm
  <1>2. LessLink(v.link["ctrl"][c], w.link["ctrl"][c])
    BY DEF Calm, Less
  <1>3. /\ \A type \in {"Open", "PingStats"} : Has(To(v, c, c), type) => Has(To(w, c, c), type)
        /\ \A type \in {"VersionConfig", "PingStats"} : Has(To(v, c, Host), type) => Has(To(w, c, Host), type)
    BY <1>2, LessInQueues
  <1>4. /\ Untried(v, c) => Untried(w, c)
        /\ Chosen(v, c) => Chosen(w, c)
        /\ HostPings(v, c) => HostPings(w, c)
        /\ HostTells(v, c) => HostTells(w, c)
        /\ ClientPings(v, c) => ClientPings(w, c)
        /\ ClientTells(v, c) => ClientTells(w, c)
        /\ HostAsks(v, c) => HostAsks(w, c)
        /\ v.app[c].ui = w.app[c].ui
    BY <1>1, <1>3 DEF Untried, Chosen, HostPings, HostTells, ClientPings, ClientTells, HostAsks, Quieter
  <1> QED BY <1>4 DEF Between, NoStats

-----------------------------------------------------------------------------
(* Changes of one application, and of one client's queues.                 *)

\* The application p is a now.
AppSet(v, w, p, a) ==
    /\ v \in World /\ v.link = w.link /\ v.pending = w.pending
    /\ v.app[p] = a /\ \A q \in Apps : q # p => v.app[q] = w.app[q]

\* Writing an application of a world.
LEMMA AppSetShape ==
    ASSUME NEW w \in World, NEW p \in Apps, NEW a \in AppType
    PROVE  AppSet([w EXCEPT !.app[p] = a], w, p, a)
    BY DEF World, AppSet

\* The queues are what they were.
LEMMA AppSetQueues ==
    ASSUME NEW v, NEW w, NEW p, NEW a, AppSet(v, w, p, a)
    PROVE  /\ \A c \in Clients : Ends(v, c) = Ends(w, c)
           /\ \A c \in Clients, q \in Apps : To(v, c, q) = To(w, c, q)
           /\ v.pending = w.pending
    BY DEF AppSet, Ends, To

\* An application that stays as it is in its sockets' eyes.
LEMMA AppSetIsTyped ==
    ASSUME NEW v, NEW w, Typed(w), NEW p \in Apps, NEW a, AppSet(v, w, p, a), a.status \in {"Running", "Starting"}
    PROVE  Typed(v)
  <1>1. Running(v, p)
    BY DEF AppSet, Running
  <1> QED BY <1>1, AppIsTyped DEF AppSet

\* An application that stays in the game with no more going on than before.
LEMMA AppSetIsCalm ==
    ASSUME NEW v, NEW w, Typed(w), NEW p \in Apps, NEW a, AppSet(v, w, p, a), a.status \in {"Running", "Starting"},
           Quieter(a, w.app[p])
    PROVE  Calm(v, w)
  <1>1. Running(v, p)
    BY DEF AppSet, Running
  <1> QED BY <1>1, AppIsQuieter DEF AppSet

\* A client to which nothing happens keeps its terms.
LEMMA SameForOthers ==
    ASSUME NEW v, NEW w, NEW d \in Clients, TermsOf(w, d), v.app[Host] = w.app[Host], v.app[d] = w.app[d],
           To(v, d, Host) = To(w, d, Host), To(v, d, d) = To(w, d, d), Ends(v, d) = Ends(w, d),
           d \in v.pending => d \in w.pending
    PROVE  TermsOf(v, d)
  <1>1. /\ Untried(v, d) <=> Untried(w, d)
        /\ Chosen(v, d) <=> Chosen(w, d)
        /\ HostPings(v, d) <=> HostPings(w, d)
        /\ HostTells(v, d) <=> HostTells(w, d)
        /\ ClientPings(v, d) <=> ClientPings(w, d)
        /\ ClientTells(v, d) <=> ClientTells(w, d)
        /\ HostAsks(v, d) <=> HostAsks(w, d)
        /\ Running(v, Host) <=> Running(w, Host)
    BY DEF Untried, Chosen, HostPings, HostTells, ClientPings, ClientTells, HostAsks, Running
  <1>2. Stages(v, d)
    BY <1>1 DEF Stages, NoStats, TermsOf
  <1>3. Single(v, d)
    BY DEF Single, TermsOf
  <1>4. Deal(v, d)
    BY DEF Deal, TermsOf
  <1>5. Figures(v, d)
    BY <1>1, Zenon DEF Figures, TermsOf
  <1> QED BY <1>2, <1>3, <1>4, <1>5 DEF TermsOf

\* The host is in order as long as it does not change.
LEMMA HostStaysInOrder ==
    ASSUME NEW v, NEW w, HostInOrder(w), v.app[Host] = w.app[Host]
    PROVE  HostInOrder(v)
    BY DEF HostInOrder

\* The statistics are in order as long as nothing they depend on changes.
LEMMA SameFigures ==
    ASSUME NEW v, NEW w, NEW c, Figures(w, c), v.app[Host] = w.app[Host], v.app[c].stats = w.app[c].stats,
           v.app[c].ui # "No" => w.app[c].ui # "No", ClientPings(v, c) => ClientPings(w, c),
           Running(v, Host) <=> Running(w, Host),
           StatsIn(To(v, c, c)) = StatsIn(To(w, c, c)), StatsIn(To(v, c, Host)) = StatsIn(To(w, c, Host))
    PROVE  Figures(v, c)
    BY Zenon DEF Figures

\* When one client changes, its own terms are what there is to show.
LEMMA OneClientChanges ==
    ASSUME NEW v, NEW w, Good(w), NEW c \in Clients, Typed(v), TermsOf(v, c),
           v.pending \subseteq w.pending \cup {c}, \A q \in Apps : q # c => v.app[q] = w.app[q],
           \A d \in Clients : d # c => /\ To(v, d, Host) = To(w, d, Host) /\ To(v, d, d) = To(w, d, d)
                                       /\ Ends(v, d) = Ends(w, d)
    PROVE  Good(v)
  <1>1. v.app[Host] = w.app[Host]
    BY WhoIsWho
  <1>2. HostInOrder(v)
    BY <1>1, HostStaysInOrder DEF Good, Terms
  <1>3. ASSUME NEW d \in Clients, d # c PROVE TermsOf(v, d)
    <2>1. TermsOf(w, d) /\ v.app[d] = w.app[d] /\ (d \in v.pending => d \in w.pending)
      BY <1>3, WhoIsWho DEF Good, Terms
    <2> QED BY <1>1, <1>3, <2>1, SameForOthers
  <1> QED BY <1>2, <1>3 DEF Good, Terms

\* The same, when the client is all that changes.
LEMMA ClientSetIsGood ==
    ASSUME NEW v, NEW w, Good(w), NEW c \in Clients, NEW a, AppSet(v, w, c, a), a.status \in {"Running", "Starting"},
           TermsOf(v, c)
    PROVE  Good(v)
  <1>1. Typed(v)
    BY AppSetIsTyped, WhoIsWho DEF Good
  <1>2. /\ v.pending \subseteq w.pending \cup {c} /\ \A q \in Apps : q # c => v.app[q] = w.app[q]
        /\ \A d \in Clients : /\ To(v, d, Host) = To(w, d, Host) /\ To(v, d, d) = To(w, d, d)
                              /\ Ends(v, d) = Ends(w, d)
    BY AppSetQueues, WhoIsWho DEF AppSet
  <1> QED BY <1>1, <1>2, OneClientChanges

-----------------------------------------------------------------------------
(* What happens to a client.                                               *)

\* gotPingStats: the client takes the host's statistics for its own.
LEMMA ClientTakesStats ==
    ASSUME NEW v, NEW w, Good(w), NEW c \in Clients, NEW s \in Samples, Running(w, c), Between(w, c),
           AppSet(v, w, c, [w.app[c] EXCEPT !.stats = s])
    PROVE  Good(v) /\ Between(v, c) /\ v.app[c].stats = s
  <1> DEFINE a == [w.app[c] EXCEPT !.stats = s]
  <1>1. w.app[c] \in AppType /\ TermsOf(w, c) /\ c \in Apps /\ c # Host
    BY WhoIsWho, WorldFields DEF Good, Typed, Terms
  <1>2. /\ a.status = w.app[c].status /\ a.ui = w.app[c].ui /\ a.pinger = w.app[c].pinger /\ a.final = w.app[c].final
        /\ a.session = w.app[c].session /\ a.confirmed = w.app[c].confirmed /\ a.stats = s
    BY <1>1 DEF AppType
  <1>3. v.app[c] = a /\ v.app[Host] = w.app[Host] /\ v.pending = w.pending
    BY <1>1, WhoIsWho DEF AppSet
  <1>4. Ends(v, c) = Ends(w, c) /\ To(v, c, c) = To(w, c, c) /\ To(v, c, Host) = To(w, c, Host)
    BY AppSetQueues, WhoIsWho
  <1> HIDE DEF a
  <1>5. Between(v, c) /\ Running(v, Host) = Running(w, Host)
    BY <1>2, <1>3, <1>4 DEF Between, NoStats, Untried, Chosen, HostPings, HostTells, ClientPings, ClientTells, HostAsks,
                            Running
  <1>6. Stages(v, c)
    BY <1>5 DEF Stages, Between, NoStats
  <1>7. Single(v, c) /\ Deal(v, c)
    BY <1>1, <1>2, <1>3, <1>4 DEF TermsOf, Single, Deal
  <1>8. Figures(v, c)
    <2>1. StatsIn(To(v, c, c)) = {} /\ ~ClientPings(v, c) /\ v.app[c].ui = "No"
      BY <1>5, StatsAreTold DEF Between, NoStats, HostTells
    <2> QED BY <2>1 DEF Figures
  <1>9. a.status \in {"Running", "Starting"}
    BY <1>2 DEF Running
  <1>10. Good(v)
    BY <1>6, <1>7, <1>8, <1>9, ClientSetIsGood DEF TermsOf, a
  <1> QED BY <1>2, <1>3, <1>5, <1>10

\* Pinger::start of a client, which has the statistics that the host keeps.
LEMMA ClientPingsNow ==
    ASSUME NEW v, NEW w, Good(w), NEW c \in Clients, Running(w, c), Between(w, c), NEW n \in 0 .. NumPings,
           w.app[Host].ctrl = c /\ Running(w, Host) => w.app[c].stats = w.app[Host].pinger.samples,
           w.app[Host].ctrl # c => Host \notin Ends(w, c),
           AppSet(v, w, c, [w.app[c] EXCEPT !.pinger = [@ EXCEPT !.on = TRUE, !.count = n]])
    PROVE  Good(v)
  <1> DEFINE a == [w.app[c] EXCEPT !.pinger = [@ EXCEPT !.on = TRUE, !.count = n]]
  <1>1. w.app[c] \in AppType /\ TermsOf(w, c) /\ c \in Apps /\ c # Host
    BY WhoIsWho, WorldFields DEF Good, Typed, Terms
  <1>2. /\ a.status = w.app[c].status /\ a.ui = w.app[c].ui /\ a.final = w.app[c].final
        /\ a.session = w.app[c].session /\ a.confirmed = w.app[c].confirmed /\ a.stats = w.app[c].stats
    BY <1>1 DEF AppType
  <1>3. v.app[c] = a /\ v.app[Host] = w.app[Host] /\ v.pending = w.pending
    BY <1>1, WhoIsWho DEF AppSet
  <1>4. Ends(v, c) = Ends(w, c) /\ To(v, c, c) = To(w, c, c) /\ To(v, c, Host) = To(w, c, Host)
    BY AppSetQueues, WhoIsWho
  <1> HIDE DEF a
  <1>5. /\ ~HostTells(v, c) /\ ~ClientTells(v, c) /\ ~Untried(v, c) /\ ~Chosen(v, c) /\ ~HostPings(v, c)
        /\ ~HostAsks(v, c) /\ v.app[c].ui = "No" /\ Running(v, Host) = Running(w, Host)
    BY <1>2, <1>3, <1>4 DEF Between, NoStats, Untried, Chosen, HostPings, HostTells, ClientTells, HostAsks, Running
  <1>6. Stages(v, c)
    BY <1>3, <1>4, <1>5 DEF Stages
  <1>7. Single(v, c) /\ Deal(v, c)
    BY <1>1, <1>2, <1>3, <1>4 DEF TermsOf, Single, Deal
  <1>8. Figures(v, c)
    <2>1. StatsIn(To(v, c, c)) = {} /\ v.app[c].ui = "No"
      BY <1>5, StatsAreTold DEF HostTells
    <2> QED BY <1>2, <1>3, <1>5, <2>1 DEF Figures
  <1>9. a.status \in {"Running", "Starting"}
    BY <1>2 DEF Running
  <1> QED BY <1>6, <1>7, <1>8, <1>9, ClientSetIsGood DEF TermsOf, a

\* waitForUserConfirmation, for a client's user.
LEMMA ClientAnswers ==
    ASSUME NEW v, NEW w, Good(w), NEW c \in Clients, Running(w, c), w.app[c].ui = "Asked", NEW yes \in BOOLEAN,
           AppSet(v, w, c, [w.app[c] EXCEPT !.ui = "Answered", !.confirmed = yes])
    PROVE  Good(v)
  <1> DEFINE a == [w.app[c] EXCEPT !.ui = "Answered", !.confirmed = yes]
  <1>1. w.app[c] \in AppType /\ TermsOf(w, c) /\ c \in Apps /\ c # Host
    BY WhoIsWho, WorldFields DEF Good, Typed, Terms
  <1>2. /\ a.status = w.app[c].status /\ a.ui = "Answered" /\ a.final = w.app[c].final /\ a.pinger = w.app[c].pinger
        /\ a.session = w.app[c].session /\ a.stats = w.app[c].stats
    BY <1>1 DEF AppType
  <1>3. v.app[c] = a /\ v.app[Host] = w.app[Host] /\ v.pending = w.pending
    BY <1>1, WhoIsWho DEF AppSet
  <1>4. Ends(v, c) = Ends(w, c) /\ To(v, c, c) = To(w, c, c) /\ To(v, c, Host) = To(w, c, Host)
    BY AppSetQueues, WhoIsWho
  <1> HIDE DEF a
  <1>5. /\ Untried(v, c) <=> Untried(w, c)
        /\ Chosen(v, c) <=> Chosen(w, c)
        /\ HostPings(v, c) <=> HostPings(w, c)
        /\ HostTells(v, c) <=> HostTells(w, c)
        /\ ClientPings(v, c) <=> ClientPings(w, c)
        /\ ClientTells(v, c) <=> ClientTells(w, c)
        /\ HostAsks(v, c) <=> HostAsks(w, c)
        /\ Running(v, Host) <=> Running(w, Host)
    BY <1>2, <1>3, <1>4 DEF Untried, Chosen, HostPings, HostTells, ClientPings, ClientTells, HostAsks, Running
  <1>6. Stages(v, c)
    BY <1>1, <1>3, <1>4, <1>5 DEF Stages, NoStats, TermsOf
  <1>7. Single(v, c) /\ Deal(v, c)
    <2>1. ~w.app[c].confirmed
      BY <1>1 DEF TermsOf, Deal
    <2> QED BY <2>1, <1>1, <1>2, <1>3, <1>4 DEF TermsOf, Single, Deal
  <1>8. Figures(v, c)
    <2>1. Figures(w, c)
      BY <1>1 DEF TermsOf
    <2> QED BY <1>2, <1>3, <1>4, <1>5, <2>1, SameFigures
  <1>9. a.status \in {"Running", "Starting"}
    BY <1>2 DEF Running
  <1> QED BY <1>6, <1>7, <1>8, <1>9, ClientSetIsGood DEF TermsOf, a

\* gotUserConfirmation, for a client.
LEMMA ClientTakesAnswer ==
    ASSUME NEW v, NEW w, Good(w), NEW c \in Clients, Running(w, c), w.app[c].ui # "No",
           AppSet(v, w, c, [w.app[c] EXCEPT !.ui = "Taken"])
    PROVE  Good(v)
  <1> DEFINE a == [w.app[c] EXCEPT !.ui = "Taken"]
  <1>1. w.app[c] \in AppType /\ TermsOf(w, c) /\ c \in Apps /\ c # Host
    BY WhoIsWho, WorldFields DEF Good, Typed, Terms
  <1>2. /\ a.status = w.app[c].status /\ a.ui = "Taken" /\ a.final = w.app[c].final /\ a.pinger = w.app[c].pinger
        /\ a.session = w.app[c].session /\ a.stats = w.app[c].stats /\ a.confirmed = w.app[c].confirmed
    BY <1>1 DEF AppType
  <1>3. v.app[c] = a /\ v.app[Host] = w.app[Host] /\ v.pending = w.pending
    BY <1>1, WhoIsWho DEF AppSet
  <1>4. Ends(v, c) = Ends(w, c) /\ To(v, c, c) = To(w, c, c) /\ To(v, c, Host) = To(w, c, Host)
    BY AppSetQueues, WhoIsWho
  <1> HIDE DEF a
  <1>5. /\ Untried(v, c) <=> Untried(w, c)
        /\ Chosen(v, c) <=> Chosen(w, c)
        /\ HostPings(v, c) <=> HostPings(w, c)
        /\ HostTells(v, c) <=> HostTells(w, c)
        /\ ClientPings(v, c) <=> ClientPings(w, c)
        /\ ClientTells(v, c) <=> ClientTells(w, c)
        /\ HostAsks(v, c) <=> HostAsks(w, c)
        /\ Running(v, Host) <=> Running(w, Host)
    BY <1>2, <1>3, <1>4 DEF Untried, Chosen, HostPings, HostTells, ClientPings, ClientTells, HostAsks, Running
  <1>6. Stages(v, c)
    BY <1>1, <1>3, <1>4, <1>5 DEF Stages, NoStats, TermsOf
  <1>7. Single(v, c) /\ Deal(v, c)
    BY <1>1, <1>2, <1>3, <1>4 DEF TermsOf, Single, Deal
  <1>8. Figures(v, c)
    <2>1. Figures(w, c)
      BY <1>1 DEF TermsOf
    <2> QED BY <1>2, <1>3, <1>4, <1>5, <2>1, SameFigures
  <1>9. a.status \in {"Running", "Starting"}
    BY <1>2 DEF Running
  <1> QED BY <1>6, <1>7, <1>8, <1>9, ClientSetIsGood DEF TermsOf, a

\* gotNetplayConfig: the client has the configuration that the host's user has confirmed.
LEMMA ClientHasConfig ==
    ASSUME NEW v, NEW w, Good(w), NEW c \in Clients, Running(w, c),
           w.app[Host].ctrl = c, w.app[Host].ui = "Taken",
           AppSet(v, w, c, [w.app[c] EXCEPT !.session = 1, !.final = TRUE])
    PROVE  Good(v)
  <1> DEFINE a == [w.app[c] EXCEPT !.session = 1, !.final = TRUE]
  <1>1. w.app[c] \in AppType /\ TermsOf(w, c) /\ c \in Apps /\ c # Host
    BY WhoIsWho, WorldFields DEF Good, Typed, Terms
  <1>2. /\ a.status = w.app[c].status /\ a.ui = w.app[c].ui /\ a.final = TRUE /\ a.pinger = w.app[c].pinger
        /\ a.session = 1 /\ a.stats = w.app[c].stats /\ a.confirmed = w.app[c].confirmed
    BY <1>1 DEF AppType
  <1>3. v.app[c] = a /\ v.app[Host] = w.app[Host] /\ v.pending = w.pending
    BY <1>1, WhoIsWho DEF AppSet
  <1>4. Ends(v, c) = Ends(w, c) /\ To(v, c, c) = To(w, c, c) /\ To(v, c, Host) = To(w, c, Host)
    BY AppSetQueues, WhoIsWho
  <1> HIDE DEF a
  <1>5. /\ Untried(v, c) <=> Untried(w, c)
        /\ Chosen(v, c) <=> Chosen(w, c)
        /\ HostPings(v, c) <=> HostPings(w, c)
        /\ HostTells(v, c) <=> HostTells(w, c)
        /\ ClientPings(v, c) <=> ClientPings(w, c)
        /\ ClientTells(v, c) <=> ClientTells(w, c)
        /\ HostAsks(v, c) <=> HostAsks(w, c)
        /\ Running(v, Host) <=> Running(w, Host)
    BY <1>2, <1>3, <1>4 DEF Untried, Chosen, HostPings, HostTells, ClientPings, ClientTells, HostAsks, Running
  <1>6. Stages(v, c)
    BY <1>1, <1>2, <1>3, <1>4, <1>5 DEF Stages, NoStats, TermsOf
  <1>7. Single(v, c) /\ Deal(v, c)
    BY <1>1, <1>2, <1>3, <1>4 DEF TermsOf, Single, Deal
  <1>8. Figures(v, c)
    <2>1. Figures(w, c)
      BY <1>1 DEF TermsOf
    <2> QED BY <1>2, <1>3, <1>4, <1>5, <2>1, SameFigures
  <1>9. a.status \in {"Running", "Starting"}
    BY <1>2 DEF Running
  <1> QED BY <1>6, <1>7, <1>8, <1>9, ClientSetIsGood DEF TermsOf, a

\* startGame, of a client that has the configuration and whose user has confirmed.
LEMMA ClientStarts ==
    ASSUME NEW v, NEW w, Good(w), NEW c \in Clients, Running(w, c), w.app[c].confirmed, w.app[c].final,
           AppSet(v, w, c, [w.app[c] EXCEPT !.status = "Starting"])
    PROVE  Good(v)
  <1> DEFINE a == [w.app[c] EXCEPT !.status = "Starting"]
  <1>1. w.app[c] \in AppType /\ TermsOf(w, c) /\ c \in Apps /\ c # Host
    BY WhoIsWho, WorldFields DEF Good, Typed, Terms
  <1>2. /\ a.status = "Starting" /\ a.ui = w.app[c].ui /\ a.final = w.app[c].final /\ a.pinger = w.app[c].pinger
        /\ a.session = w.app[c].session /\ a.stats = w.app[c].stats /\ a.confirmed = w.app[c].confirmed
    BY <1>1 DEF AppType
  <1>3. v.app[c] = a /\ v.app[Host] = w.app[Host] /\ v.pending = w.pending
    BY <1>1, WhoIsWho DEF AppSet
  <1>4. Ends(v, c) = Ends(w, c) /\ To(v, c, c) = To(w, c, c) /\ To(v, c, Host) = To(w, c, Host)
    BY AppSetQueues, WhoIsWho
  <1> HIDE DEF a
  <1>5. /\ Untried(v, c) <=> Untried(w, c)
        /\ Chosen(v, c) <=> Chosen(w, c)
        /\ HostPings(v, c) <=> HostPings(w, c)
        /\ HostTells(v, c) <=> HostTells(w, c)
        /\ ClientPings(v, c) <=> ClientPings(w, c)
        /\ ClientTells(v, c) <=> ClientTells(w, c)
        /\ HostAsks(v, c) <=> HostAsks(w, c)
        /\ Running(v, Host) <=> Running(w, Host)
    BY <1>2, <1>3, <1>4 DEF Untried, Chosen, HostPings, HostTells, ClientPings, ClientTells, HostAsks, Running
  <1>6. Stages(v, c)
    BY <1>1, <1>2, <1>3, <1>4, <1>5 DEF Stages, NoStats, TermsOf
  <1>7. Single(v, c) /\ Deal(v, c)
    BY <1>1, <1>2, <1>3, <1>4 DEF TermsOf, Single, Deal
  <1>8. Figures(v, c)
    <2>1. Figures(w, c)
      BY <1>1 DEF TermsOf
    <2> QED BY <1>2, <1>3, <1>4, <1>5, <2>1, SameFigures
  <1>9. a.status \in {"Running", "Starting"}
    BY <1>2
  <1> QED BY <1>6, <1>7, <1>8, <1>9, ClientSetIsGood DEF TermsOf, a

\* What Sent says of the control connections.
SentTo(v, w, c, o, m) ==
    /\ Typed(v) /\ v.app = w.app /\ v.pending = w.pending
    /\ \A d \in Clients : Ends(v, d) = Ends(w, d)
    /\ \A d \in Clients, q \in Apps : d # c \/ q # o => To(v, d, q) = To(w, d, q)
    /\ \/ To(v, c, o) = To(w, c, o)
       \/ To(v, c, o) = Append(To(w, c, o), m) /\ Ends(w, c) = {Host, c}

\* A control message that was sent is in one queue.
LEMMA SentToOne ==
    ASSUME NEW v, NEW w, NEW c \in Clients, NEW o \in Apps, NEW m, Sent(v, w, "ctrl", c, o, m)
    PROVE  SentTo(v, w, c, o, m)
  <1>1. /\ Typed(v) /\ v.app = w.app /\ v.pending = w.pending
        /\ \A d \in Clients : Ends(v, d) = Ends(w, d)
    BY Zenon, WhoIsWho DEF Sent, Ends
  <1>2. \A d \in Clients, q \in Apps : d # c \/ q # o => To(v, d, q) = To(w, d, q)
    BY Zenon, WhoIsWho DEF Sent, To
  <1>3. \/ To(v, c, o) = To(w, c, o)
        \/ To(v, c, o) = Append(To(w, c, o), m) /\ Ends(w, c) = {Host, c}
    BY Zenon DEF Sent, To, Ends
  <1> QED BY <1>1, <1>2, <1>3 DEF SentTo

\* A client sends a VersionConfig, when its connection opens, or a ConfirmConfig, when it starts.
LEMMA ClientSends ==
    ASSUME NEW v, NEW w, Good(w), NEW c \in Clients, NEW m \in Msg, Sent(v, w, "ctrl", c, Host, m),
           \/ /\ m.type = "VersionConfig" /\ NoStats(w, c) /\ w.app[Host].ctrl # c /\ w.app[c].ui = "No"
              /\ ~Has(To(w, c, Host), "VersionConfig") /\ ~Has(To(w, c, c), "Open")
           \/ m.type = "ConfirmConfig" /\ w.app[c].confirmed /\ w.app[c].final
    PROVE  Good(v)
  <1>1. TermsOf(w, c) /\ c \in Apps /\ c # Host /\ Host \in Apps /\ To(w, c, Host) \in Seq(Msg)
    BY WhoIsWho, WorldFields DEF Good, Typed, Terms
  <1>2. /\ Typed(v) /\ v.app = w.app /\ v.pending = w.pending
        /\ \A d \in Clients : Ends(v, d) = Ends(w, d)
        /\ \A d \in Clients, q \in Apps : d # c \/ q # Host => To(v, d, q) = To(w, d, q)
        /\ \/ To(v, c, Host) = To(w, c, Host)
           \/ To(v, c, Host) = Append(To(w, c, Host), m) /\ Ends(w, c) = {Host, c}
    <2>1. SentTo(v, w, c, Host, m)
      BY <1>1, SentToOne
    <2> QED BY <2>1 DEF SentTo
  <1>3. CASE To(v, c, Host) = To(w, c, Host)
    <2>1. TermsOf(v, c)
      BY <1>1, <1>2, <1>3, SameForOthers
    <2> QED BY <1>1, <1>2, <1>3, <2>1, OneClientChanges, WhoIsWho
  <1>4. CASE To(v, c, Host) = Append(To(w, c, Host), m)
    <2>1. To(v, c, c) = To(w, c, c) /\ Ends(v, c) = Ends(w, c) /\ v.app = w.app /\ v.pending = w.pending
      BY <1>1, <1>2
    <2>2. \A type : /\ Has(To(v, c, Host), type) <=> Has(To(w, c, Host), type) \/ m.type = type
                    /\ Once(To(w, c, Host), type) /\ (m.type # type \/ ~Has(To(w, c, Host), type))
                         => Once(To(v, c, Host), type)
      BY <1>1, <1>4, AppendQueue
    <2>3. StatsIn(To(v, c, Host)) = StatsIn(To(w, c, Host))
      BY <1>1, <1>4, AppendQueue
    <2>4. /\ Chosen(v, c) <=> Chosen(w, c)
          /\ HostPings(v, c) <=> HostPings(w, c)
          /\ HostTells(v, c) <=> HostTells(w, c)
          /\ ClientPings(v, c) <=> ClientPings(w, c)
          /\ ClientTells(v, c) <=> ClientTells(w, c)
          /\ HostAsks(v, c) <=> HostAsks(w, c)
          /\ Running(v, Host) <=> Running(w, Host)
          /\ Untried(v, c) <=> Untried(w, c) \/ m.type = "VersionConfig"
      BY <2>1, <2>2 DEF Untried, Chosen, HostPings, HostTells, ClientPings, ClientTells, HostAsks, Running
    <2>5. Stages(v, c)
      BY <1>1, <2>1, <2>4 DEF Stages, NoStats, TermsOf
    <2>6. Single(v, c)
      BY <1>1, <2>1, <2>2 DEF TermsOf, Single
    <2>7. Deal(v, c)
      BY <1>1, <2>1, <2>2 DEF TermsOf, Deal
    <2>8. Figures(v, c)
      <3>1. Figures(w, c)
        BY <1>1 DEF TermsOf
      <3> QED BY <2>1, <2>3, <2>4, <3>1, SameFigures
    <2>9. TermsOf(v, c)
      BY <2>5, <2>6, <2>7, <2>8 DEF TermsOf
    <2> QED BY <1>1, <1>2, <2>9, OneClientChanges, WhoIsWho
  <1> QED BY <1>2, <1>3, <1>4

\* Pinger::timerExpired of a client: it sends its statistics, adds them to the host's,
\* and its user may be asked.
LEMMA ClientTellsStats ==
    ASSUME NEW v, NEW x, NEW w, Good(w), NEW c \in Clients, Running(w, c), ClientPings(w, c),
           NEW m \in Msg, m.type = "PingStats", m.samples = w.app[c].pinger.samples,
           Sent(x, w, "ctrl", c, Host, m), NEW a, AppSet(v, x, c, a),
           a.status = w.app[c].status, a.final = w.app[c].final, a.session = w.app[c].session,
           a.confirmed = w.app[c].confirmed, ~a.pinger.on, a.ui \in {"No", "Asked"},
           \A q \in Apps : a.stats[q] = w.app[c].stats[q] + w.app[c].pinger.samples[q]
    PROVE  Good(v)
  <1>1. TermsOf(w, c) /\ c \in Apps /\ c # Host /\ Host \in Apps /\ To(w, c, Host) \in Seq(Msg)
    BY WhoIsWho, WorldFields DEF Good, Typed, Terms
  <1>2. /\ Typed(x) /\ x.app = w.app /\ x.pending = w.pending
        /\ \A d \in Clients : Ends(x, d) = Ends(w, d)
        /\ \A d \in Clients, q \in Apps : d # c \/ q # Host => To(x, d, q) = To(w, d, q)
        /\ To(x, c, Host) = To(w, c, Host) \/ To(x, c, Host) = Append(To(w, c, Host), m)
    <2>1. SentTo(x, w, c, Host, m)
      BY <1>1, SentToOne
    <2> QED BY <2>1 DEF SentTo
  <1>3. /\ v.app[c] = a /\ v.app[Host] = w.app[Host] /\ v.pending = w.pending
        /\ \A q \in Apps : q # c => v.app[q] = w.app[q]
    BY <1>1, <1>2 DEF AppSet
  <1>4. /\ \A d \in Clients : Ends(v, d) = Ends(w, d)
        /\ \A d \in Clients, q \in Apps : d # c \/ q # Host => To(v, d, q) = To(w, d, q)
        /\ To(v, c, Host) = To(x, c, Host)
    BY <1>1, <1>2, AppSetQueues
  <1>5. To(v, c, Host) = To(w, c, Host) \/ To(v, c, Host) = Append(To(w, c, Host), m)
    BY <1>2, <1>4
  <1>6. Typed(v)
    <2>1. a.status \in {"Running", "Starting"}
      BY DEF Running
    <2> QED BY <1>1, <1>2, <2>1, AppSetIsTyped
  <1>7. To(v, c, c) = To(w, c, c) /\ Ends(v, c) = Ends(w, c)
    BY <1>1, <1>4
  <1>8. /\ \A type : type # "PingStats" => /\ Has(To(v, c, Host), type) <=> Has(To(w, c, Host), type)
                                           /\ Once(To(w, c, Host), type) => Once(To(v, c, Host), type)
        /\ Once(To(v, c, Host), "PingStats")
        /\ \A s \in StatsIn(To(v, c, Host)) : s = w.app[c].pinger.samples
    <2>1. ~Has(To(w, c, Host), "PingStats") /\ Once(To(w, c, Host), "PingStats")
      BY <1>1 DEF TermsOf, Stages, Single, ClientTells
    <2>2. StatsIn(To(w, c, Host)) = {}
      BY <2>1, StatsAreTold
    <2>3. CASE To(v, c, Host) = To(w, c, Host)
      BY <2>1, <2>2, <2>3
    <2>4. CASE To(v, c, Host) = Append(To(w, c, Host), m)
      BY <1>1, <2>1, <2>2, <2>4, AppendQueue
    <2> QED BY <1>5, <2>3, <2>4
  <1>9. /\ ~Untried(w, c) /\ ~Chosen(w, c) /\ ~HostPings(w, c) /\ ~HostTells(w, c) /\ ~HostAsks(w, c)
        /\ (w.app[Host].ctrl # c => Host \notin Ends(w, c)) /\ w.app[c].ui = "No"
    BY <1>1 DEF TermsOf, Stages, NoStats
  <1>10. /\ ~Untried(v, c) /\ ~Chosen(v, c) /\ ~HostPings(v, c) /\ ~HostTells(v, c) /\ ~HostAsks(v, c)
         /\ ~ClientPings(v, c) /\ (Running(v, Host) <=> Running(w, Host))
    BY <1>3, <1>7, <1>8, <1>9 DEF Untried, Chosen, HostPings, HostTells, HostAsks, ClientPings, Running
  <1>11. Stages(v, c)
    BY <1>3, <1>7, <1>9, <1>10 DEF Stages
  <1>12. Single(v, c)
    BY <1>1, <1>3, <1>7, <1>8 DEF TermsOf, Single
  <1>13. Deal(v, c)
    BY <1>1, <1>3, <1>7, <1>8, <1>9 DEF TermsOf, Deal
  <1>14. Figures(v, c)
    <2>1. StatsIn(To(v, c, c)) = {}
      BY <1>10, StatsAreTold DEF HostTells
    <2>2. ASSUME w.app[Host].ctrl = c, NEW s \in StatsIn(To(v, c, Host)), NEW q \in Apps
          PROVE  a.stats[q] = w.app[Host].pinger.samples[q] + s[q]
      <3>1. Running(v, Host)
        BY <1>1, <1>6, <2>2, ToldRuns
      <3>2. w.app[c].stats = w.app[Host].pinger.samples
        BY <1>1, <1>10, <2>2, <3>1 DEF TermsOf, Figures
      <3> QED BY <1>8, <2>2, <3>2
    <2>3. w.app[Host].ctrl = c => w.app[Host].ui = "No"
      BY <1>9 DEF HostAsks
    <2> QED BY <1>3, <1>10, <2>1, <2>2, <2>3 DEF Figures
  <1>15. \A d \in Clients : d # c => /\ To(v, d, Host) = To(w, d, Host) /\ To(v, d, d) = To(w, d, d)
                                     /\ Ends(v, d) = Ends(w, d)
    BY <1>1, <1>4, WhoIsWho
  <1>16. v.pending \subseteq w.pending \cup {c} /\ TermsOf(v, c)
    BY <1>3, <1>11, <1>12, <1>13, <1>14 DEF TermsOf
  <1> QED BY <1>3, <1>6, <1>15, <1>16, OneClientChanges

-----------------------------------------------------------------------------
(* What happens to the host.                                               *)

\* When the host changes, and nothing else, there is what it does to each client to show.
LEMMA HostSetIsGood ==
    ASSUME NEW v, NEW w, Good(w), NEW a, AppSet(v, w, Host, a), a.status \in {"Running", "Starting"},
           HostInOrder(v), \A c \in Clients : TermsOf(v, c)
    PROVE  Good(v)
  <1>1. Typed(v)
    BY AppSetIsTyped, WhoIsWho DEF Good
  <1> QED BY <1>1 DEF Good, Terms

\* What it takes to show it: the clients are as they were.
LEMMA HostSetFrame ==
    ASSUME NEW v, NEW w, NEW a, AppSet(v, w, Host, a), NEW c \in Clients
    PROVE  /\ v.app[c] = w.app[c] /\ v.app[Host] = a /\ v.pending = w.pending
           /\ Ends(v, c) = Ends(w, c) /\ To(v, c, c) = To(w, c, c) /\ To(v, c, Host) = To(w, c, Host)
           /\ Untried(v, c) <=> Untried(w, c)
           /\ HostTells(v, c) <=> HostTells(w, c)
           /\ ClientPings(v, c) <=> ClientPings(w, c)
           /\ ClientTells(v, c) <=> ClientTells(w, c)
           /\ NoStats(v, c) <=> NoStats(w, c)
  <1>1. /\ v.app[c] = w.app[c] /\ v.app[Host] = a /\ v.pending = w.pending
        /\ Ends(v, c) = Ends(w, c) /\ To(v, c, c) = To(w, c, c) /\ To(v, c, Host) = To(w, c, Host)
    BY AppSetQueues, WhoIsWho DEF AppSet
  <1> QED BY <1>1 DEF Untried, HostTells, ClientPings, ClientTells, NoStats

\* gotConfirmConfig, gotUserConfirmation: the session and the confirmation of the host
\* are no matter, and it is final when the client is.
LEMMA HostGoesOn ==
    ASSUME NEW v, NEW w, Good(w), Running(w, Host), NEW a, AppSet(v, w, Host, a),
           a.ctrl = w.app[Host].ctrl, a.data = w.app[Host].data, a.peer = w.app[Host].peer,
           a.pinger = w.app[Host].pinger, a.stats = w.app[Host].stats,
           a.status = w.app[Host].status \/ (a.status = "Starting" /\ a.final),
           \/ a.ui = w.app[Host].ui
           \/ w.app[Host].ui = "Asked" /\ a.ui = "Answered"
           \/ w.app[Host].ui = "Answered" /\ a.ui = "Taken",
           \/ a.final = w.app[Host].final
           \/ /\ a.final = TRUE /\ w.app[Host].ctrl \in Clients
              /\ w.app[w.app[Host].ctrl].confirmed /\ w.app[w.app[Host].ctrl].final
    PROVE  Good(v)
  <1>1. a.status \in {"Running", "Starting"}
    BY DEF Running
  <1>2. v.app[Host] = a
    BY DEF AppSet
  <1>3. HostInOrder(v)
    BY <1>1, <1>2 DEF Good, Terms, HostInOrder
  <1>4. ASSUME NEW c \in Clients PROVE TermsOf(v, c)
    <2>1. TermsOf(w, c)
      BY <1>4 DEF Good, Terms
    <2>2. /\ v.app[c] = w.app[c] /\ v.app[Host] = a /\ v.pending = w.pending
          /\ Ends(v, c) = Ends(w, c) /\ To(v, c, c) = To(w, c, c) /\ To(v, c, Host) = To(w, c, Host)
          /\ Untried(v, c) <=> Untried(w, c)
          /\ HostTells(v, c) <=> HostTells(w, c)
          /\ ClientPings(v, c) <=> ClientPings(w, c)
          /\ ClientTells(v, c) <=> ClientTells(w, c)
          /\ NoStats(v, c) <=> NoStats(w, c)
      BY <1>4, HostSetFrame
    <2>3. /\ Chosen(v, c) <=> Chosen(w, c)
          /\ HostPings(v, c) <=> HostPings(w, c)
          /\ HostAsks(v, c) <=> HostAsks(w, c)
          /\ Running(v, Host)
      BY <1>1, <1>2 DEF Chosen, HostPings, HostAsks, Running
    <2>4. Stages(v, c)
      BY <2>1, <2>2, <2>3 DEF Stages, TermsOf
    <2>5. Single(v, c)
      BY <2>1, <2>2 DEF Single, TermsOf
    <2>6. Deal(v, c)
      BY <2>1, <2>2 DEF Deal, TermsOf
    <2>7. Figures(v, c)
      BY <2>1, <2>2, <2>3 DEF Figures, TermsOf
    <2> QED BY <2>4, <2>5, <2>6, <2>7 DEF TermsOf
  <1> QED BY <1>1, <1>3, <1>4, HostSetIsGood

\* gotVersionConfig: the host chooses the client c.
LEMMA HostChooses ==
    ASSUME NEW v, NEW w, Good(w), Running(w, Host), NEW c \in Clients, c \in w.pending, w.app[Host].ctrl = None,
           NoStats(w, c), ~Untried(w, c), w.app[c].ui = "No", Typed(v), NEW a,
           v.app[Host] = a, \A q \in Apps : q # Host => v.app[q] = w.app[q], v.link = w.link,
           v.pending = w.pending \ {c},
           a.ctrl = c, a.ui = w.app[Host].ui, a.final = w.app[Host].final, a.peer = w.app[Host].peer,
           a.status = w.app[Host].status, a.pinger = w.app[Host].pinger, a.stats = w.app[Host].stats
    PROVE  Good(v)
  <1>1. a.status \in {"Running", "Starting"}
    BY DEF Running
  <1>2. HostInOrder(w) /\ w.app[Host].ctrl \notin Clients /\ \A d \in Clients : TermsOf(w, d)
    BY WhoIsWho DEF Good, Terms
  <1>3. ~a.pinger.on /\ a.ui = "No" /\ ~a.final /\ a.peer = None
    BY <1>2 DEF HostInOrder
  <1>4. HostInOrder(v)
    BY <1>1, <1>2, <1>3 DEF HostInOrder
  <1>5. ASSUME NEW d \in Clients PROVE TermsOf(v, d)
    <2>1. /\ v.app[d] = w.app[d]
          /\ Ends(v, d) = Ends(w, d) /\ To(v, d, d) = To(w, d, d) /\ To(v, d, Host) = To(w, d, Host)
      BY <1>5, WhoIsWho DEF To, Ends
    <2>2. /\ Untried(v, d) <=> Untried(w, d)
          /\ HostTells(v, d) <=> HostTells(w, d)
          /\ ClientPings(v, d) <=> ClientPings(w, d)
          /\ ClientTells(v, d) <=> ClientTells(w, d)
          /\ NoStats(v, d) <=> NoStats(w, d)
      BY <2>1 DEF Untried, HostTells, ClientPings, ClientTells, NoStats
    <2>3. ~HostPings(v, d) /\ ~HostAsks(v, d) /\ (Chosen(v, d) => d = c)
      BY <1>3 DEF HostPings, HostAsks, Chosen
    <2>4. TermsOf(w, d) /\ w.app[Host].ctrl # d
      BY <1>2, <1>5
    <2>5. Stages(v, d)
      BY <2>1, <2>2, <2>3, <2>4 DEF Stages, TermsOf, NoStats
    <2>6. Single(v, d)
      BY <2>1, <2>4 DEF Single, TermsOf
    <2>7. Deal(v, d)
      BY <1>3, <2>1, <2>4 DEF Deal, TermsOf
    <2>8. Figures(v, d)
      <3>1. CASE d # c
        BY <3>1 DEF Figures
      <3>2. CASE d = c
        <4>1. StatsIn(To(v, d, d)) = {} /\ ~ClientPings(v, d) /\ v.app[d].ui = "No"
          BY <2>1, <2>2, <3>2, StatsAreTold DEF NoStats, HostTells
        <4> QED BY <4>1 DEF Figures
      <3> QED BY <3>1, <3>2
    <2> QED BY <2>5, <2>6, <2>7, <2>8 DEF TermsOf
  <1> QED BY <1>4, <1>5 DEF Good, Terms

\* socketAccepted and Pinger::start of a host: the client that it has chosen has opened the
\* data connection, and nothing else is going on.
LEMMA HostPingsNow ==
    ASSUME NEW v, NEW w, Good(w), Running(w, Host), NEW c \in Clients, w.app[Host].ctrl = c,
           NoStats(w, c), ~Untried(w, c), ~HostAsks(w, c), w.app[c].ui = "No",
           NEW a, AppSet(v, w, Host, a), a.ctrl = c, a.data # "Listening", a.ui = w.app[Host].ui,
           a.final = w.app[Host].final, a.status = w.app[Host].status,
           a.pinger.samples = w.app[Host].pinger.samples, a.stats = w.app[Host].stats
    PROVE  Good(v)
  <1>1. a.status \in {"Running", "Starting"}
    BY DEF Running
  <1>2. HostInOrder(w) /\ \A d \in Clients : TermsOf(w, d)
    BY DEF Good, Terms
  <1>3. v.app[Host] = a
    BY DEF AppSet
  <1>4. HostInOrder(v)
    BY <1>1, <1>2, <1>3 DEF HostInOrder
  <1>5. ASSUME NEW d \in Clients PROVE TermsOf(v, d)
    <2>1. /\ v.app[d] = w.app[d] /\ v.app[Host] = a /\ v.pending = w.pending
          /\ Ends(v, d) = Ends(w, d) /\ To(v, d, d) = To(w, d, d) /\ To(v, d, Host) = To(w, d, Host)
          /\ Untried(v, d) <=> Untried(w, d)
          /\ HostTells(v, d) <=> HostTells(w, d)
          /\ ClientPings(v, d) <=> ClientPings(w, d)
          /\ ClientTells(v, d) <=> ClientTells(w, d)
          /\ NoStats(v, d) <=> NoStats(w, d)
      BY <1>5, HostSetFrame
    <2>2. ~Chosen(v, d) /\ (HostPings(v, d) => d = c) /\ (HostAsks(v, d) <=> HostAsks(w, d))
      BY <1>3 DEF Chosen, HostPings, HostAsks
    <2>3. TermsOf(w, d)
      BY <1>2, <1>5
    <2>4. Stages(v, d)
      BY <2>1, <2>2, <2>3 DEF Stages, TermsOf, NoStats
    <2>5. Single(v, d)
      BY <2>1, <2>3 DEF Single, TermsOf
    <2>6. Deal(v, d)
      BY <2>1, <2>3 DEF Deal, TermsOf
    <2>7. Figures(v, d)
      <3>1. CASE d # c
        BY <1>3, <3>1 DEF Figures
      <3>2. CASE d = c
        <4>1. StatsIn(To(v, d, d)) = {} /\ ~ClientPings(v, d) /\ v.app[d].ui = "No"
          BY <2>1, <3>2, StatsAreTold DEF NoStats, HostTells
        <4> QED BY <4>1 DEF Figures
      <3> QED BY <3>1, <3>2
    <2> QED BY <2>4, <2>5, <2>6, <2>7 DEF TermsOf
  <1> QED BY <1>1, <1>4, <1>5, HostSetIsGood

\* Pinger::gotPong of a host: the samples may grow while it pings.
LEMMA HostGetsPong ==
    ASSUME NEW v, NEW w, Good(w), Running(w, Host), w.app[Host].pinger.on, NEW a, AppSet(v, w, Host, a),
           a.ctrl = w.app[Host].ctrl, a.data = w.app[Host].data, a.peer = w.app[Host].peer, a.ui = w.app[Host].ui,
           a.final = w.app[Host].final, a.status = w.app[Host].status, a.pinger.on, a.stats = w.app[Host].stats
    PROVE  Good(v)
  <1>1. a.status \in {"Running", "Starting"}
    BY DEF Running
  <1>2. HostInOrder(w) /\ \A d \in Clients : TermsOf(w, d)
    BY DEF Good, Terms
  <1>3. v.app[Host] = a
    BY DEF AppSet
  <1>4. HostInOrder(v)
    BY <1>1, <1>2, <1>3 DEF HostInOrder
  <1>5. ASSUME NEW d \in Clients PROVE TermsOf(v, d)
    <2>1. /\ v.app[d] = w.app[d] /\ v.app[Host] = a /\ v.pending = w.pending
          /\ Ends(v, d) = Ends(w, d) /\ To(v, d, d) = To(w, d, d) /\ To(v, d, Host) = To(w, d, Host)
          /\ Untried(v, d) <=> Untried(w, d)
          /\ HostTells(v, d) <=> HostTells(w, d)
          /\ ClientPings(v, d) <=> ClientPings(w, d)
          /\ ClientTells(v, d) <=> ClientTells(w, d)
          /\ NoStats(v, d) <=> NoStats(w, d)
      BY <1>5, HostSetFrame
    <2>2. (Chosen(v, d) <=> Chosen(w, d)) /\ (HostPings(v, d) <=> HostPings(w, d)) /\ (HostAsks(v, d) <=> HostAsks(w, d))
      BY <1>3 DEF Chosen, HostPings, HostAsks
    <2>3. TermsOf(w, d)
      BY <1>2, <1>5
    <2>4. Stages(v, d)
      BY <2>1, <2>2, <2>3 DEF Stages, TermsOf
    <2>5. Single(v, d)
      BY <2>1, <2>3 DEF Single, TermsOf
    <2>6. Deal(v, d)
      BY <2>1, <2>3 DEF Deal, TermsOf
    <2>7. Figures(v, d)
      <3>1. CASE w.app[Host].ctrl # d
        BY <1>3, <3>1 DEF Figures
      <3>2. CASE w.app[Host].ctrl = d
        <4>1. NoStats(w, d) /\ w.app[d].ui = "No"
          BY <2>3, <3>2 DEF TermsOf, Stages, HostPings
        <4>2. StatsIn(To(v, d, d)) = {} /\ ~ClientPings(v, d) /\ v.app[d].ui = "No"
          BY <2>1, <4>1, StatsAreTold DEF NoStats, HostTells
        <4> QED BY <4>2 DEF Figures
      <3> QED BY <3>1, <3>2
    <2> QED BY <2>4, <2>5, <2>6, <2>7 DEF TermsOf
  <1> QED BY <1>1, <1>4, <1>5, HostSetIsGood

\* gotPingStats, mergePingStats and getUserConfirmation of a host: it has the statistics
\* of both sides, and may ask its user.
LEMMA HostTakesStats ==
    ASSUME NEW v, NEW w, Good(w), Running(w, Host), NEW c \in Clients, w.app[Host].ctrl = c, NoStats(w, c),
           ~Untried(w, c), ~Chosen(w, c), ~HostPings(w, c), ~HostAsks(w, c),
           NEW a, AppSet(v, w, Host, a), a.ctrl = c, a.data = w.app[Host].data, a.peer = w.app[Host].peer,
           a.final = w.app[Host].final, a.status = w.app[Host].status, a.pinger = w.app[Host].pinger,
           a.ui \in {"No", "Asked"}, w.app[c].ui # "No" /\ a.ui = "Asked" => a.stats = w.app[c].stats
    PROVE  Good(v)
  <1>1. a.status \in {"Running", "Starting"}
    BY DEF Running
  <1>2. HostInOrder(w) /\ \A d \in Clients : TermsOf(w, d)
    BY DEF Good, Terms
  <1>3. v.app[Host] = a /\ w.app[Host].ui = "No" /\ NoStats(w, c)
    BY DEF AppSet, HostAsks
  <1>4. HostInOrder(v)
    BY <1>1, <1>2, <1>3 DEF HostInOrder
  <1>5. ASSUME NEW d \in Clients PROVE TermsOf(v, d)
    <2>1. /\ v.app[d] = w.app[d] /\ v.app[Host] = a /\ v.pending = w.pending
          /\ Ends(v, d) = Ends(w, d) /\ To(v, d, d) = To(w, d, d) /\ To(v, d, Host) = To(w, d, Host)
          /\ Untried(v, d) <=> Untried(w, d)
          /\ HostTells(v, d) <=> HostTells(w, d)
          /\ ClientPings(v, d) <=> ClientPings(w, d)
          /\ ClientTells(v, d) <=> ClientTells(w, d)
          /\ NoStats(v, d) <=> NoStats(w, d)
      BY <1>5, HostSetFrame
    <2>2. (Chosen(v, d) <=> Chosen(w, d)) /\ (HostPings(v, d) <=> HostPings(w, d)) /\ (HostAsks(v, d) => d = c)
      BY <1>3 DEF Chosen, HostPings, HostAsks
    <2>3. TermsOf(w, d)
      BY <1>2, <1>5
    <2>4. Stages(v, d)
      <3>1. CASE d = c
        BY <1>3, <2>1, <2>2, <2>3, <3>1 DEF Stages, TermsOf, NoStats
      <3>2. CASE d # c
        BY <1>3, <2>1, <2>2, <2>3, <3>2 DEF Stages, TermsOf
      <3> QED BY <3>1, <3>2
    <2>5. Single(v, d)
      BY <2>1, <2>3 DEF Single, TermsOf
    <2>6. Deal(v, d)
      BY <1>3, <2>1, <2>3 DEF Deal, TermsOf
    <2>7. Figures(v, d)
      <3>1. CASE d # c
        BY <1>3, <3>1 DEF Figures
      <3>2. CASE d = c
        <4>1. StatsIn(To(v, d, d)) = {} /\ ~ClientPings(v, d) /\ StatsIn(To(v, d, Host)) = {}
          BY <1>3, <2>1, <3>2, StatsAreTold DEF NoStats, HostTells, ClientTells
        <4> QED BY <2>1, <3>2, <4>1 DEF Figures
      <3> QED BY <3>1, <3>2
    <2> QED BY <2>4, <2>5, <2>6, <2>7 DEF TermsOf
  <1> QED BY <1>1, <1>4, <1>5, HostSetIsGood

\* Pinger::timerExpired of a host: it sends its statistics and pings no more.
LEMMA HostTellsStats ==
    ASSUME NEW v, NEW x, NEW w, Good(w), NEW c \in Clients, Running(w, Host), HostPings(w, c),
           NEW m \in Msg, m.type = "PingStats", m.samples = w.app[Host].pinger.samples,
           Sent(x, w, "ctrl", c, c, m), NEW a, AppSet(v, x, Host, a),
           a.ctrl = c, a.data = w.app[Host].data, a.peer = w.app[Host].peer, a.final = w.app[Host].final,
           a.status = w.app[Host].status, ~a.pinger.on, a.pinger.samples = w.app[Host].pinger.samples,
           a.ui = w.app[Host].ui, a.stats = w.app[Host].stats
    PROVE  Good(v)
  <1>1. /\ HostInOrder(w) /\ c \in Apps /\ c # Host /\ Host \in Apps /\ To(w, c, c) \in Seq(Msg)
        /\ \A d \in Clients : TermsOf(w, d) /\ d # Host /\ d \in Apps
    BY WhoIsWho, WorldFields DEF Good, Typed, Terms
  <1>2. /\ Typed(x) /\ x.app = w.app /\ x.pending = w.pending
        /\ \A d \in Clients : Ends(x, d) = Ends(w, d)
        /\ \A d \in Clients, q \in Apps : d # c \/ q # c => To(x, d, q) = To(w, d, q)
        /\ To(x, c, c) = To(w, c, c) \/ To(x, c, c) = Append(To(w, c, c), m)
    <2>1. SentTo(x, w, c, c, m)
      BY <1>1, SentToOne
    <2> QED BY <2>1 DEF SentTo
  <1>3. v.app[Host] = a /\ v.pending = w.pending /\ \A d \in Clients : v.app[d] = w.app[d]
    BY <1>1, <1>2 DEF AppSet
  <1>4. /\ \A d \in Clients : Ends(v, d) = Ends(w, d)
        /\ \A d \in Clients, q \in Apps : d # c \/ q # c => To(v, d, q) = To(w, d, q)
        /\ To(v, c, c) = To(w, c, c) \/ To(v, c, c) = Append(To(w, c, c), m)
    BY <1>1, <1>2, AppSetQueues
  <1>5. Typed(v)
    <2>1. a.status \in {"Running", "Starting"}
      BY DEF Running
    <2> QED BY <1>1, <1>2, <2>1, AppSetIsTyped
  <1>6. /\ NoStats(w, c) /\ ~HostAsks(w, c) /\ ~Untried(w, c) /\ ~Chosen(w, c) /\ w.app[c].ui = "No"
        /\ w.app[Host].ctrl = c
    BY <1>1 DEF TermsOf, Stages, HostPings
  <1>7. /\ \A type : type # "PingStats" => /\ Has(To(v, c, c), type) <=> Has(To(w, c, c), type)
                                           /\ Once(To(w, c, c), type) => Once(To(v, c, c), type)
        /\ Once(To(v, c, c), "PingStats")
        /\ \A s \in StatsIn(To(v, c, c)) : s = w.app[Host].pinger.samples
    <2>1. ~Has(To(w, c, c), "PingStats") /\ Once(To(w, c, c), "PingStats")
      BY <1>1, <1>6 DEF TermsOf, Single, NoStats, HostTells
    <2>2. StatsIn(To(w, c, c)) = {}
      BY <2>1, StatsAreTold
    <2>3. CASE To(v, c, c) = To(w, c, c)
      BY <2>1, <2>2, <2>3
    <2>4. CASE To(v, c, c) = Append(To(w, c, c), m)
      BY <1>1, <2>1, <2>2, <2>4, AppendQueue
    <2> QED BY <1>4, <2>3, <2>4
  <1>8. HostInOrder(v)
    BY <1>1, <1>3 DEF HostInOrder, Running
  <1>9. TermsOf(v, c)
    <2>1. To(v, c, Host) = To(w, c, Host) /\ Ends(v, c) = Ends(w, c) /\ v.app[c] = w.app[c]
      BY <1>1, <1>3, <1>4
    <2>2. /\ ~Untried(v, c) /\ ~Chosen(v, c) /\ ~HostPings(v, c) /\ ~HostAsks(v, c)
          /\ ~ClientPings(v, c) /\ ~ClientTells(v, c)
      BY <1>3, <1>6, <1>7, <2>1
         DEF NoStats, Untried, Chosen, HostPings, HostAsks, ClientPings, ClientTells
    <2>3. Stages(v, c)
      BY <1>3, <1>6, <2>1, <2>2 DEF Stages
    <2>4. Single(v, c)
      BY <1>1, <1>3, <1>6, <1>7, <2>1 DEF TermsOf, Single
    <2>5. Deal(v, c)
      BY <1>1, <1>3, <1>6, <1>7, <2>1 DEF TermsOf, Deal
    <2>6. Figures(v, c)
      BY <1>3, <1>6, <1>7, <2>1, <2>2 DEF Figures
    <2> QED BY <2>3, <2>4, <2>5, <2>6 DEF TermsOf
  <1>10. ASSUME NEW d \in Clients, d # c PROVE TermsOf(v, d)
    <2>1. /\ v.app[d] = w.app[d] /\ Ends(v, d) = Ends(w, d)
          /\ To(v, d, d) = To(w, d, d) /\ To(v, d, Host) = To(w, d, Host)
      BY <1>1, <1>3, <1>4, <1>10
    <2>2. ~Chosen(v, d) /\ ~HostPings(v, d) /\ ~HostAsks(v, d) /\ w.app[Host].ctrl # d /\ v.app[Host].ctrl # d
      BY <1>3, <1>6, <1>10 DEF Chosen, HostPings, HostAsks
    <2>3. /\ Untried(v, d) <=> Untried(w, d)
          /\ HostTells(v, d) <=> HostTells(w, d)
          /\ ClientPings(v, d) <=> ClientPings(w, d)
          /\ ClientTells(v, d) <=> ClientTells(w, d)
          /\ NoStats(v, d) <=> NoStats(w, d)
      BY <2>1 DEF Untried, HostTells, ClientPings, ClientTells, NoStats
    <2>4. TermsOf(w, d)
      BY <1>1, <1>10
    <2>5. Stages(v, d)
      BY <2>1, <2>2, <2>3, <2>4 DEF Stages, TermsOf
    <2>6. Single(v, d)
      BY <1>3, <2>1, <2>2, <2>4 DEF Single, TermsOf
    <2>7. Deal(v, d)
      BY <1>3, <2>1, <2>2, <2>4 DEF Deal, TermsOf
    <2>8. Figures(v, d)
      BY <2>2 DEF Figures
    <2> QED BY <2>5, <2>6, <2>7, <2>8 DEF TermsOf
  <1> QED BY <1>5, <1>8, <1>9, <1>10 DEF Good, Terms

\* gotUserConfirmation of a host: the configuration is sent to the client it plays with.
LEMMA HostSendsConfig ==
    ASSUME NEW v, NEW w, Good(w), NEW c \in Clients, w.app[Host].ctrl = c, w.app[Host].ui = "Taken",
           NEW m \in Msg, m.type = "NetplayConfig", Sent(v, w, "ctrl", c, c, m)
    PROVE  Good(v)
  <1>1. TermsOf(w, c) /\ c \in Apps /\ c # Host /\ Host \in Apps /\ To(w, c, c) \in Seq(Msg)
    BY WhoIsWho, WorldFields DEF Good, Typed, Terms
  <1>2. /\ Typed(v) /\ v.app = w.app /\ v.pending = w.pending
        /\ \A d \in Clients : Ends(v, d) = Ends(w, d)
        /\ \A d \in Clients, q \in Apps : d # c \/ q # c => To(v, d, q) = To(w, d, q)
        /\ To(v, c, c) = To(w, c, c) \/ To(v, c, c) = Append(To(w, c, c), m)
    <2>1. SentTo(v, w, c, c, m)
      BY <1>1, SentToOne
    <2> QED BY <2>1 DEF SentTo
  <1>3. To(v, c, Host) = To(w, c, Host) /\ Ends(v, c) = Ends(w, c)
    BY <1>1, <1>2
  <1>4. /\ \A type : type # "NetplayConfig" => /\ Has(To(v, c, c), type) <=> Has(To(w, c, c), type)
                                               /\ Once(To(w, c, c), type) => Once(To(v, c, c), type)
        /\ StatsIn(To(v, c, c)) = StatsIn(To(w, c, c))
    <2>1. CASE To(v, c, c) = To(w, c, c)
      BY <2>1
    <2>2. CASE To(v, c, c) = Append(To(w, c, c), m)
      <3>1. ASSUME NEW type, type # "NetplayConfig"
            PROVE  /\ Has(To(v, c, c), type) <=> Has(To(w, c, c), type)
                   /\ Once(To(w, c, c), type) => Once(To(v, c, c), type)
        BY <1>1, <2>2, <3>1, AppendQueue
      <3>2. m.type # "PingStats"
        OBVIOUS
      <3>3. StatsIn(To(v, c, c)) = StatsIn(To(w, c, c)) \cup {}
        BY <1>1, <2>2, <3>2, AppendQueue
      <3> QED BY <3>1, <3>3
    <2> QED BY <1>2, <2>1, <2>2
  <1>5. /\ Untried(v, c) <=> Untried(w, c)
        /\ Chosen(v, c) <=> Chosen(w, c)
        /\ HostPings(v, c) <=> HostPings(w, c)
        /\ HostTells(v, c) <=> HostTells(w, c)
        /\ ClientPings(v, c) <=> ClientPings(w, c)
        /\ ClientTells(v, c) <=> ClientTells(w, c)
        /\ HostAsks(v, c) <=> HostAsks(w, c)
        /\ Running(v, Host) <=> Running(w, Host)
    BY <1>2, <1>3, <1>4 DEF Untried, Chosen, HostPings, HostTells, ClientPings, ClientTells, HostAsks, Running
  <1>6. Stages(v, c)
    BY <1>1, <1>2, <1>3, <1>5 DEF Stages, NoStats, TermsOf
  <1>7. Single(v, c) /\ Deal(v, c)
    BY <1>1, <1>2, <1>3, <1>4 DEF TermsOf, Single, Deal
  <1>8. Figures(v, c)
    <2>1. Figures(w, c)
      BY <1>1 DEF TermsOf
    <2> QED BY <1>2, <1>3, <1>4, <1>5, <2>1, SameFigures
  <1>9. \A d \in Clients : d # c => /\ To(v, d, Host) = To(w, d, Host) /\ To(v, d, d) = To(w, d, d)
                                    /\ Ends(v, d) = Ends(w, d)
    BY <1>1, <1>2, WhoIsWho
  <1>10. v.pending \subseteq w.pending \cup {c} /\ TermsOf(v, c) /\ \A q \in Apps : v.app[q] = w.app[q]
    BY <1>2, <1>6, <1>7, <1>8 DEF TermsOf
  <1> QED BY <1>2, <1>9, <1>10, OneClientChanges

\* socketAccepted: a client that the host does not know yet waits to be chosen.
LEMMA HostAccepts ==
    ASSUME NEW v, NEW w, Good(w), NEW c \in Clients, Host \in Ends(w, c), w.app[Host].ctrl # c,
           ~Has(To(w, c, Host), "Open"), v \in World, v.app = w.app, v.link = w.link, v.pending = w.pending \cup {c}
    PROVE  Good(v)
  <1>1. TermsOf(w, c) /\ c \in Apps /\ c # Host /\ Host \in Apps
    BY WhoIsWho DEF Good, Terms
  <1>2. \A d \in Clients : Ends(v, d) = Ends(w, d) /\ \A q \in Apps : To(v, d, q) = To(w, d, q)
    BY DEF Ends, To
  <1>3. Typed(v)
    <2>1. AllWired(w) /\ Alive(w) /\ Waiting(w)
      BY DEF Good, Typed
    <2> QED BY <2>1 DEF Typed, AllWired, Alive, Waiting, Ends, Running
  <1>4. To(v, c, c) = To(w, c, c) /\ To(v, c, Host) = To(w, c, Host) /\ Ends(v, c) = Ends(w, c)
    BY <1>1, <1>2
  <1>5. /\ Untried(v, c) <=> Untried(w, c)
        /\ Chosen(v, c) <=> Chosen(w, c)
        /\ HostPings(v, c) <=> HostPings(w, c)
        /\ HostTells(v, c) <=> HostTells(w, c)
        /\ ClientPings(v, c) <=> ClientPings(w, c)
        /\ ClientTells(v, c) <=> ClientTells(w, c)
        /\ HostAsks(v, c) <=> HostAsks(w, c)
        /\ Running(v, Host) <=> Running(w, Host)
    BY <1>4 DEF Untried, Chosen, HostPings, HostTells, ClientPings, ClientTells, HostAsks, Running
  <1>6. Stages(v, c)
    BY <1>1, <1>4, <1>5 DEF Stages, NoStats, TermsOf
  <1>7. Single(v, c) /\ Deal(v, c)
    BY <1>1, <1>4 DEF TermsOf, Single, Deal
  <1>8. Figures(v, c)
    <2>1. Figures(w, c)
      BY <1>1 DEF TermsOf
    <2> QED BY <1>4, <1>5, <2>1, SameFigures
  <1>9. \A d \in Clients : d # c => /\ To(v, d, Host) = To(w, d, Host) /\ To(v, d, d) = To(w, d, d)
                                    /\ Ends(v, d) = Ends(w, d)
    BY <1>2, WhoIsWho
  <1>10. v.pending \subseteq w.pending \cup {c} /\ TermsOf(v, c) /\ \A q \in Apps : v.app[q] = w.app[q]
    BY <1>6, <1>7, <1>8 DEF TermsOf
  <1> QED BY <1>3, <1>9, <1>10, OneClientChanges

\* resetHost, while its user has not been asked: the client that the host had chosen is let
\* go of, or has no statistics under way.
LEMMA HostIsReset ==
    ASSUME NEW v, NEW r, NEW w, Good(w), NEW c \in Clients, w.app[Host].ctrl = c, w.app[Host].ui = "No",
           Typed(r), r.app = w.app, \A d \in Clients : LessLink(r.link["ctrl"][d], w.link["ctrl"][d]),
           r.pending \subseteq w.pending \cup {c}, Host \in Ends(r, c) => NoStats(w, c),
           Has(To(w, c, Host), "Open") => c \notin r.pending,
           NEW a, AppSet(v, r, Host, a), a.status = "Running", a.ctrl = None, a.ui = "No", ~a.final,
           ~a.pinger.on, a.peer = None, a.data # "Listening"
    PROVE  Good(v)
  <1>1. /\ HostInOrder(w) /\ \A d \in Clients : TermsOf(w, d)
    BY DEF Good, Terms
  <1>2. Typed(v)
    BY AppSetIsTyped, WhoIsWho
  <1>3. v.app[Host] = a
    BY DEF AppSet
  <1>4. HostInOrder(v)
    BY <1>3 DEF HostInOrder
  <1>5. ASSUME NEW d \in Clients PROVE TermsOf(v, d)
    <2>1. /\ v.app[d] = w.app[d] /\ v.pending = r.pending
          /\ Ends(v, d) = Ends(r, d) /\ To(v, d, d) = To(r, d, d) /\ To(v, d, Host) = To(r, d, Host)
      BY <1>5, AppSetQueues, WhoIsWho DEF AppSet
    <2>2. /\ \A type \in {"Open", "PingStats", "NetplayConfig", "ConfirmConfig"} :
               /\ Has(To(v, d, d), type) => Has(To(w, d, d), type)
               /\ Once(To(w, d, d), type) => Once(To(v, d, d), type)
          /\ \A type \in {"Open", "VersionConfig", "PingStats", "ConfirmConfig"} :
               /\ Has(To(v, d, Host), type) => Has(To(w, d, Host), type)
               /\ Once(To(w, d, Host), type) => Once(To(v, d, Host), type)
          /\ Ends(v, d) \subseteq Ends(w, d)
      <3>1. LessLink(r.link["ctrl"][d], w.link["ctrl"][d])
        BY <1>5
      <3>2. /\ \A type \in {"Open", "PingStats", "NetplayConfig", "ConfirmConfig"} :
                 /\ Has(To(r, d, d), type) => Has(To(w, d, d), type)
                 /\ Once(To(w, d, d), type) => Once(To(r, d, d), type)
            /\ \A type \in {"Open", "VersionConfig", "PingStats", "ConfirmConfig"} :
                 /\ Has(To(r, d, Host), type) => Has(To(w, d, Host), type)
                 /\ Once(To(w, d, Host), type) => Once(To(r, d, Host), type)
            /\ Ends(r, d) \subseteq Ends(w, d)
        BY <1>5, <3>1, LessInQueues
      <3> QED BY <2>1, <3>2
    <2>3. /\ Untried(v, d) => Untried(w, d)
          /\ HostTells(v, d) => HostTells(w, d)
          /\ ClientPings(v, d) => ClientPings(w, d)
          /\ ClientTells(v, d) => ClientTells(w, d)
      BY <2>1, <2>2 DEF Untried, HostTells, ClientPings, ClientTells
    <2>4. ~Chosen(v, d) /\ ~HostPings(v, d) /\ ~HostAsks(v, d) /\ v.app[Host].ctrl # d
      BY <1>3, <1>5, WhoIsWho DEF Chosen, HostPings, HostAsks
    <2>5. TermsOf(w, d)
      BY <1>1, <1>5
    <2>6. Stages(v, d)
      <3>1. Host \in Ends(v, d) => NoStats(v, d)
        <4>1. CASE d = c
          BY <2>1, <2>3, <4>1 DEF NoStats
        <4>2. CASE d # c
          BY <2>2, <2>3, <2>5, <4>2 DEF NoStats, TermsOf, Stages
        <4> QED BY <4>1, <4>2
      <3> QED BY <2>1, <2>3, <2>4, <2>5, <3>1 DEF Stages, TermsOf, NoStats
    <2>7. Single(v, d)
      <3>1. Has(To(v, d, Host), "Open") => d \notin v.pending
        <4>1. CASE d = c
          BY <2>1, <2>2, <4>1
        <4>2. CASE d # c
          BY <2>1, <2>2, <2>5, <4>2 DEF TermsOf, Single
        <4> QED BY <4>1, <4>2
      <3> QED BY <2>1, <2>2, <2>4, <2>5, <3>1 DEF Single, TermsOf
    <2>8. Deal(v, d)
      BY <1>3, <2>1, <2>2, <2>4, <2>5 DEF Deal, TermsOf
    <2>9. Figures(v, d)
      BY <2>4 DEF Figures
    <2> QED BY <2>6, <2>7, <2>8, <2>9 DEF TermsOf
  <1> QED BY <1>2, <1>4, <1>5 DEF Good, Terms

\* Pinger::gotPong of a client.
LEMMA ClientGetsPong ==
    ASSUME NEW v, NEW w, Good(w), NEW c \in Clients, Running(w, c), w.app[c].pinger.on, NEW a, AppSet(v, w, c, a),
           a.status = w.app[c].status, a.ui = w.app[c].ui, a.final = w.app[c].final, a.pinger.on,
           a.session = w.app[c].session, a.stats = w.app[c].stats, a.confirmed = w.app[c].confirmed
    PROVE  Good(v)
  <1>1. TermsOf(w, c) /\ c \in Apps /\ c # Host
    BY WhoIsWho DEF Good, Terms
  <1>2. v.app[c] = a /\ v.app[Host] = w.app[Host] /\ v.pending = w.pending
    BY <1>1, WhoIsWho DEF AppSet
  <1>3. Ends(v, c) = Ends(w, c) /\ To(v, c, c) = To(w, c, c) /\ To(v, c, Host) = To(w, c, Host)
    BY AppSetQueues, WhoIsWho
  <1>4. /\ Untried(v, c) <=> Untried(w, c)
        /\ Chosen(v, c) <=> Chosen(w, c)
        /\ HostPings(v, c) <=> HostPings(w, c)
        /\ HostTells(v, c) <=> HostTells(w, c)
        /\ ClientPings(v, c) <=> ClientPings(w, c)
        /\ ClientTells(v, c) <=> ClientTells(w, c)
        /\ HostAsks(v, c) <=> HostAsks(w, c)
        /\ Running(v, Host) <=> Running(w, Host)
    BY <1>2, <1>3 DEF Untried, Chosen, HostPings, HostTells, ClientPings, ClientTells, HostAsks, Running
  <1>5. Stages(v, c)
    BY <1>1, <1>2, <1>3, <1>4 DEF Stages, NoStats, TermsOf
  <1>6. Single(v, c) /\ Deal(v, c)
    BY <1>1, <1>2, <1>3 DEF TermsOf, Single, Deal
  <1>7. Figures(v, c)
    <2>1. Figures(w, c)
      BY <1>1 DEF TermsOf
    <2> QED BY <1>2, <1>3, <1>4, <2>1, SameFigures
  <1>8. a.status \in {"Running", "Starting"}
    BY DEF Running
  <1> QED BY <1>5, <1>6, <1>7, <1>8, ClientSetIsGood DEF TermsOf

\* startNetplay of a client: its connection is tried.
LEMMA ClientBegins ==
    ASSUME NEW v, NEW w, Good(w), NEW c \in Clients, w.app[c].status = "Idle", v \in World, NEW a, NEW l \in LinkType,
           v.app = [w.app EXCEPT ![c] = a], v.link = [w.link EXCEPT !["ctrl"][c] = l], v.pending = w.pending,
           Wired(l, "ctrl", c), Host \in l.ends => Running(w, Host),
           \A type : Has(l.to[c], type) \/ Has(l.to[Host], type) => type \in {"Open", "Closed"},
           Once(l.to[c], "Open"), Once(l.to[Host], "Open"),
           a.status = "Running", a.ui = w.app[c].ui, a.final = w.app[c].final, a.pinger = w.app[c].pinger,
           a.confirmed = w.app[c].confirmed
    PROVE  Good(v)
  <1>1. /\ TermsOf(w, c) /\ c \in Apps /\ c # Host /\ Host \in Apps
        /\ w.app \in [Apps -> AppType] /\ w.link \in [Kinds -> [Clients -> LinkType]]
        /\ AllWired(w) /\ Alive(w) /\ Waiting(w)
    BY WhoIsWho, WorldFields DEF Good, Typed, Terms
  <1>2. v.app[c] = a /\ \A q \in Apps : q # c => v.app[q] = w.app[q]
    BY <1>1
  <1>3. /\ v.link["ctrl"][c] = l
        /\ \A k \in Kinds, d \in Clients : k # "ctrl" \/ d # c => v.link[k][d] = w.link[k][d]
    BY <1>1, WhoIsWho
  <1>4. c \notin w.pending /\ Ends(w, c) = {} /\ Untried(w, c)
    BY <1>1 DEF TermsOf, Single, Untried, Waiting
  <1>5. Typed(v)
    <2>1. AllWired(v)
      BY <1>1, <1>3 DEF AllWired
    <2>2. Alive(v)
      <3>1. ASSUME NEW k \in Kinds, NEW d \in Clients, NEW p \in v.link[k][d].ends PROVE Running(v, p)
        <4>1. CASE k = "ctrl" /\ d = c
          <5>1. p \in {Host, c}
            BY <1>3, <3>1, <4>1 DEF Wired
          <5> QED BY <1>1, <1>2, <1>3, <3>1, <4>1, <5>1 DEF Running
        <4>2. CASE ~(k = "ctrl" /\ d = c)
          <5>1. Running(w, p) /\ p \in w.link[k][d].ends /\ p \in Apps
            BY <1>1, <1>3, <3>1, <4>2 DEF Alive, LinkType
          <5>2. CASE p = c
            BY <1>2, <5>2 DEF Running
          <5>3. CASE p # c
            BY <1>2, <5>1, <5>3 DEF Running
          <5> QED BY <5>2, <5>3
        <4> QED BY <4>1, <4>2
      <3> QED BY <3>1 DEF Alive
    <2>3. Waiting(v)
      BY <1>1, <1>3, <1>4, WorldFields, WhoIsWho DEF Waiting, Ends, Good, Typed
    <2> QED BY <2>1, <2>2, <2>3 DEF Typed
  <1>6. \A d \in Clients : d # c => /\ To(v, d, Host) = To(w, d, Host) /\ To(v, d, d) = To(w, d, d)
                                    /\ Ends(v, d) = Ends(w, d)
    BY <1>3, WhoIsWho DEF To, Ends
  <1>7. To(v, c, c) = l.to[c] /\ To(v, c, Host) = l.to[Host] /\ v.app[Host] = w.app[Host]
    BY <1>1, <1>2, <1>3 DEF To
  <1>8. /\ ~HostTells(v, c) /\ ~ClientTells(v, c) /\ ~ClientPings(v, c) /\ ~Chosen(v, c) /\ ~HostPings(v, c)
        /\ ~HostAsks(v, c) /\ w.app[Host].ctrl # c /\ w.app[c].ui = "No"
    BY <1>1, <1>2, <1>4, <1>7 DEF TermsOf, Stages, NoStats, HostTells, ClientTells, ClientPings, Chosen, HostPings, HostAsks
  <1>9. Stages(v, c)
    BY <1>2, <1>7, <1>8 DEF Stages, NoStats
  <1>10. Single(v, c)
    <2>1. Once(l.to[Host], "VersionConfig") /\ Once(l.to[Host], "PingStats") /\ Once(l.to[c], "PingStats")
          /\ ~Has(l.to[Host], "VersionConfig")
      BY DEF Has, Once
    <2> QED BY <1>2, <1>4, <1>7, <1>8, <2>1 DEF Single
  <1>11. Deal(v, c)
    BY <1>1, <1>2, <1>7, <1>8 DEF Deal, TermsOf
  <1>12. Figures(v, c)
    BY <1>7, <1>8 DEF Figures
  <1>13. TermsOf(v, c) /\ v.pending \subseteq w.pending \cup {c}
    BY <1>9, <1>10, <1>11, <1>12 DEF TermsOf
  <1> QED BY ONLY Good(w), c \in Clients, <1>2, <1>5, <1>6, <1>13, OneClientChanges

-----------------------------------------------------------------------------
(* The handlers.                                                           *)

\* What a good world has at hand for an application that runs.
LEMMA GoodFacts ==
    ASSUME NEW w, Good(w), NEW p \in Apps
    PROVE  /\ w \in World /\ Typed(w) /\ HostInOrder(w) /\ (\A c \in Clients : TermsOf(w, c))
           /\ w.app \in [Apps -> AppType] /\ w.app[p] \in AppType
           /\ Running(w, p) => w.app[p].status \in {"Running", "Starting"} /\ w.app[p].status # "Idle"
  <1>1. w \in World /\ Typed(w) /\ HostInOrder(w) /\ \A c \in Clients : TermsOf(w, c)
    BY DEF Good, Typed, Terms
  <1>2. w.app \in [Apps -> AppType] /\ w.app[p] \in AppType
    BY <1>1, WorldFields
  <1> QED BY <1>1, <1>2 DEF Running

\* Stopping is fine.
LEMMA StopIsGood ==
    ASSUME NEW w, Good(w), NEW p \in Apps, Running(w, p)
    PROVE  Good(Stop(w, p))
  <1>1. Typed(w) /\ w.app[p].status # "Idle"
    BY DEF Good, Running
  <1>2. Calm(Stop(w, p), w)
    BY <1>1, StopIsCalm
  <1> QED BY <1>2, CalmKeepsGood

\* A control message that says nothing about the client.
LEMMA SendCtrlIsCalm ==
    ASSUME NEW w, Good(w), NEW p \in Apps, NEW m \in Msg, p = Host => w.app[Host].ctrl \in Clients,
           m.type \in {"InitialConfig", "ErrorMessage"}
    PROVE  Calm(SendCtrl(w, p, m), w) /\ SendCtrl(w, p, m).app = w.app
  <1> DEFINE c == ClientOf(w, p, "ctrl")
  <1>1. Typed(w)
    BY DEF Good
  <1>2. \A q : m.type \notin Telling(q)
    BY DEF Telling
  <1>3. Sent(SendCtrl(w, p, m), w, "ctrl", c, OtherEnd(p, c), m) /\ Calm(SendCtrl(w, p, m), w)
    BY <1>1, <1>2, SendCtrlShape
  <1> QED BY Zenon, <1>3 DEF Sent

\* startGameIfReady
LEMMA StartIsGood ==
    ASSUME NEW w, Good(w), NEW p \in Apps, Running(w, p)
    PROVE  Good(StartGameIfReady(w, p))
  <1> DEFINE m == [type |-> "ConfirmConfig"]
             x == IF p = Host THEN w ELSE SendCtrl(w, p, m)
             v == StartGameIfReady(w, p)
  <1>1. CASE ~w.app[p].confirmed \/ ~w.app[p].final
    BY <1>1 DEF StartGameIfReady
  <1>2. CASE w.app[p].confirmed /\ w.app[p].final
    <2>1. v = [x EXCEPT !.app[p].status = "Starting"]
      BY <1>2 DEF StartGameIfReady, StartGame
    <2>2. Good(x) /\ x.app = w.app
      <3>1. CASE p = Host
        BY <3>1
      <3>2. CASE p # Host
        <4>1. Typed(w) /\ p \in Clients /\ m \in Msg /\ m.type = "ConfirmConfig"
          BY <3>2, WhoIsWho DEF Good, Msg
        <4> HIDE DEF m
        <4>2. Sent(SendCtrl(w, p, m), w, "ctrl", p, Host, m)
          <5> DEFINE c == ClientOf(w, p, "ctrl")
          <5>1. c = p /\ OtherEnd(p, c) = Host /\ Sent(SendCtrl(w, p, m), w, "ctrl", c, OtherEnd(p, c), m)
            BY <3>2, <4>1, SendCtrlShape
          <5> QED BY <5>1
        <4>3. Good(SendCtrl(w, p, m))
          BY <1>2, <4>1, <4>2, ClientSends
        <4> QED BY Zenon, <3>2, <4>2, <4>3 DEF Sent
      <3> QED BY <3>1, <3>2
    <2> HIDE DEF x, v
    <2>3. x \in World /\ x.app[p] \in AppType /\ HostInOrder(x) /\ Running(x, p)
      BY <2>2, GoodFacts DEF Running
    <2> DEFINE a == [x.app[p] EXCEPT !.status = "Starting"]
    <2>4. a \in AppType
      BY <2>3 DEF AppType
    <2>5. AppSet(v, x, p, a)
      <3>1. v = [x EXCEPT !.app[p] = a]
        BY <2>1
      <3> HIDE DEF a
      <3> QED BY <2>3, <2>4, <3>1, AppSetShape
    <2>6. CASE p = Host
      <3>1. /\ a.ctrl = x.app[Host].ctrl /\ a.data = x.app[Host].data /\ a.peer = x.app[Host].peer
            /\ a.pinger = x.app[Host].pinger /\ a.stats = x.app[Host].stats /\ a.status = "Starting"
            /\ a.ui = x.app[Host].ui /\ a.final = x.app[Host].final
        BY <2>3, <2>6 DEF AppType
      <3>2. a.final /\ AppSet(v, x, Host, a) /\ Running(x, Host)
        BY <1>2, <2>2, <2>3, <2>5, <2>6, <3>1
      <3> HIDE DEF a
      <3>3. Good(v)
        BY <2>2, <3>1, <3>2, HostGoesOn
      <3> QED BY <3>3 DEF v
    <2>7. CASE p # Host
      <3>1. p \in Clients /\ x.app[p].confirmed /\ x.app[p].final
        BY <1>2, <2>2, <2>7, WhoIsWho
      <3>2. Good(v)
        BY <2>2, <2>3, <2>5, <3>1, ClientStarts
      <3> QED BY <3>2 DEF v
    <2> QED BY <2>6, <2>7
  <1> QED BY <1>1, <1>2

\* gotVersionConfig, when the host knows that c has done nothing yet but to send it.
LEMMA GotVersionConfigIsGood ==
    ASSUME NEW w, Good(w), NEW p \in Apps, NEW c \in Clients, p \in {Host, c}, Running(w, p),
           p = Host => w.app[Host].ctrl = None /\ NoStats(w, c) /\ ~Untried(w, c) /\ w.app[c].ui = "No"
    PROVE  Good(GotVersionConfig(w, p, c))
  <1> DEFINE err == [type |-> "ErrorMessage"]
  <1>1. Good(Send(w, "ctrl", c, Host, err))
    <2>1. Typed(w) /\ err \in Msg /\ err.type = "ErrorMessage" /\ \A q : err.type \notin Telling(q)
      BY DEF Good, Msg, Telling
    <2> HIDE DEF err
    <2>2. Calm(Send(w, "ctrl", c, Host, err), w)
      BY <2>1, SendShape, WhoIsWho
    <2> QED BY <2>2, CalmKeepsGood
  <1>2. Good(Stop(w, p))
    BY StopIsGood
  <1>3. CASE p # Host
    <2> DEFINE m == [type |-> "InitialConfig", port |-> 0]
    <2>1. m \in Msg /\ m.type = "InitialConfig"
      BY DEF Msg
    <2> HIDE DEF m
    <2>2. Good(SendCtrl(w, p, m))
      BY <1>3, <2>1, SendCtrlIsCalm, CalmKeepsGood
    <2>3. GotVersionConfig(w, p, c) \in {Stop(w, p), SendCtrl(w, p, m)}
      BY <1>3 DEF GotVersionConfig, m
    <2> QED BY <1>2, <2>2, <2>3
  <1>4. CASE p = Host /\ (w.app[c].role \in {"Outdated", "Spectator"} \/ c \notin w.pending)
    <2>1. GotVersionConfig(w, p, c) \in {Send(w, "ctrl", c, Host, err), w}
      BY <1>4 DEF GotVersionConfig
    <2> QED BY <1>1, <2>1
  <1>5. CASE p = Host /\ w.app[c].role \notin {"Outdated", "Spectator"} /\ c \in w.pending
    <2> DEFINE port == IF PortCleared THEN 0 ELSE 1
               t == [w EXCEPT !.pending = @ \ {c},
                              !.app[Host] = [@ EXCEPT !.ctrl = c, !.data = "Listening", !.port = port]]
               a == [w.app[Host] EXCEPT !.ctrl = c, !.data = "Listening", !.port = port]
               m == [type |-> "InitialConfig", port |-> port]
    <2>1. GotVersionConfig(w, p, c) = SendCtrl(t, Host, m)
      BY <1>5 DEF GotVersionConfig
    <2>2. w \in World /\ Typed(w) /\ w.app[Host] \in AppType /\ Running(w, Host) /\ w.pending \subseteq Clients
          /\ Host \in Apps
      BY <1>5, GoodFacts, WorldFields
    <2>3. a \in AppType /\ a.ctrl = c /\ a.ui = w.app[Host].ui /\ a.final = w.app[Host].final
          /\ a.peer = w.app[Host].peer /\ a.status = w.app[Host].status /\ a.pinger = w.app[Host].pinger
          /\ a.stats = w.app[Host].stats
      BY <2>2 DEF AppType
    <2>4. t \in World /\ t.link = w.link /\ t.pending = w.pending \ {c} /\ t.app[Host] = a
          /\ \A q \in Apps : q # Host => t.app[q] = w.app[q]
      <3>1. t = [w EXCEPT !.pending = @ \ {c}, !.app[Host] = a]
        OBVIOUS
      <3> HIDE DEF a, t
      <3> QED BY <2>2, <2>3, <3>1 DEF World
    <2> HIDE DEF t, a
    <2>5. Typed(t)
      <3>1. AllWired(w) /\ Alive(w) /\ Waiting(w)
        BY <2>2 DEF Typed
      <3>2. AllWired(t) /\ Waiting(t)
        BY <2>4, <3>1 DEF AllWired, Waiting, Ends
      <3>3. ASSUME NEW k \in Kinds, NEW d \in Clients, NEW q \in t.link[k][d].ends PROVE Running(t, q)
        <4>1. Running(w, q) /\ q \in Apps
          BY <2>2, <2>4, <3>1, <3>3, WorldFields DEF Alive, LinkType
        <4> QED BY <2>2, <2>3, <2>4, <4>1 DEF Running
      <3> QED BY <2>4, <3>2, <3>3 DEF Typed, Alive
    <2>6. Good(t)
      BY <1>5, <2>2, <2>3, <2>4, <2>5, HostChooses
    <2>7. m \in Msg /\ m.type = "InitialConfig"
      BY DEF Msg
    <2> HIDE DEF m
    <2>8. t.app[Host].ctrl \in Clients
      BY <2>3, <2>4
    <2>9. Good(SendCtrl(t, Host, m))
      BY <2>2, <2>6, <2>7, <2>8, SendCtrlIsCalm, CalmKeepsGood
    <2> QED BY <2>1, <2>9
  <1> QED BY <1>3, <1>4, <1>5

\* An application that is changed as its sockets and the terms do not see.
LEMMA SetIsCalm ==
    ASSUME NEW w, Good(w), NEW p \in Apps, Running(w, p), NEW a \in AppType, a.status = w.app[p].status,
           Quieter(a, w.app[p])
    PROVE  LET v == [w EXCEPT !.app[p] = a] IN
           Good(v) /\ Calm(v, w) /\ AppSet(v, w, p, a) /\ Running(v, p)
  <1> DEFINE v == [w EXCEPT !.app[p] = a]
  <1>1. w \in World /\ Typed(w) /\ a.status \in {"Running", "Starting"}
    BY GoodFacts DEF Running
  <1>2. AppSet(v, w, p, a)
    BY <1>1, AppSetShape
  <1> HIDE DEF v
  <1>3. Calm(v, w)
    BY <1>1, <1>2, AppSetIsCalm
  <1>4. Good(v)
    BY <1>3, CalmKeepsGood
  <1>5. Running(v, p)
    BY <1>1, <1>2 DEF Running, AppSet
  <1> QED BY <1>2, <1>3, <1>4, <1>5 DEF v

\* gotInitialConfig
LEMMA GotInitialConfigIsGood ==
    ASSUME NEW w, Good(w), NEW p \in Apps, Running(w, p), NEW msg \in Msg, msg.type = "InitialConfig",
           p = Host => w.app[Host].ctrl \in Clients
    PROVE  Good(GotInitialConfig(w, p, msg))
  <1>1. w.app[p] \in AppType
    BY GoodFacts
  <1>2. CASE ~w.app[p].ready
    <2> DEFINE a == [w.app[p] EXCEPT !.ready = TRUE]
               t == [w EXCEPT !.app[p] = a]
               m == [type |-> "InitialConfig", port |-> w.app[p].port]
    <2>1. GotInitialConfig(w, p, msg) = SendCtrl(t, p, m)
      BY <1>2 DEF GotInitialConfig
    <2>2. a \in AppType /\ a.status = w.app[p].status /\ Quieter(a, w.app[p]) /\ a.ctrl = w.app[p].ctrl
      <3>1. a \in AppType
        BY <1>1 DEF AppType
      <3> QED BY Zenon, <1>1, <3>1 DEF AppType, Quieter
    <2>3. m \in Msg /\ m.type = "InitialConfig"
      BY <1>1 DEF AppType, Msg
    <2> HIDE DEF a, m
    <2>4. Good(t) /\ AppSet(t, w, p, a)
      BY <2>2, SetIsCalm
    <2> HIDE DEF t
    <2>5. p = Host => t.app[Host].ctrl \in Clients
      BY <2>2, <2>4 DEF AppSet
    <2>6. Good(SendCtrl(t, p, m))
      BY <2>3, <2>4, <2>5, SendCtrlIsCalm, CalmKeepsGood
    <2> QED BY <2>1, <2>6
  <1>3. CASE w.app[p].ready /\ p = Host
    BY <1>3 DEF GotInitialConfig
  <1>4. CASE w.app[p].ready /\ p # Host
    <2> DEFINE a == [w.app[p] EXCEPT !.port = msg.port, !.data = "Connecting"]
               t == [w EXCEPT !.app[p] = a]
               there == Running(w, Host) /\ w.app[Host].data = "Listening" /\ msg.port # 0
               E == IF there THEN {Host, p} ELSE {p}
               m == IF there THEN [type |-> "Open"] ELSE [type |-> "Closed"]
               l == [to |-> Told(E, m), ends |-> E]
               v == [t EXCEPT !.link["data"][p] = l]
    <2>1. GotInitialConfig(w, p, msg) = v
      BY <1>4 DEF GotInitialConfig, Connect
    <2>2. a \in AppType /\ a.status = w.app[p].status /\ Quieter(a, w.app[p])
      <3>1. msg.port \in {0, 1}
        BY MsgFields
      <3> QED BY <1>1, <3>1 DEF AppType, Quieter
    <2> HIDE DEF a
    <2>3. Good(t) /\ AppSet(t, w, p, a) /\ Running(t, p)
      BY <2>2, SetIsCalm
    <2>4. p \in Clients /\ E \in SUBSET {Host, p} /\ m \in Msg /\ m.type \in {"Open", "Closed", "Ping"}
      BY <1>4, WhoIsWho DEF Msg
    <2>5. \A q \in E : Running(t, q)
      BY <1>4, <2>3, WhoIsWho DEF AppSet, Running
    <2>6. t \in World /\ Typed(t)
      BY <2>3, GoodFacts
    <2> HIDE DEF E, m, t
    <2>7. l \in LinkType /\ Wired(l, "data", p) /\ l.ends = E
      BY <2>4, NewLink
    <2> HIDE DEF l
    <2>8. v \in World /\ v.app = t.app /\ v.link = [t.link EXCEPT !["data"][p] = l] /\ v.pending = t.pending
      BY <2>4, <2>6, <2>7, WhoIsWho DEF World
    <2> HIDE DEF v
    <2>9. Calm(v, t)
      BY <2>4, <2>5, <2>6, <2>7, <2>8, LinkIsReplaced, WhoIsWho
    <2>10. Good(v)
      BY <2>3, <2>9, CalmKeepsGood
    <2> QED BY <2>1, <2>10
  <1> QED BY <1>2, <1>3, <1>4

\* pingerSendPing
LEMMA PingerSendPingIsGood ==
    ASSUME NEW w, Good(w), NEW p \in Apps, Running(w, p), NEW origin \in Apps
    PROVE  LET v == PingerSendPing(w, p, origin) IN
           Good(v) /\ Calm(v, w) /\ (Running(v, p) => v.app = w.app)
  <1> DEFINE v == PingerSendPing(w, p, origin)
  <1>1. Calm(v, w) /\ (Running(v, p) => v.app = w.app)
    BY GoodFacts, PingerSendPingIsCalm
  <1> HIDE DEF v
  <1>2. Good(v)
    BY <1>1, CalmKeepsGood
  <1> QED BY <1>1, <1>2 DEF v

\* Pinger::start of the host or a client, when nothing carries the client c on.
LEMMA PingerStartIsGood ==
    ASSUME NEW w, Good(w), NEW p \in Apps, Running(w, p), NEW c \in Clients, p \in {Host, c}, Between(w, c),
           p = Host => w.app[Host].ctrl = c,
           p # Host =>
             /\ w.app[Host].ctrl = c /\ Running(w, Host) => w.app[c].stats = w.app[Host].pinger.samples
             /\ w.app[Host].ctrl # c => Host \notin Ends(w, c)
    PROVE  Good(PingerStart(w, p))
  <1> DEFINE x == PingerSendPing(w, p, p)
             a == [x.app[p] EXCEPT !.pinger = [@ EXCEPT !.on = TRUE, !.count = 1]]
             v == [x EXCEPT !.app[p] = a]
  <1>1. Good(x) /\ Calm(x, w) /\ (Running(x, p) => x.app = w.app)
    BY PingerSendPingIsGood
  <1>2. PingerStart(w, p) = IF ~Running(x, p) THEN x ELSE v
    BY DEF PingerStart
  <1> HIDE DEF x
  <1>3. SUFFICES ASSUME Running(x, p) PROVE Good(v)
    BY <1>1, <1>2
  <1>4. x.app = w.app /\ Between(x, c) /\ x \in World /\ x.app[p] \in AppType
    BY <1>1, <1>3, CalmKeepsBetween, GoodFacts
  <1>5. /\ a \in AppType /\ a.ctrl = x.app[p].ctrl /\ a.data = x.app[p].data /\ a.ui = x.app[p].ui
        /\ a.final = x.app[p].final /\ a.status = x.app[p].status /\ a.stats = x.app[p].stats
        /\ a.pinger.samples = x.app[p].pinger.samples
    <2> DEFINE pinger == [x.app[p].pinger EXCEPT !.on = TRUE, !.count = 1]
    <2>1. a = [x.app[p] EXCEPT !.pinger = pinger]
      OBVIOUS
    <2>2. pinger \in PingerType /\ pinger.samples = x.app[p].pinger.samples
      <3>1. x.app[p].pinger \in PingerType /\ 1 \in 0 .. NumPings
        BY <1>4, SetupAssumption DEF AppType
      <3> QED BY <3>1 DEF PingerType
    <2> HIDE DEF pinger, a
    <2> QED BY <1>4, <2>1, <2>2 DEF AppType
  <1>6. a = [x.app[p] EXCEPT !.pinger = [@ EXCEPT !.on = TRUE, !.count = 1]]
    OBVIOUS
  <1> HIDE DEF a
  <1>7. AppSet(v, x, p, a)
    BY <1>4, <1>5, AppSetShape
  <1> HIDE DEF v
  <1>8. CASE p = Host
    <2>1. /\ NoStats(x, c) /\ ~Untried(x, c) /\ ~HostAsks(x, c) /\ x.app[c].ui = "No" /\ ~Chosen(x, c)
          /\ x.app[Host].ctrl = c
      BY <1>4, <1>8 DEF Between
    <2>2. a.data # "Listening" /\ a.ctrl = c
      BY <1>5, <1>8, <2>1 DEF Chosen
    <2>3. AppSet(v, x, Host, a) /\ Running(x, Host)
      BY <1>3, <1>7, <1>8
    <2> QED BY <1>1, <1>5, <1>8, <2>1, <2>2, <2>3, HostPingsNow
  <1>9. CASE p # Host
    <2>1. x.app[Host].ctrl = c /\ Running(x, Host) => x.app[c].stats = x.app[Host].pinger.samples
      BY <1>4, <1>9 DEF Running
    <2>2. x.app[Host].ctrl # c => Host \notin Ends(x, c)
      BY <1>1, <1>4, <1>9 DEF Calm, Less, LessLink, Ends
    <2>3. p = c /\ 1 \in 0 .. NumPings
      BY <1>9, SetupAssumption
    <2> QED BY <1>1, <1>3, <1>4, <1>6, <1>7, <2>1, <2>2, <2>3, ClientPingsNow
  <1> QED BY <1>8, <1>9

\* Pinger::gotPong
LEMMA GotPongIsGood ==
    ASSUME NEW w, Good(w), NEW p \in Apps, Running(w, p), NEW origin \in Apps
    PROVE  Good(GotPong(w, p, origin))
  <1>1. w.app[p] \in AppType /\ w \in World
    BY GoodFacts
  <1>2. CASE ~w.app[p].pinger.on
    BY <1>2, PingerSendPingIsGood DEF GotPong
  <1>3. CASE w.app[p].pinger.on
    <2> DEFINE n == w.app[p].pinger.samples[origin] + 1
               a == [w.app[p] EXCEPT !.pinger = [@ EXCEPT !.samples[origin] = n]]
               v == [w EXCEPT !.app[p] = a]
    <2>1. GotPong(w, p, origin) = v
      BY <1>3 DEF GotPong
    <2>2. w.app[p].pinger \in PingerType /\ w.app[p].pinger.samples \in Samples /\ n \in Nat
      BY <1>1 DEF AppType, PingerType, Samples
    <2> HIDE DEF n
    <2>3. [w.app[p].pinger EXCEPT !.samples[origin] = n] \in PingerType
          /\ [w.app[p].pinger EXCEPT !.samples[origin] = n].on
      BY <1>3, <2>2 DEF PingerType, Samples
    <2>4. /\ a \in AppType /\ a.ctrl = w.app[p].ctrl /\ a.data = w.app[p].data /\ a.ui = w.app[p].ui
          /\ a.final = w.app[p].final /\ a.status = w.app[p].status /\ a.stats = w.app[p].stats
          /\ a.peer = w.app[p].peer /\ a.pinger.on /\ a.session = w.app[p].session
          /\ a.confirmed = w.app[p].confirmed
      BY <1>1, <2>3 DEF AppType
    <2> HIDE DEF a
    <2>5. AppSet(v, w, p, a)
      BY <1>1, <2>4, AppSetShape
    <2> HIDE DEF v
    <2>6. CASE p = Host
      <3>1. Running(w, Host) /\ AppSet(v, w, Host, a) /\ w.app[Host].pinger.on
        BY <1>3, <2>5, <2>6
      <3>2. Good(v)
        BY <2>4, <2>6, <3>1, HostGetsPong
      <3> QED BY <2>1, <3>2
    <2>7. CASE p # Host
      <3>1. p \in Clients
        BY <2>7, WhoIsWho
      <3>2. Good(v)
        BY <1>3, <2>4, <2>5, <3>1, ClientGetsPong
      <3> QED BY <2>1, <3>2
    <2> QED BY <2>6, <2>7
  <1> QED BY <1>2, <1>3

\* What a message that was just taken by p from the connection of c says.
Taken(w, p, c, m) ==
    /\ m.type = "VersionConfig" /\ p = Host => NoStats(w, c) /\ ~Untried(w, c) /\ w.app[c].ui = "No"
    /\ m.type = "PingStats" /\ p = Host =>
         /\ w.app[Host].ctrl = c /\ NoStats(w, c) /\ ~Untried(w, c) /\ ~Chosen(w, c)
         /\ ~HostPings(w, c) /\ ~HostAsks(w, c)
         /\ w.app[c].ui # "No" =>
              \A q \in Apps : w.app[c].stats[q] = w.app[Host].pinger.samples[q] + m.samples[q]
    /\ m.type = "PingStats" /\ p # Host =>
         /\ Between(w, c)
         /\ w.app[Host].ctrl = c /\ Running(w, Host) => m.samples = w.app[Host].pinger.samples
         /\ w.app[Host].ctrl # c => Host \notin Ends(w, c)
    /\ m.type = "NetplayConfig" /\ p # Host => w.app[Host].ctrl = c /\ w.app[Host].ui = "Taken"
    /\ m.type = "ConfirmConfig" =>
         p = Host /\ w.app[Host].ctrl = c /\ w.app[c].confirmed /\ w.app[c].final

\* A host that begins anew.
LEMMA NewHostIsTyped ==
    LET n == [NewApp("Player") EXCEPT !.status = "Running"] IN
    /\ n \in AppType /\ n.status = "Running" /\ n.ctrl = None /\ n.ui = "No" /\ ~n.final
    /\ ~n.pinger.on /\ n.peer = None /\ n.data # "Listening"
  <1>1. NoPinger \in PingerType /\ ~NoPinger.on /\ NoSamples \in Samples
    BY SetupAssumption DEF NoPinger, PingerType, NoSamples, Samples
  <1> QED BY <1>1 DEF NewApp, AppType, Roles

\* No more in the control connections than no more.
LinksAreLess(v, w) == \A c \in Clients : LessLink(v.link["ctrl"][c], w.link["ctrl"][c])

\* No more than no more is no more, of control connections.
LEMMA LessLinksIsTransitive ==
    ASSUME NEW u, NEW v, NEW w, LinksAreLess(u, v), LinksAreLess(v, w)
    PROVE  LinksAreLess(u, w)
  BY DEF LinksAreLess, LessLink, Fewer

\* resetHost of x, in which there is less going on than in w: the client that the host had
\* chosen is let go of, or has no statistics under way.
LEMMA ResetHostIsGood ==
    ASSUME NEW w, Good(w), NEW c \in Clients, w.app[Host].ctrl = c, w.app[Host].ui = "No",
           NEW x, Typed(x), x.app = w.app, LinksAreLess(x, w), x.pending \subseteq w.pending \cup {c},
           c \notin x.pending \/ NoStats(w, c)
    PROVE  Good(ResetHost(x, c))
  <1> DEFINE r == Released(x, c)
             n == [NewApp("Player") EXCEPT !.status = "Running"]
             v == [r EXCEPT !.app[Host] = n]
  <1>1. ResetHost(x, c) = v
    BY DEF ResetHost
  <1>2. Calm(r, x) /\ r.app = x.app /\ r.pending = x.pending /\ (c \notin x.pending => Host \notin Ends(r, c))
    BY ReleasedIsCalm
  <1> HIDE DEF r
  <1>3. /\ n \in AppType /\ n.status = "Running" /\ n.ctrl = None /\ n.ui = "No" /\ ~n.final
        /\ ~n.pinger.on /\ n.peer = None /\ n.data # "Listening"
    BY NewHostIsTyped
  <1> HIDE DEF n
  <1>4. r \in World /\ Typed(r) /\ Host \in Apps
    BY <1>2, WhoIsWho DEF Calm, Typed
  <1>5. AppSet(v, r, Host, n)
    BY <1>3, <1>4, AppSetShape
  <1> HIDE DEF v
  <1>6. \A k \in Clients : LessLink(r.link["ctrl"][k], w.link["ctrl"][k])
    <2>1. LinksAreLess(r, x)
      BY <1>2 DEF Calm, Less, LinksAreLess
    <2> QED BY <2>1, LessLinksIsTransitive DEF LinksAreLess
  <1>7. Has(To(w, c, Host), "Open") => c \notin r.pending
    <2>1. Single(w, c)
      BY GoodFacts, WhoIsWho DEF TermsOf
    <2> QED BY <2>1 DEF Single
  <1>8. r.app = w.app /\ r.pending \subseteq w.pending \cup {c} /\ (Host \in Ends(r, c) => NoStats(w, c))
    BY <1>2
  <1>9. Good(v)
    BY <1>3, <1>4, <1>5, <1>6, <1>7, <1>8, HostIsReset
  <1> QED BY <1>1, <1>9

\* gotPingStats, checkDelayAndContinue and mergePingStats of a host.
LEMMA HostGotPingStatsIsGood ==
    ASSUME NEW w, Good(w), Running(w, Host), NEW c \in Clients, NEW m \in Msg, m.type = "PingStats",
           Taken(w, Host, c, m), NEW v \in GotPingStats(w, Host, m)
    PROVE  Good(v)
  <1> DEFINE own == w.app[Host].pinger.samples
             sum == [q \in Apps |-> m.samples[q] + own[q]]
             b == [w.app[Host] EXCEPT !.stats = m.samples]
             t == [w EXCEPT !.app[Host] = b]
             a == [b EXCEPT !.stats = sum]
             u == [t EXCEPT !.app[Host] = a]
             d == [a EXCEPT !.ui = "Asked"]
             g == [u EXCEPT !.app[Host] = d]
             err == [type |-> "ErrorMessage"]
             e == SendCtrl(u, Host, err)
             x == IF Connected(u, Host, "ctrl") THEN [e EXCEPT !.pending = @ \cup {c}] ELSE e
  <1>1. /\ w \in World /\ w.app[Host] \in AppType /\ Host \in Apps /\ Typed(w) /\ HostInOrder(w)
        /\ w.app \in [Apps -> AppType] /\ TermsOf(w, c)
    BY GoodFacts, WhoIsWho
  <1>2. own \in Samples /\ m.samples \in Samples
    BY <1>1, MsgFields DEF AppType, PingerType
  <1>3. sum \in Samples
    BY <1>2 DEF Samples
  <1>4. /\ w.app[Host].ctrl = c /\ NoStats(w, c) /\ ~Untried(w, c) /\ ~Chosen(w, c)
        /\ ~HostPings(w, c) /\ ~HostAsks(w, c) /\ w.app[Host].ui = "No"
        /\ w.app[c].ui # "No" => \A q \in Apps : w.app[c].stats[q] = own[q] + m.samples[q]
    BY DEF Taken, HostAsks
  <1>5. w.app[c].ui # "No" => sum = w.app[c].stats
    <2>1. w.app[c].stats \in Samples
      BY <1>1, WhoIsWho DEF AppType
    <2> QED BY <1>2, <1>4, <2>1 DEF Samples
  <1> HIDE DEF own, sum
  <1>6. /\ b \in AppType /\ a \in AppType /\ d \in AppType
        /\ a.ctrl = c /\ a.data = w.app[Host].data /\ a.peer = w.app[Host].peer /\ a.final = w.app[Host].final
        /\ a.status = w.app[Host].status /\ a.pinger = w.app[Host].pinger /\ a.ui = "No" /\ a.stats = sum
        /\ d.ctrl = c /\ d.data = w.app[Host].data /\ d.peer = w.app[Host].peer /\ d.final = w.app[Host].final
        /\ d.status = w.app[Host].status /\ d.pinger = w.app[Host].pinger /\ d.ui = "Asked" /\ d.stats = sum
    BY <1>1, <1>2, <1>3, <1>4 DEF AppType
  <1>7. AppSet(t, w, Host, b) /\ t.app[Host] = b
    <2> HIDE DEF b
    <2>1. AppSet(t, w, Host, b)
      BY <1>1, <1>6, AppSetShape
    <2> HIDE DEF t
    <2> QED BY <2>1 DEF AppSet
  <1>8. u = MergePingStats(t, Host) /\ g = GetUserConfirmation(u, Host)
    <2>1. t.app[Host].pinger.samples = own /\ t.app[Host].stats = m.samples
      BY <1>1, <1>7 DEF AppType, own
    <2>2. [q \in Apps |-> t.app[Host].stats[q] + t.app[Host].pinger.samples[q]] = sum
      BY <2>1 DEF sum
    <2>3. MergePingStats(t, Host) = [t EXCEPT !.app[Host] = [t.app[Host] EXCEPT !.stats = sum]]
      BY <2>2 DEF MergePingStats
    <2>4. u = MergePingStats(t, Host)
      BY <1>7, <2>3
    <2>5. AppSet(u, t, Host, a)
      <3> HIDE DEF a, t
      <3>1. t \in World
        BY <1>7 DEF AppSet
      <3> QED BY <1>1, <1>6, <3>1, AppSetShape
    <2>6. u.app[Host] = a
      BY <2>5 DEF AppSet
    <2> HIDE DEF u
    <2>7. g = GetUserConfirmation(u, Host)
      BY <2>6 DEF GetUserConfirmation
    <2> QED BY <2>4, <2>7
  <1>9. AppSet(u, w, Host, a) /\ AppSet(g, w, Host, d)
    <2> HIDE DEF a, b, d
    <2>1. AppSet(t, w, Host, b) /\ t \in World
      BY <1>7 DEF AppSet
    <2> HIDE DEF t
    <2>2. AppSet(u, t, Host, a) /\ u \in World
      BY <1>1, <1>6, <2>1, AppSetShape DEF AppSet
    <2> HIDE DEF u
    <2>3. AppSet(g, u, Host, d)
      BY <1>1, <1>6, <2>2, AppSetShape
    <2> QED BY <2>1, <2>2, <2>3 DEF AppSet
  <1>10. v = g \/ v = ResetHost(x, c)
    <2>1. u.app[Host].ctrl = c
      BY <1>6, <1>9 DEF AppSet
    <2>2. v \in CheckDelayAndContinue(u, Host)
      <3>1. t = [w EXCEPT !.app[Host].stats = m.samples]
        OBVIOUS
      <3> HIDE DEF u, t
      <3> QED BY <1>8, <3>1 DEF GotPingStats
    <2> HIDE DEF u, g
    <2> QED BY <1>8, <2>1, <2>2 DEF CheckDelayAndContinue
  <1> HIDE DEF a, b, d, t, u, g
  <1>11. Good(g)
    BY <1>1, <1>4, <1>5, <1>6, <1>9, HostTakesStats
  <1>12. Good(u) /\ Running(u, Host) /\ u.app[Host].ctrl = c /\ u.app[Host].ui = "No" /\ NoStats(u, c)
    <2>1. Good(u)
      BY <1>1, <1>4, <1>6, <1>9, HostTakesStats
    <2>2. NoStats(u, c)
      BY <1>4, <1>9, HostSetFrame
    <2> QED BY <1>1, <1>6, <1>9, <2>1, <2>2 DEF AppSet, Running
  <1>13. Calm(e, u) /\ e.app = u.app /\ Typed(u)
    <2>1. err \in Msg /\ err.type = "ErrorMessage"
      BY DEF Msg
    <2> HIDE DEF err
    <2> QED BY <1>1, <1>12, <2>1, SendCtrlIsCalm, GoodFacts
  <1>14. e.link["ctrl"][c].ends = u.link["ctrl"][c].ends /\ e.pending = u.pending
    <2>1. err \in Msg /\ err.type \notin Telling(OtherEnd(Host, c))
      BY DEF Msg, Telling
    <2> HIDE DEF err
    <2>2. ClientOf(u, Host, "ctrl") = c
      BY <1>12 DEF ClientOf
    <2>3. Sent(e, u, "ctrl", c, OtherEnd(Host, c), err)
      BY <1>13, <2>1, <2>2, SendShape, WhoIsWho DEF SendCtrl
    <2> HIDE DEF e
    <2> QED BY Zenon, <2>3, WhoIsWho DEF Sent
  <1> HIDE DEF e
  <1>15. /\ Typed(x) /\ x.app = u.app /\ x.link = e.link /\ x.pending \subseteq u.pending \cup {c}
    <2>1. e \in World /\ AllWired(e) /\ Alive(e) /\ Waiting(e)
      BY <1>13 DEF Calm, Typed
    <2>2. x \in World /\ x.app = e.app /\ x.link = e.link
          /\ x.pending = IF Connected(u, Host, "ctrl") THEN e.pending \cup {c} ELSE e.pending
      BY <2>1 DEF World
    <2> HIDE DEF x
    <2>3. Connected(u, Host, "ctrl") => Host \in u.link["ctrl"][c].ends
      BY <1>12 DEF Connected, ClientOf
    <2>4. AllWired(x) /\ Alive(x) /\ Waiting(x)
      BY <1>14, <2>1, <2>2, <2>3 DEF AllWired, Alive, Waiting, Ends, Running
    <2> QED BY <1>13, <1>14, <2>2, <2>4 DEF Typed
  <1> HIDE DEF x
  <1>16. Good(ResetHost(x, c))
    <2>1. LinksAreLess(x, u)
      BY <1>13, <1>15 DEF Calm, Less, LinksAreLess
    <2> QED BY <1>12, <1>15, <2>1, ResetHostIsGood
  <1> QED BY <1>10, <1>11, <1>16

\* gotPingStats of a client: its Pinger starts.
LEMMA ClientGotPingStatsIsGood ==
    ASSUME NEW w, Good(w), NEW c \in Clients, Running(w, c), NEW m \in Msg, m.type = "PingStats",
           Taken(w, c, c, m), NEW v \in GotPingStats(w, c, m)
    PROVE  Good(v)
  <1> DEFINE a == [w.app[c] EXCEPT !.stats = m.samples]
             t == [w EXCEPT !.app[c] = a]
  <1>1. c # Host /\ c \in Apps /\ w \in World /\ w.app[c] \in AppType
    BY GoodFacts, WhoIsWho
  <1>2. v = PingerStart(t, c)
    BY <1>1 DEF GotPingStats
  <1>3. m.samples \in Samples
    BY MsgFields
  <1>4. a \in AppType
    BY <1>1, <1>3 DEF AppType
  <1>5. AppSet(t, w, c, a)
    <2> HIDE DEF a
    <2> QED BY <1>1, <1>4, AppSetShape
  <1>6. a.status = w.app[c].status
    BY <1>1 DEF AppType
  <1> HIDE DEF t
  <1>7. /\ Between(w, c)
        /\ w.app[Host].ctrl = c /\ Running(w, Host) => m.samples = w.app[Host].pinger.samples
        /\ w.app[Host].ctrl # c => Host \notin Ends(w, c)
    BY <1>1 DEF Taken
  <1>8. Good(t) /\ Between(t, c) /\ t.app[c].stats = m.samples
    BY <1>3, <1>5, <1>7, ClientTakesStats
  <1> HIDE DEF a
  <1>9. t.app[Host] = w.app[Host] /\ Ends(t, c) = Ends(w, c) /\ Running(t, c)
    BY <1>1, <1>5, <1>6, AppSetQueues, WhoIsWho DEF AppSet, Running
  <1>10. t.app[Host].ctrl = c /\ Running(t, Host) => t.app[c].stats = t.app[Host].pinger.samples
    BY <1>7, <1>8, <1>9 DEF Running
  <1>11. t.app[Host].ctrl # c => Host \notin Ends(t, c)
    BY <1>7, <1>9
  <1>12. Good(PingerStart(t, c))
    BY <1>1, <1>8, <1>9, <1>10, <1>11, PingerStartIsGood
  <1> QED BY <1>2, <1>12

\* gotNetplayConfig
LEMMA GotNetplayConfigIsGood ==
    ASSUME NEW w, Good(w), NEW p \in Apps, NEW c \in Clients, p \in {Host, c}, Running(w, p), NEW m \in Msg,
           m.type = "NetplayConfig", Taken(w, p, c, m)
    PROVE  Good(GotNetplayConfig(w, p, m))
  <1>1. CASE p = Host
    BY <1>1 DEF GotNetplayConfig
  <1>2. CASE p # Host
    <2> DEFINE a == [w.app[c] EXCEPT !.session = 1, !.final = TRUE]
               t == [w EXCEPT !.app[c] = a]
    <2>1. w \in World /\ w.app[c] \in AppType /\ p = c /\ m.session = 1 /\ c \in Apps
      BY <1>2, GoodFacts, MsgFields
    <2>2. GotNetplayConfig(w, p, m) = StartGameIfReady(t, c)
      BY <1>2, <2>1 DEF GotNetplayConfig
    <2>3. a \in AppType /\ a.status = w.app[c].status
      BY <2>1 DEF AppType
    <2>4. AppSet(t, w, c, a)
      <3> HIDE DEF a
      <3> QED BY <2>1, <2>3, AppSetShape
    <2> HIDE DEF t
    <2>5. w.app[Host].ctrl = c /\ w.app[Host].ui = "Taken"
      BY <1>2 DEF Taken
    <2>6. Good(t)
      BY <2>1, <2>4, <2>5, ClientHasConfig
    <2> HIDE DEF a
    <2>7. Running(t, c)
      BY <2>1, <2>3, <2>4 DEF AppSet, Running
    <2> QED BY <2>1, <2>2, <2>6, <2>7, StartIsGood
  <1> QED BY <1>1, <1>2

\* gotConfirmConfig, which only a host has.
LEMMA GotConfirmConfigIsGood ==
    ASSUME NEW w, Good(w), NEW c \in Clients, Running(w, Host), w.app[Host].ctrl = c, w.app[c].confirmed,
           w.app[c].final
    PROVE  Good(GotConfirmConfig(w, Host))
  <1> DEFINE a == [w.app[Host] EXCEPT !.final = TRUE]
             t == [w EXCEPT !.app[Host] = a]
  <1>1. w \in World /\ w.app[Host] \in AppType /\ Host \in Apps
    BY GoodFacts, WhoIsWho
  <1>2. GotConfirmConfig(w, Host) = IF ~w.app[Host].confirmed THEN w ELSE StartGameIfReady(t, Host)
    BY DEF GotConfirmConfig
  <1>3. /\ a \in AppType /\ a.ctrl = w.app[Host].ctrl /\ a.data = w.app[Host].data /\ a.peer = w.app[Host].peer
        /\ a.pinger = w.app[Host].pinger /\ a.stats = w.app[Host].stats /\ a.status = w.app[Host].status
        /\ a.ui = w.app[Host].ui /\ a.final = TRUE
    BY <1>1 DEF AppType
  <1> HIDE DEF a
  <1>4. AppSet(t, w, Host, a)
    BY <1>1, <1>3, AppSetShape
  <1> HIDE DEF t
  <1>5. Good(t)
    BY <1>3, <1>4, HostGoesOn
  <1>6. Running(t, Host)
    BY <1>3, <1>4 DEF AppSet, Running
  <1>7. Good(StartGameIfReady(t, Host))
    BY <1>1, <1>5, <1>6, StartIsGood
  <1> QED BY <1>2, <1>7

\* A queue's message says the same when only the time that is left to the reader changes.
LEMMA TakenIsKept ==
    ASSUME NEW t, NEW w, NEW p \in Apps, NEW c \in Clients, NEW m, Taken(w, p, c, m), NEW a, AppSet(t, w, p, a),
           a.ctrl = w.app[p].ctrl, a.data = w.app[p].data, a.ui = w.app[p].ui, a.pinger = w.app[p].pinger,
           a.status = w.app[p].status, a.stats = w.app[p].stats, a.confirmed = w.app[p].confirmed,
           a.final = w.app[p].final
    PROVE  Taken(t, p, c, m)
  <1>1. /\ Ends(t, c) = Ends(w, c) /\ To(t, c, c) = To(w, c, c) /\ To(t, c, Host) = To(w, c, Host)
    BY AppSetQueues, WhoIsWho
  <1>2. ASSUME NEW q \in Apps
        PROVE  /\ t.app[q].ctrl = w.app[q].ctrl /\ t.app[q].data = w.app[q].data /\ t.app[q].ui = w.app[q].ui
               /\ t.app[q].pinger = w.app[q].pinger /\ t.app[q].status = w.app[q].status
               /\ t.app[q].stats = w.app[q].stats /\ t.app[q].confirmed = w.app[q].confirmed
               /\ t.app[q].final = w.app[q].final
    BY DEF AppSet
  <1>3. /\ NoStats(t, c) <=> NoStats(w, c)
        /\ Untried(t, c) <=> Untried(w, c)
        /\ Chosen(t, c) <=> Chosen(w, c)
        /\ HostPings(t, c) <=> HostPings(w, c)
        /\ HostAsks(t, c) <=> HostAsks(w, c)
    BY <1>1, <1>2, WhoIsWho
       DEF NoStats, HostTells, ClientPings, ClientTells, Untried, Chosen, HostPings, HostAsks
  <1>4. Between(t, c) <=> Between(w, c)
    BY <1>2, <1>3, WhoIsWho DEF Between
  <1>5. Running(t, Host) <=> Running(w, Host)
    BY <1>2, WhoIsWho DEF Running
  <1>6. t.app[Host].ctrl = w.app[Host].ctrl /\ t.app[Host].ui = w.app[Host].ui /\ t.app[c].ui = w.app[c].ui
        /\ t.app[c].stats = w.app[c].stats /\ t.app[Host].pinger = w.app[Host].pinger
        /\ t.app[c].confirmed = w.app[c].confirmed /\ t.app[c].final = w.app[c].final
    BY <1>2, WhoIsWho
  <1> QED BY <1>1, <1>3, <1>4, <1>5, <1>6 DEF Taken

\* socketRead, of a message that p has just taken from the connection of c.
LEMMA SocketReadIsGood ==
    ASSUME NEW w, Good(w), NEW p \in Apps, NEW c \in Clients, p \in {Host, c}, Running(w, p), NEW m \in Msg,
           m.type \notin {"Open", "Closed"}, Taken(w, p, c, m), NEW v \in SocketRead(w, p, c, m)
    PROVE  Good(v)
  <1> DEFINE a == [w.app[p] EXCEPT !.timeout = FALSE]
             t == [w EXCEPT !.app[p] = a]
             err == [type |-> "ErrorMessage"]
             Refused == {t, Send(t, "ctrl", c, Host, err)}
  <1>1. w \in World /\ w.app[p] \in AppType
    BY GoodFacts
  <1>2. /\ a \in AppType /\ a.status = w.app[p].status /\ Quieter(a, w.app[p])
        /\ a.ctrl = w.app[p].ctrl /\ a.data = w.app[p].data /\ a.ui = w.app[p].ui /\ a.pinger = w.app[p].pinger
        /\ a.stats = w.app[p].stats /\ a.confirmed = w.app[p].confirmed /\ a.final = w.app[p].final
    BY <1>1 DEF AppType, Quieter
  <1>3. t = [w EXCEPT !.app[p].timeout = FALSE]
    OBVIOUS
  <1> HIDE DEF a
  <1>4. Good(t) /\ AppSet(t, w, p, a) /\ Running(t, p)
    BY <1>2, SetIsCalm
  <1>5. Taken(t, p, c, m)
    BY <1>2, <1>4, TakenIsKept
  <1>6. t.app[p].ctrl = w.app[p].ctrl
    BY <1>2, <1>4 DEF AppSet
  <1> HIDE DEF t
  <1>7. \A x \in Refused : Good(x)
    <2>1. Typed(t) /\ err \in Msg /\ err.type = "ErrorMessage" /\ \A q : err.type \notin Telling(q)
      BY <1>4 DEF Good, Msg, Telling
    <2> HIDE DEF err
    <2>2. Calm(Send(t, "ctrl", c, Host, err), t)
      BY <2>1, SendShape, WhoIsWho
    <2>3. Good(Send(t, "ctrl", c, Host, err))
      BY <1>4, <2>2, CalmKeepsGood
    <2> QED BY <1>4, <2>3
  <1>8. HostInOrder(t)
    BY <1>4 DEF Good, Terms
  <1>9. CASE m.type = "VersionConfig" /\ (p = Host => w.app[p].ctrl = None) /\ (p # Host => w.app[p].role # "Spectator")
    <2>1. v = GotVersionConfig(t, p, c)
      BY <1>3, <1>9 DEF SocketRead
    <2>2. p = Host => t.app[Host].ctrl = None /\ NoStats(t, c) /\ ~Untried(t, c) /\ t.app[c].ui = "No"
      BY <1>5, <1>6, <1>9 DEF Taken
    <2>3. Good(GotVersionConfig(t, p, c))
      BY <1>4, <2>2, GotVersionConfigIsGood
    <2> QED BY <2>1, <2>3
  <1>10. CASE /\ ~(m.type = "VersionConfig" /\ (p = Host => w.app[p].ctrl = None)
                   /\ (p # Host => w.app[p].role # "Spectator"))
              /\ w.app[p].ctrl = None
    <2>1. v \in Refused
      BY <1>3, <1>10 DEF SocketRead
    <2> QED BY <1>7, <2>1
  <1>11. CASE /\ ~(m.type = "VersionConfig" /\ (p = Host => w.app[p].ctrl = None)
                   /\ (p # Host => w.app[p].role # "Spectator"))
              /\ w.app[p].ctrl # None
    <2> HIDE DEF Refused
    <2>1. p = Host => t.app[Host].ctrl \in Clients
      BY <1>6, <1>8, <1>11 DEF HostInOrder
    <2>2. /\ m.type = "InitialConfig" => v = GotInitialConfig(t, p, m)
          /\ m.type = "PingStats" => v \in GotPingStats(t, p, m)
          /\ m.type = "NetplayConfig" => v = GotNetplayConfig(t, p, m)
          /\ m.type = "ConfirmConfig" => v = GotConfirmConfig(t, p)
          /\ m.type = "ErrorMessage" => v = Stop(t, p)
          /\ m.type = "Ping" => v = GotPong(t, p, m.from)
          /\ m.type = "VersionConfig" => v \in Refused
      BY <1>3, <1>11 DEF SocketRead, Refused
    <2>3. m.type \in {"InitialConfig", "PingStats", "NetplayConfig", "ConfirmConfig", "ErrorMessage", "Ping",
                      "VersionConfig"}
      BY DEF Msg
    <2>4. CASE m.type = "InitialConfig"
      BY <1>4, <2>1, <2>2, <2>4, GotInitialConfigIsGood
    <2>5. CASE m.type = "PingStats"
      <3>1. CASE p = Host
        BY <1>4, <1>5, <2>2, <2>5, <3>1, HostGotPingStatsIsGood
      <3>2. CASE p # Host
        <4>1. p = c
          BY <3>2
        <4> QED BY <1>4, <1>5, <2>2, <2>5, <4>1, ClientGotPingStatsIsGood
      <3> QED BY <3>1, <3>2
    <2>6. CASE m.type = "NetplayConfig"
      BY <1>4, <1>5, <2>2, <2>6, GotNetplayConfigIsGood
    <2>7. CASE m.type = "ConfirmConfig"
      <3>1. p = Host /\ t.app[Host].ctrl = c /\ t.app[c].confirmed /\ t.app[c].final
        BY <1>5, <2>7 DEF Taken
      <3> QED BY <1>4, <2>2, <2>7, <3>1, GotConfirmConfigIsGood
    <2>8. CASE m.type = "ErrorMessage"
      BY <1>4, <2>2, <2>8, StopIsGood
    <2>9. CASE m.type = "Ping"
      BY <1>4, <2>2, <2>9, GotPongIsGood, MsgFields
    <2>10. CASE m.type = "VersionConfig"
      BY <1>7, <2>2, <2>10
    <2> QED BY <2>3, <2>4, <2>5, <2>6, <2>7, <2>8, <2>9, <2>10
  <1> QED BY <1>9, <1>10, <1>11

\* socketAccepted, when the host has taken that the connection of c is there.
LEMMA SocketAcceptedIsGood ==
    ASSUME NEW w, Good(w), NEW kind \in Kinds, NEW c \in Clients, Running(w, Host),
           kind = "ctrl" => Host \in Ends(w, c) /\ w.app[Host].ctrl # c /\ ~Has(To(w, c, Host), "Open")
    PROVE  Good(SocketAccepted(w, kind, c))
  <1>1. /\ w \in World /\ Typed(w) /\ HostInOrder(w) /\ w.app[Host] \in AppType /\ w.pending \subseteq Clients
        /\ Host \in Apps
    BY GoodFacts, WorldFields, WhoIsWho
  <1>2. CASE kind = "ctrl"
    <2> DEFINE x == [w EXCEPT !.pending = @ \cup {c}]
               m == [type |-> "VersionConfig"]
    <2>1. SocketAccepted(w, kind, c) = Send(x, "ctrl", c, Host, m)
      BY <1>2 DEF SocketAccepted
    <2>2. x \in World /\ x.app = w.app /\ x.link = w.link /\ x.pending = w.pending \cup {c}
      BY <1>1 DEF World
    <2> HIDE DEF x
    <2>3. Good(x)
      BY <1>2, <2>2, HostAccepts
    <2>4. m \in Msg /\ m.type \notin Telling(OtherEnd(Host, c))
      BY WhoIsWho DEF Msg, Telling
    <2> HIDE DEF m
    <2>5. Typed(x)
      BY <2>3 DEF Good
    <2>6. Calm(Send(x, "ctrl", c, Host, m), x)
      BY <2>4, <2>5, SendShape, WhoIsWho
    <2>7. Good(Send(x, "ctrl", c, Host, m))
      BY <2>3, <2>6, CalmKeepsGood
    <2> QED BY <2>1, <2>7
  <1>3. CASE kind # "ctrl" /\ Connected(w, Host, "ctrl") /\ w.app[Host].data = "Listening"
    <2> DEFINE d == w.app[Host].ctrl
               a == [w.app[Host] EXCEPT !.data = "Open", !.peer = c]
               t == [w EXCEPT !.app[Host] = a]
    <2>1. SocketAccepted(w, kind, c) = PingerStart(t, Host)
      BY <1>3 DEF SocketAccepted
    <2>2. d \in Clients
      BY <1>1, <1>3 DEF HostInOrder, Connected, ClientOf
    <2>3. TermsOf(w, d) /\ Chosen(w, d)
      BY <1>1, <1>3, <2>2, GoodFacts DEF Chosen
    <2>4. NoStats(w, d) /\ ~Untried(w, d) /\ ~HostPings(w, d) /\ ~HostAsks(w, d) /\ w.app[d].ui = "No"
      BY <2>3 DEF TermsOf, Stages
    <2>5. /\ a \in AppType /\ a.ctrl = d /\ a.data = "Open" /\ a.ui = w.app[Host].ui /\ a.final = w.app[Host].final
          /\ a.status = w.app[Host].status /\ a.pinger = w.app[Host].pinger /\ a.stats = w.app[Host].stats
      BY <1>1 DEF AppType
    <2> HIDE DEF a
    <2>6. AppSet(t, w, Host, a)
      BY <1>1, <2>5, AppSetShape
    <2> HIDE DEF t, d
    <2>7. Good(t)
      BY <2>2, <2>4, <2>5, <2>6, HostPingsNow DEF d
    <2>8. t.app[Host].ctrl = d /\ Running(t, Host)
      BY <2>5, <2>6 DEF AppSet, Running
    <2>9. Between(t, d)
      <3>1. NoStats(t, d) /\ ~Untried(t, d)
        BY <2>2, <2>4, <2>6, HostSetFrame
      <3>2. ~Chosen(t, d) /\ ~HostPings(t, d) /\ ~HostAsks(t, d)
        BY <2>4, <2>5, <2>6 DEF AppSet, Chosen, HostPings, HostAsks, d
      <3>3. t.app[d].ui = "No"
        BY <2>2, <2>4, <2>6, HostSetFrame
      <3> QED BY <3>1, <3>2, <3>3 DEF Between
    <2>10. Good(PingerStart(t, Host))
      BY <1>1, <2>2, <2>7, <2>8, <2>9, PingerStartIsGood
    <2> QED BY <2>1, <2>10
  <1>4. CASE kind # "ctrl" /\ ~(Connected(w, Host, "ctrl") /\ w.app[Host].data = "Listening")
    <2>1. SocketAccepted(w, kind, c) = Close(w, "data", c, Host)
      BY <1>4 DEF SocketAccepted
    <2>2. Calm(Close(w, "data", c, Host), w)
      BY <1>1, CloseIsCalm, WhoIsWho
    <2> QED BY <2>1, <2>2, CalmKeepsGood
  <1> QED BY <1>2, <1>3, <1>4

\* socketConnected, when the client c has taken that its connection is there.
LEMMA SocketConnectedIsGood ==
    ASSUME NEW w, Good(w), NEW kind \in Kinds, NEW c \in Clients, Running(w, c),
           kind = "ctrl" => /\ NoStats(w, c) /\ w.app[Host].ctrl # c /\ w.app[c].ui = "No"
                            /\ ~Has(To(w, c, Host), "VersionConfig") /\ ~Has(To(w, c, c), "Open")
    PROVE  Good(SocketConnected(w, kind, c))
  <1>1. w.app[c] \in AppType /\ c \in Apps /\ c # Host /\ Typed(w)
    BY GoodFacts, WhoIsWho
  <1>2. CASE kind = "ctrl"
    <2> DEFINE m == [type |-> "VersionConfig"]
    <2>1. SocketConnected(w, kind, c) = Send(w, "ctrl", c, c, m)
      BY <1>1, <1>2 DEF SocketConnected, SendCtrl, ClientOf
    <2>2. m \in Msg /\ m.type = "VersionConfig"
      BY DEF Msg
    <2> HIDE DEF m
    <2>3. Sent(Send(w, "ctrl", c, c, m), w, "ctrl", c, Host, m)
      <3>1. Sent(Send(w, "ctrl", c, c, m), w, "ctrl", c, OtherEnd(c, c), m)
        BY <1>1, <2>2, SendShape, WhoIsWho
      <3> QED BY <3>1, WhoIsWho
    <2>4. Good(Send(w, "ctrl", c, c, m))
      BY <1>2, <2>2, <2>3, ClientSends
    <2> QED BY <2>1, <2>4
  <1>3. CASE kind # "ctrl"
    <2> DEFINE a == [w.app[c] EXCEPT !.data = "Open", !.timeout = FALSE]
               t == [w EXCEPT !.app[c] = a]
    <2>1. SocketConnected(w, kind, c) = t
      BY <1>3 DEF SocketConnected
    <2>2. a \in AppType /\ a.status = w.app[c].status /\ a.data = "Open"
      BY <1>1 DEF AppType
    <2>4. Quieter(a, w.app[c])
      <3>1. /\ a.ctrl = w.app[c].ctrl /\ a.final = w.app[c].final /\ a.ui = w.app[c].ui
            /\ a.confirmed = w.app[c].confirmed /\ a.session = w.app[c].session /\ a.stats = w.app[c].stats
            /\ a.peer = w.app[c].peer /\ a.pinger = w.app[c].pinger
        BY <1>1 DEF AppType
      <3> HIDE DEF a
      <3> QED BY <2>2, <3>1 DEF Quieter
    <2> HIDE DEF a
    <2>3. Good(t)
      BY <1>1, <2>2, <2>4, SetIsCalm
    <2> QED BY <2>1, <2>3
  <1> QED BY <1>2, <1>3

\* socketDisconnected, of the connection of c at its end p.
LEMMA DisconnectedIsGood ==
    ASSUME NEW w, Good(w), NEW p \in Apps, NEW kind \in Kinds, NEW c \in Clients, p \in {Host, c}, Running(w, p)
    PROVE  Good(SocketDisconnected(w, p, kind, c))
  <1> DEFINE t == Gone(w, p, kind, c)
  <1>1. w \in World /\ Typed(w) /\ HostInOrder(w) /\ w.app[p].status # "Idle"
    BY GoodFacts
  <1>2. ASSUME NEW pend, pend \subseteq w.pending, kind = "ctrl" /\ p = Host => c \notin pend
        PROVE  LET x == [t EXCEPT !.pending = pend] IN Calm(x, w) /\ x.app = w.app
    BY <1>1, <1>2, GoneIsCalm
  <1>3. t.pending = w.pending /\ t = [t EXCEPT !.pending = t.pending]
    <2>1. w = [app |-> w.app, link |-> w.link, pending |-> w.pending]
      BY <1>1, WorldFields
    <2> QED BY <2>1 DEF Gone
  <1>4. CASE p = Host /\ c # ClientOf(w, p, kind)
    <2> DEFINE pend == IF kind = "ctrl" THEN t.pending \ {c} ELSE t.pending
    <2>1. SocketDisconnected(w, p, kind, c) = [t EXCEPT !.pending = pend]
      BY <1>4 DEF SocketDisconnected
    <2>2. pend \subseteq w.pending /\ (kind = "ctrl" => c \notin pend)
      BY <1>3
    <2> HIDE DEF pend, t
    <2>3. Calm([t EXCEPT !.pending = pend], w)
      BY <1>2, <2>2
    <2> QED BY <2>1, <2>3, CalmKeepsGood
  <1>5. CASE p # Host \/ c = ClientOf(w, p, kind)
    <2>1. kind = "ctrl" /\ p = Host => c \notin w.pending
      <3>1. Single(w, c)
        BY <1>1, GoodFacts DEF TermsOf
      <3> QED BY <1>5, <3>1 DEF ClientOf, Single
    <2>2. Calm(t, w) /\ t.app = w.app
      <3> HIDE DEF t
      <3>1. Calm([t EXCEPT !.pending = w.pending], w) /\ [t EXCEPT !.pending = w.pending].app = w.app
        BY <1>2, <2>1
      <3> QED BY <1>3, <3>1
    <2>3. Good(t) /\ Typed(t) /\ Running(t, p)
      BY <2>2, CalmKeepsGood DEF Calm, Running
    <2>4. CASE p = Host /\ w.app[Host].ui = "No"
      <3> DEFINE d == w.app[Host].ctrl
      <3>1. SocketDisconnected(w, p, kind, c) = ResetHost(t, d)
        BY <1>5, <2>4 DEF SocketDisconnected
      <3>2. d \in Clients
        <4>1. c = d \/ c = w.app[Host].peer
          BY <1>5, <2>4 DEF ClientOf
        <4> QED BY <1>1, <4>1, WhoIsWho DEF HostInOrder
      <3>3. d \notin w.pending
        <4>1. Single(w, d)
          BY <1>1, <3>2, GoodFacts DEF TermsOf
        <4> QED BY <4>1 DEF Single
      <3>4. LinksAreLess(t, w)
        BY <2>2 DEF Calm, Less, LinksAreLess
      <3> HIDE DEF t
      <3>5. Good(ResetHost(t, d))
        BY <1>3, <2>2, <2>3, <2>4, <3>2, <3>3, <3>4, ResetHostIsGood
      <3> QED BY <3>1, <3>5
    <2>5. CASE ~(p = Host /\ w.app[Host].ui = "No")
      <3>1. SocketDisconnected(w, p, kind, c) \in {t, Stop(t, p)}
        BY <1>5, <2>5 DEF SocketDisconnected
      <3>2. Good(Stop(t, p))
        BY <2>3, StopIsGood
      <3> QED BY <2>3, <3>1, <3>2
    <2> QED BY <2>4, <2>5
  <1> QED BY <1>4, <1>5

-----------------------------------------------------------------------------
(* The steps.                                                              *)

\* Everything is as it should be at the beginning.
LEMMA InitIsGood ==
    ASSUME Init
    PROVE  Good(world)
  <1>1. PICK role \in RoleChoices :
          world = [app |-> [p \in Apps |-> IF p = Host THEN [NewApp("Player") EXCEPT !.status = "Running"]
                                           ELSE NewApp(role[p])],
                   link |-> [kind \in Kinds |-> [c \in Clients |-> NoLink]],
                   pending |-> {}]
    BY DEF Init
  <1>2. role \in [Clients -> Roles]
    BY SetupAssumption
  <1>3. /\ world.app[Host] = [NewApp("Player") EXCEPT !.status = "Running"]
        /\ \A c \in Clients : world.app[c] = NewApp(role[c])
        /\ \A c \in Clients, kind \in Kinds : world.link[kind][c] = NoLink
        /\ world.pending = {}
        /\ \A c \in Clients : Ends(world, c) = {}
        /\ \A c \in Clients, p \in Apps : To(world, c, p) = << >>
    BY <1>1, WhoIsWho DEF Ends, To, NoLink
  <1>4. /\ NoPinger \in PingerType /\ ~NoPinger.on /\ NoSamples \in Samples
    BY SetupAssumption DEF NoPinger, PingerType, NoSamples, Samples
  <1>5. ASSUME NEW r \in Roles
        PROVE  /\ NewApp(r) \in AppType /\ NewApp(r).status = "Idle" /\ NewApp(r).ui = "No" /\ ~NewApp(r).final
               /\ ~NewApp(r).confirmed /\ ~NewApp(r).pinger.on
    BY <1>4 DEF NewApp, AppType
  <1>6. NoLink \in LinkType /\ NoLink.ends = {} /\ \A p \in Apps : NoLink.to[p] = << >>
    BY DEF NoLink, LinkType
  <1>7. Typed(world)
    <2>1. world.app \in [Apps -> AppType]
      <3>1. \A p \in Apps : (IF p = Host THEN [NewApp("Player") EXCEPT !.status = "Running"]
                              ELSE NewApp(role[p])) \in AppType
        BY <1>2, <1>5, NewHostIsTyped, WhoIsWho
      <3> QED BY <1>1, <3>1
    <2>2. world \in World
      BY <1>1, <1>6, <2>1 DEF World
    <2>3. AllWired(world)
      BY <1>3, <1>6 DEF AllWired, Wired
    <2>4. Alive(world) /\ Waiting(world)
      BY <1>3, <1>6 DEF Alive, Waiting
    <2> QED BY <2>2, <2>3, <2>4 DEF Typed
  <1>8. HostInOrder(world)
    BY <1>3, NewHostIsTyped DEF HostInOrder
  <1>9. ASSUME NEW c \in Clients PROVE TermsOf(world, c)
    <2>1. /\ world.app[c].status = "Idle" /\ world.app[c].ui = "No" /\ ~world.app[c].final
          /\ ~world.app[c].confirmed /\ ~world.app[c].pinger.on
      BY <1>2, <1>3, <1>5
    <2>2. \A type : /\ ~Has(To(world, c, c), type) /\ ~Has(To(world, c, Host), type)
                    /\ Once(To(world, c, c), type) /\ Once(To(world, c, Host), type)
      BY <1>3, EmptyQueue, WhoIsWho
    <2>3. /\ world.app[Host].ctrl = None /\ ~world.app[Host].pinger.on /\ world.app[Host].ui = "No"
      BY <1>3, NewHostIsTyped
    <2>4. NoStats(world, c) /\ ~Chosen(world, c) /\ ~HostPings(world, c) /\ ~HostAsks(world, c)
      BY <2>1, <2>2, <2>3, WhoIsWho
         DEF NoStats, HostTells, ClientPings, ClientTells, Chosen, HostPings, HostAsks
    <2>5. Stages(world, c)
      BY <2>1, <2>3, <2>4, WhoIsWho DEF Stages, NoStats
    <2>6. Single(world, c)
      BY <1>3, <2>1, <2>2, <2>3, WhoIsWho DEF Single
    <2>7. Deal(world, c) /\ Figures(world, c)
      BY <2>1, <2>2, <2>3, WhoIsWho DEF Deal, Figures
    <2> QED BY <2>5, <2>6, <2>7 DEF TermsOf
  <1> QED BY <1>7, <1>8, <1>9 DEF Good, Terms

\* Begin
LEMMA BeginIsGood ==
    ASSUME Good(world), NEW c \in Clients, Begin(c)
    PROVE  Good(world')
  <1> DEFINE there == Running(world, Host)
             E == IF there THEN {Host, c} ELSE {c}
             m == IF there THEN [type |-> "Open"] ELSE [type |-> "Closed"]
             l == [to |-> Told(E, m), ends |-> E]
             a == [world.app[c] EXCEPT !.status = "Running", !.ctrl = Host,
                                       !.timeout = (world.app[c].role # "Spectator")]
             x == [world EXCEPT !.link["ctrl"][c] = l]
             v == [x EXCEPT !.app[c] = a]
  <1>1. world \in World /\ world.app[c] \in AppType /\ c \in Apps /\ c # Host /\ world.app[c].status = "Idle"
    BY GoodFacts, WhoIsWho DEF Begin
  <1>2. x = Connect(world, "ctrl", c, Running(world, Host))
    BY DEF Connect
  <1>3. /\ a \in AppType /\ a.status = "Running" /\ a.ui = world.app[c].ui /\ a.final = world.app[c].final
        /\ a.pinger = world.app[c].pinger /\ a.confirmed = world.app[c].confirmed
    BY <1>1 DEF AppType
  <1>4. E \in SUBSET {Host, c} /\ m \in Msg /\ m.type \in {"Open", "Closed"}
    BY DEF Msg
  <1>5. l \in LinkType /\ Wired(l, "ctrl", c) /\ l.ends = E
        /\ \A p \in Apps : l.to[p] = IF p \in E THEN << m >> ELSE << >>
    <2> HIDE DEF E, m
    <2>1. l \in LinkType
      BY <1>4, NewLink
    <2>2. Wired(l, "ctrl", c)
      BY <1>4, NewLink
    <2>3. \A p \in Apps : l.to[p] = IF p \in E THEN << m >> ELSE << >>
      BY DEF Told
    <2> QED BY <2>1, <2>2, <2>3
  <1>6. \A type : Has(l.to[c], type) \/ Has(l.to[Host], type) => type \in {"Open", "Closed"}
    <2> HIDE DEF m, l
    <2> QED BY <1>1, <1>4, <1>5, OneMessage, EmptyQueue, WhoIsWho
  <1>7. Once(l.to[c], "Open") /\ Once(l.to[Host], "Open")
    <2> HIDE DEF m, l
    <2> QED BY <1>1, <1>4, <1>5, OneMessage, EmptyQueue, WhoIsWho
  <1>8. Host \in l.ends => Running(world, Host)
    BY <1>1, <1>5, WhoIsWho
  <1>9. world' = v
    <2>1. world' = [Connect(world, "ctrl", c, Running(world, Host)) EXCEPT
                      !.app[c] = [@ EXCEPT !.status = "Running", !.ctrl = Host,
                                           !.timeout = (world.app[c].role # "Spectator")]]
      BY DEF Begin
    <2>2. x.app[c] = world.app[c]
      BY <1>1 DEF World
    <2> HIDE DEF x
    <2> QED BY <1>2, <2>1, <2>2
  <1> HIDE DEF a, l
  <1>10. /\ v \in World /\ v.app = [world.app EXCEPT ![c] = a]
         /\ v.link = [world.link EXCEPT !["ctrl"][c] = l] /\ v.pending = world.pending
    BY <1>1, <1>3, <1>5, WhoIsWho DEF World
  <1> HIDE DEF v
  <1>11. Good(v)
    BY <1>1, <1>3, <1>5, <1>6, <1>7, <1>8, <1>10, ClientBegins
  <1> QED BY <1>9, <1>11

\* What a control message to p says when it is the next one.
LEMMA NextMessage ==
    ASSUME NEW v, Good(v), NEW w, Calm(w, v), w.app = v.app, NEW c \in Clients, NEW p \in {Host, c},
           To(v, c, p) # << >>, To(w, c, p) = Tail(To(v, c, p)),
           \A q \in Apps : q # p => To(w, c, q) = To(v, c, q), Ends(w, c) = Ends(v, c)
    PROVE  LET m == Head(To(v, c, p)) IN
           /\ m \in Msg /\ Taken(w, p, c, m)
           /\ m.type = "Open" /\ p = Host =>
                Host \in Ends(w, c) /\ w.app[Host].ctrl # c /\ ~Has(To(w, c, Host), "Open")
           /\ m.type = "Open" /\ p # Host =>
                /\ NoStats(w, c) /\ w.app[Host].ctrl # c /\ w.app[c].ui = "No"
                /\ ~Has(To(w, c, Host), "VersionConfig") /\ ~Has(To(w, c, c), "Open")
  <1> DEFINE m == Head(To(v, c, p))
  <1>1. /\ p \in Apps /\ Host # c /\ c \in Apps /\ Typed(v) /\ v \in World /\ TermsOf(v, c)
        /\ To(v, c, p) \in Seq(Msg)
    BY GoodFacts, WhoIsWho, WorldFields
  <1>2. /\ m \in Msg
        /\ \A type : m.type = type => Has(To(v, c, p), type)
        /\ \A type : m.type = type /\ Once(To(v, c, p), type) => ~Has(To(w, c, p), type)
        /\ m.type = "PingStats" => m.samples \in StatsIn(To(v, c, p))
    BY <1>1, TailQueue
  <1> HIDE DEF m
  <1>3. LessLink(w.link["ctrl"][c], v.link["ctrl"][c])
    BY DEF Calm, Less
  <1>4. /\ \A type \in {"Open", "PingStats"} : Has(To(w, c, c), type) => Has(To(v, c, c), type)
        /\ \A type \in {"Open", "VersionConfig", "PingStats"} :
             Has(To(w, c, Host), type) => Has(To(v, c, Host), type)
    BY <1>3, LessInQueues
  <1>5. p \in Ends(v, c)
    BY <1>1, ToldRuns
  <1>6. /\ HostTells(w, c) => HostTells(v, c)
        /\ ClientTells(w, c) => ClientTells(v, c)
        /\ ClientPings(w, c) <=> ClientPings(v, c)
        /\ Untried(w, c) => Untried(v, c)
        /\ Chosen(w, c) <=> Chosen(v, c)
        /\ HostPings(w, c) <=> HostPings(v, c)
        /\ HostAsks(w, c) <=> HostAsks(v, c)
    BY <1>4 DEF HostTells, ClientTells, ClientPings, Untried, Chosen, HostPings, HostAsks
  <1>7. Stages(v, c) /\ Single(v, c) /\ Deal(v, c) /\ Figures(v, c)
    BY <1>1 DEF TermsOf
  <1>8. NoStats(v, c) => NoStats(w, c)
    BY <1>6 DEF NoStats
  <1>9. ASSUME m.type = "VersionConfig", p = Host
        PROVE  NoStats(w, c) /\ ~Untried(w, c) /\ w.app[c].ui = "No"
    <2>1. Has(To(v, c, Host), "VersionConfig") /\ ~Has(To(w, c, Host), "VersionConfig")
      BY <1>2, <1>7, <1>9 DEF Single
    <2>2. Untried(v, c)
      BY <2>1 DEF Untried
    <2>3. ~Has(To(w, c, c), "Open") /\ w.app[c].status # "Idle"
      BY <1>4, <1>5, <1>7, <1>9, <2>1 DEF Single
    <2> QED BY <1>7, <1>8, <2>1, <2>2, <2>3 DEF Stages, Untried
  <1>10. ASSUME m.type = "PingStats", p = Host
         PROVE  /\ w.app[Host].ctrl = c /\ NoStats(w, c) /\ ~Untried(w, c) /\ ~Chosen(w, c)
                /\ ~HostPings(w, c) /\ ~HostAsks(w, c)
                /\ w.app[c].ui # "No" =>
                     \A q \in Apps : w.app[c].stats[q] = w.app[Host].pinger.samples[q] + m.samples[q]
    <2>1. ClientTells(v, c) /\ ~ClientTells(w, c)
      BY <1>2, <1>7, <1>10 DEF Single, ClientTells
    <2>2. ~NoStats(v, c)
      BY <2>1 DEF NoStats
    <2>3. w.app[Host].ctrl = c
      BY <1>5, <1>7, <1>10, <2>2 DEF Stages
    <2>4. ~HostTells(v, c) /\ ~ClientPings(v, c) /\ ~Untried(v, c) /\ ~Chosen(v, c) /\ ~HostPings(v, c)
          /\ ~HostAsks(v, c)
      BY <1>7, <2>1, <2>2 DEF Stages
    <2>5. NoStats(w, c)
      BY <1>6, <2>1, <2>4 DEF NoStats
    <2>6. w.app[c].ui # "No" =>
            \A q \in Apps : w.app[c].stats[q] = w.app[Host].pinger.samples[q] + m.samples[q]
      BY <1>2, <1>7, <1>10, <2>3 DEF Figures
    <2> QED BY <1>6, <2>3, <2>4, <2>5, <2>6
  <1>11. ASSUME m.type = "PingStats", p # Host
         PROVE  /\ Between(w, c)
                /\ w.app[Host].ctrl = c /\ Running(w, Host) => m.samples = w.app[Host].pinger.samples
                /\ w.app[Host].ctrl # c => Host \notin Ends(w, c)
    <2>1. p = c
      BY <1>11
    <2>2. HostTells(v, c) /\ ~HostTells(w, c)
      BY <1>2, <1>7, <1>11, <2>1 DEF Single, HostTells
    <2>3. ~NoStats(v, c)
      BY <2>2 DEF NoStats
    <2>4. ~ClientTells(v, c) /\ ~ClientPings(v, c) /\ ~Untried(v, c) /\ ~Chosen(v, c) /\ ~HostPings(v, c)
          /\ ~HostAsks(v, c) /\ v.app[c].ui = "No"
      BY <1>7, <2>2, <2>3 DEF Stages
    <2>5. Between(w, c)
      BY <1>6, <2>2, <2>4 DEF Between, NoStats
    <2>6. w.app[Host].ctrl = c /\ Running(w, Host) => m.samples = w.app[Host].pinger.samples
      BY <1>2, <1>7, <1>11, <2>1 DEF Figures, Running
    <2>7. w.app[Host].ctrl # c => Host \notin Ends(w, c)
      BY <1>7, <2>3 DEF Stages
    <2> QED BY <2>5, <2>6, <2>7
  <1>12. ASSUME m.type = "NetplayConfig", p # Host PROVE w.app[Host].ctrl = c /\ w.app[Host].ui = "Taken"
    <2>1. p = c
      BY <1>12
    <2>2. Has(To(v, c, c), "NetplayConfig")
      BY <1>2, <1>12, <2>1
    <2> QED BY <1>7, <2>2 DEF Deal
  <1>13. ASSUME m.type = "ConfirmConfig"
         PROVE  p = Host /\ w.app[Host].ctrl = c /\ w.app[c].confirmed /\ w.app[c].final
    <2>1. Has(To(v, c, p), "ConfirmConfig")
      BY <1>2, <1>13
    <2>2. p = Host
      BY <1>7, <2>1 DEF Deal
    <2> QED BY <1>7, <2>1, <2>2 DEF Deal
  <1>14. Taken(w, p, c, m)
    BY <1>9, <1>10, <1>11, <1>12, <1>13 DEF Taken
  <1>15. ASSUME m.type = "Open", p = Host
         PROVE  Host \in Ends(w, c) /\ w.app[Host].ctrl # c /\ ~Has(To(w, c, Host), "Open")
    BY <1>2, <1>5, <1>7, <1>15 DEF Single
  <1>16. ASSUME m.type = "Open", p # Host
         PROVE  /\ NoStats(w, c) /\ w.app[Host].ctrl # c /\ w.app[c].ui = "No"
                /\ ~Has(To(w, c, Host), "VersionConfig") /\ ~Has(To(w, c, c), "Open")
    <2>1. p = c
      BY <1>16
    <2>2. Has(To(v, c, c), "Open") /\ ~Has(To(w, c, c), "Open")
      BY <1>2, <1>7, <1>16, <2>1 DEF Single
    <2>3. Untried(v, c) /\ ~Has(To(v, c, Host), "VersionConfig")
      BY <1>7, <2>2 DEF Single, Untried
    <2> QED BY <1>4, <1>7, <1>8, <2>2, <2>3 DEF Stages
  <1> QED BY <1>2, <1>14, <1>15, <1>16 DEF m

\* PingTimer, while pings are to be sent.
LEMMA AnotherPingIsGood ==
    ASSUME NEW w, Good(w), NEW p \in Apps, Running(w, p), w.app[p].pinger.count < NumPings,
           NEW x, x = PingerSendPing(w, p, p)
    PROVE  Good(IF Running(x, p) THEN [x EXCEPT !.app[p].pinger.count = @ + 1] ELSE x)
  <1>1. Good(x) /\ (Running(x, p) => x.app = w.app)
    BY PingerSendPingIsGood
  <1>2. SUFFICES ASSUME Running(x, p) PROVE Good([x EXCEPT !.app[p].pinger.count = @ + 1])
    BY <1>1
  <1> DEFINE n == x.app[p].pinger.count + 1
             pinger == [x.app[p].pinger EXCEPT !.count = n]
             a == [x.app[p] EXCEPT !.pinger = pinger]
             v == [x EXCEPT !.app[p] = a]
  <1>3. v = [x EXCEPT !.app[p].pinger.count = @ + 1]
    OBVIOUS
  <1>4. x.app[p] \in AppType /\ x.app[p].pinger \in PingerType /\ x.app[p].pinger.count < NumPings
    BY <1>1, <1>2, GoodFacts DEF AppType
  <1>5. n \in 0 .. NumPings
    BY <1>4, SetupAssumption DEF PingerType
  <1> HIDE DEF n
  <1>6. /\ pinger \in PingerType /\ pinger.on = x.app[p].pinger.on /\ pinger.samples = x.app[p].pinger.samples
    BY <1>4, <1>5 DEF PingerType
  <1> HIDE DEF pinger
  <1>7. a \in AppType /\ a.status = x.app[p].status /\ Quieter(a, x.app[p])
    BY <1>4, <1>6 DEF AppType, Quieter
  <1> HIDE DEF a
  <1>8. Good(v)
    BY <1>1, <1>2, <1>7, SetIsCalm
  <1> QED BY <1>3, <1>8

\* The Pinger that is over.
LEMMA PingerIsOver ==
    ASSUME NEW b \in AppType
    PROVE  LET a == [b EXCEPT !.pinger = [@ EXCEPT !.on = FALSE, !.count = 0]] IN
           /\ a \in AppType /\ a.ctrl = b.ctrl /\ a.data = b.data /\ a.peer = b.peer /\ a.final = b.final
           /\ a.status = b.status /\ ~a.pinger.on /\ a.pinger.samples = b.pinger.samples /\ a.ui = b.ui
           /\ a.stats = b.stats /\ a.session = b.session /\ a.confirmed = b.confirmed
           /\ a.role = b.role /\ a.ready = b.ready
  <1> DEFINE pinger == [b.pinger EXCEPT !.on = FALSE, !.count = 0]
             a == [b EXCEPT !.pinger = pinger]
  <1>1. b.pinger \in PingerType /\ 0 \in 0 .. NumPings
    BY SetupAssumption DEF AppType
  <1>2. pinger \in PingerType /\ ~pinger.on /\ pinger.samples = b.pinger.samples
    BY Zenon, <1>1 DEF PingerType
  <1> HIDE DEF pinger
  <1>3. /\ a \in AppType /\ a.ctrl = b.ctrl /\ a.data = b.data /\ a.peer = b.peer /\ a.final = b.final
        /\ a.status = b.status /\ ~a.pinger.on /\ a.pinger.samples = b.pinger.samples /\ a.ui = b.ui
        /\ a.stats = b.stats /\ a.session = b.session /\ a.confirmed = b.confirmed
        /\ a.role = b.role /\ a.ready = b.ready
    BY <1>2 DEF AppType
  <1> QED BY <1>3 DEF pinger

\* PingTimer, of a host that has sent its pings.
LEMMA HostPingsNoMore ==
    ASSUME NEW w, Good(w), Running(w, Host), w.app[Host].pinger.on
    PROVE  Good([SendCtrl(w, Host, [type |-> "PingStats", samples |-> w.app[Host].pinger.samples])
                   EXCEPT !.app[Host].pinger = [@ EXCEPT !.on = FALSE, !.count = 0]])
  <1> DEFINE c == w.app[Host].ctrl
             m == [type |-> "PingStats", samples |-> w.app[Host].pinger.samples]
             x == SendCtrl(w, Host, m)
             a == [w.app[Host] EXCEPT !.pinger = [@ EXCEPT !.on = FALSE, !.count = 0]]
             v == [x EXCEPT !.app[Host].pinger = [@ EXCEPT !.on = FALSE, !.count = 0]]
  <1>1. /\ w \in World /\ Typed(w) /\ HostInOrder(w) /\ w.app[Host] \in AppType /\ Host \in Apps
    BY GoodFacts, WhoIsWho
  <1>2. c \in Clients /\ HostPings(w, c)
    BY <1>1 DEF HostInOrder, HostPings
  <1>3. m \in Msg /\ m.type = "PingStats" /\ m.samples = w.app[Host].pinger.samples
    BY <1>1 DEF Msg, AppType, PingerType
  <1> HIDE DEF m
  <1>4. Sent(x, w, "ctrl", c, c, m)
    <2> DEFINE k == ClientOf(w, Host, "ctrl")
    <2>1. k = c /\ OtherEnd(Host, k) = c
      BY <1>2, WhoIsWho DEF ClientOf
    <2>2. Sent(x, w, "ctrl", k, OtherEnd(Host, k), m)
      BY <1>1, <1>2, <1>3, SendCtrlShape
    <2> QED BY <2>1, <2>2
  <1>5. x \in World /\ x.app = w.app
    BY Zenon, <1>4 DEF Sent, Typed
  <1> HIDE DEF x
  <1>6. /\ a \in AppType /\ a.ctrl = c /\ a.data = w.app[Host].data /\ a.peer = w.app[Host].peer
        /\ a.final = w.app[Host].final /\ a.status = w.app[Host].status /\ ~a.pinger.on
        /\ a.pinger.samples = w.app[Host].pinger.samples /\ a.ui = w.app[Host].ui /\ a.stats = w.app[Host].stats
    BY <1>1, PingerIsOver
  <1>7. v = [x EXCEPT !.app[Host] = a]
    BY <1>5
  <1> HIDE DEF a, v
  <1>8. AppSet(v, x, Host, a)
    BY <1>1, <1>5, <1>6, <1>7, AppSetShape
  <1>9. Good(v)
    BY <1>2, <1>3, <1>4, <1>6, <1>8, HostTellsStats
  <1> QED BY <1>9 DEF v, x, m

\* Samples are added.
LEMMA SamplesAdd ==
    ASSUME NEW s \in Samples, NEW r \in Samples
    PROVE  [q \in Apps |-> s[q] + r[q]] \in Samples
  BY DEF Samples

\* The client c was b; it has added its own samples to the statistics, and its Pinger is over.
CountedBy(a, b) ==
    /\ a \in AppType /\ a.role = b.role /\ a.status = b.status /\ a.ctrl = b.ctrl /\ a.data = b.data
    /\ a.ready = b.ready /\ a.final = b.final /\ a.session = b.session /\ a.confirmed = b.confirmed /\ ~a.pinger.on
    /\ \A q \in Apps : a.stats[q] = b.stats[q] + b.pinger.samples[q]

\* v is x but that c has counted, and either asks its user or stops; in w it has not counted.
ClientCounted(v, x, w, c) ==
    \E u, g, a, d : /\ AppSet(u, x, c, a) /\ CountedBy(a, w.app[c]) /\ a.ui = "No"
                    /\ AppSet(g, x, c, d) /\ CountedBy(d, w.app[c]) /\ d.ui = "Asked"
                    /\ v \in {g, Stop(u, c)}

\* What the PingTimer of a client that has sent its pings comes to, with mergePingStats and
\* checkDelayAndContinue.
LEMMA ClientCounts ==
    ASSUME NEW w, Good(w), NEW c \in Clients, Running(w, c), w.app[c].pinger.on,
           NEW m, m = [type |-> "PingStats", samples |-> w.app[c].pinger.samples],
           NEW x, x = SendCtrl(w, c, m),
           NEW t, t = [x EXCEPT !.app[c].pinger = [@ EXCEPT !.on = FALSE, !.count = 0]],
           NEW v \in CheckDelayAndContinue(MergePingStats(t, c), c)
    PROVE  Sent(x, w, "ctrl", c, Host, m) /\ m \in Msg /\ ClientCounted(v, x, w, c)
  <1> DEFINE b == [w.app[c] EXCEPT !.pinger = [@ EXCEPT !.on = FALSE, !.count = 0]]
             sum == [q \in Apps |-> w.app[c].stats[q] + w.app[c].pinger.samples[q]]
             a == [b EXCEPT !.stats = sum]
             u == [t EXCEPT !.app[c] = a]
             d == [a EXCEPT !.ui = "Asked"]
             g == [u EXCEPT !.app[c] = d]
  <1>1. /\ w \in World /\ Typed(w) /\ w.app[c] \in AppType /\ c \in Apps /\ c # Host /\ TermsOf(w, c)
    BY Zenon, GoodFacts, WhoIsWho
  <1>2. ClientPings(w, c) /\ w.app[c].ui = "No"
    BY Zenon, <1>1 DEF ClientPings, TermsOf, Stages
  <1>3. m \in Msg
    BY Zenon, <1>1 DEF Msg, AppType, PingerType
  <1>4. Sent(x, w, "ctrl", c, Host, m)
    <2> DEFINE k == ClientOf(w, c, "ctrl")
    <2>1. k = c /\ OtherEnd(c, k) = Host /\ Sent(x, w, "ctrl", k, OtherEnd(c, k), m)
      BY Zenon, <1>1, <1>3, SendCtrlShape
    <2> QED BY Zenon, <2>1
  <1>5. x \in World /\ x.app = w.app
    BY Zenon, <1>4 DEF Sent, Typed
  <1>6. sum \in Samples
    <2>1. w.app[c].stats \in Samples /\ w.app[c].pinger.samples \in Samples
      BY Zenon, <1>1 DEF AppType, PingerType
    <2> QED BY Zenon, <2>1, SamplesAdd
  <1>7. /\ b \in AppType /\ b.role = w.app[c].role /\ b.status = w.app[c].status /\ b.ctrl = w.app[c].ctrl
        /\ b.data = w.app[c].data /\ b.ready = w.app[c].ready /\ b.final = w.app[c].final
        /\ b.session = w.app[c].session /\ b.confirmed = w.app[c].confirmed /\ ~b.pinger.on
        /\ b.pinger.samples = w.app[c].pinger.samples /\ b.ui = "No" /\ b.stats = w.app[c].stats
    BY Zenon, <1>1, <1>2, PingerIsOver
  <1>8. t = [x EXCEPT !.app[c] = b]
    BY Zenon, <1>5
  <1> HIDE DEF b
  <1>9. \A q \in Apps : sum[q] = w.app[c].stats[q] + w.app[c].pinger.samples[q]
    BY Zenon
  <1> HIDE DEF sum
  <1>10. CountedBy(a, w.app[c]) /\ a.ui = "No" /\ a.stats = sum
    BY Zenon, <1>6, <1>7, <1>9 DEF CountedBy, AppType
  <1> HIDE DEF a
  <1>11. CountedBy(d, w.app[c]) /\ d.ui = "Asked"
    BY Zenon, <1>10 DEF CountedBy, AppType
  <1> HIDE DEF d
  <1>12. AppSet(t, x, c, b) /\ t \in World /\ t.app[c] = b
    <2>1. AppSet([x EXCEPT !.app[c] = b], x, c, b)
      BY Zenon, <1>1, <1>5, <1>7, AppSetShape
    <2> QED BY Zenon, <1>8, <2>1 DEF AppSet
  <1>13. AppSet(u, t, c, a) /\ u \in World /\ u.app[c] = a
    <2>1. AppSet(u, t, c, a)
      BY Zenon, <1>1, <1>10, <1>12, AppSetShape DEF CountedBy
    <2> QED BY Zenon, <2>1 DEF AppSet
  <1>14. u = MergePingStats(t, c)
    <2>1. [q \in Apps |-> t.app[c].stats[q] + t.app[c].pinger.samples[q]] = sum
      <3>1. t.app[c].stats = w.app[c].stats /\ t.app[c].pinger.samples = w.app[c].pinger.samples
        BY Zenon, <1>7, <1>12
      <3> QED BY ONLY <3>1 DEF sum
    <2>2. MergePingStats(t, c) = [t EXCEPT !.app[c] = [t.app[c] EXCEPT !.stats = sum]]
      BY Zenon, <2>1 DEF MergePingStats
    <2> QED BY Zenon, <1>12, <2>2 DEF a
  <1> HIDE DEF u
  <1>15. AppSet(g, u, c, d)
    BY Zenon, <1>1, <1>11, <1>13, AppSetShape DEF CountedBy
  <1>16. g = GetUserConfirmation(u, c)
    BY Zenon, <1>13 DEF GetUserConfirmation, d
  <1> HIDE DEF g
  <1>17. AppSet(u, x, c, a) /\ AppSet(g, x, c, d)
    BY Zenon, <1>12, <1>13, <1>15 DEF AppSet
  <1>18. v \in {g, Stop(u, c)}
    BY Zenon, <1>1, <1>14, <1>16 DEF CheckDelayAndContinue
  <1>19. ClientCounted(v, x, w, c)
    BY Zenon, <1>10, <1>11, <1>17, <1>18 DEF ClientCounted
  <1> QED BY Zenon, <1>3, <1>4, <1>19

\* PingTimer, of a client that has sent its pings.
LEMMA ClientPingsNoMore ==
    ASSUME NEW w, Good(w), NEW c \in Clients, Running(w, c), w.app[c].pinger.on,
           NEW t, t = [SendCtrl(w, c, [type |-> "PingStats", samples |-> w.app[c].pinger.samples])
                         EXCEPT !.app[c].pinger = [@ EXCEPT !.on = FALSE, !.count = 0]],
           NEW v \in CheckDelayAndContinue(MergePingStats(t, c), c)
    PROVE  Good(v)
  <1> DEFINE m == [type |-> "PingStats", samples |-> w.app[c].pinger.samples]
             x == SendCtrl(w, c, m)
  <1>1. Good(w) /\ c \in Clients /\ Running(w, c) /\ ClientPings(w, c) /\ c \in Apps
    BY Zenon, WhoIsWho DEF ClientPings
  <1>2. Sent(x, w, "ctrl", c, Host, m) /\ m \in Msg /\ ClientCounted(v, x, w, c)
    BY Zenon, ClientCounts
  <1>3. m.type = "PingStats" /\ m.samples = w.app[c].pinger.samples
    BY Zenon
  <1> HIDE DEF m, x
  <1>4. PICK u, g, a, d : /\ AppSet(u, x, c, a) /\ CountedBy(a, w.app[c]) /\ a.ui = "No"
                          /\ AppSet(g, x, c, d) /\ CountedBy(d, w.app[c]) /\ d.ui = "Asked"
                          /\ v \in {g, Stop(u, c)}
    BY Zenon, <1>2 DEF ClientCounted
  <1>5. ASSUME NEW y, NEW b, AppSet(y, x, c, b), CountedBy(b, w.app[c]), b.ui \in {"No", "Asked"}
        PROVE  Good(y)
    <2>1. /\ b.status = w.app[c].status /\ b.final = w.app[c].final /\ b.session = w.app[c].session
          /\ b.confirmed = w.app[c].confirmed /\ ~b.pinger.on
          /\ \A q \in Apps : b.stats[q] = w.app[c].stats[q] + w.app[c].pinger.samples[q]
      BY Zenon, <1>5 DEF CountedBy
    <2> QED BY ONLY Good(w), c \in Clients, Running(w, c), <1>1, <1>2, <1>3, <1>5, <2>1, ClientTellsStats
  <1>6. Running(u, c)
    BY Zenon, <1>1, <1>4 DEF AppSet, CountedBy, Running
  <1>7. Good(u) /\ Good(g)
    BY Zenon, <1>4, <1>5
  <1>8. Good(Stop(u, c))
    BY Zenon, <1>1, <1>6, <1>7, StopIsGood
  <1> QED BY Zenon, <1>4, <1>7, <1>8

\* PingTimer
LEMMA PingTimerIsGood ==
    ASSUME Good(world), NEW p \in Apps, PingTimer(p)
    PROVE  Good(world')
  <1> DEFINE m == [type |-> "PingStats", samples |-> world.app[p].pinger.samples]
             t == [SendCtrl(world, p, m) EXCEPT !.app[p].pinger = [@ EXCEPT !.on = FALSE, !.count = 0]]
  <1>1. world.app[p].pinger.on /\ Running(world, p)
    BY Zenon DEF PingTimer
  <1>2. CASE /\ world.app[p].pinger.count < NumPings
             /\ \E x \in {PingerSendPing(world, p, p)} :
                  world' = IF Running(x, p) THEN [x EXCEPT !.app[p].pinger.count = @ + 1] ELSE x
    BY <1>1, <1>2, AnotherPingIsGood
  <1>3. CASE world' \in IF p = Host THEN {t} ELSE CheckDelayAndContinue(MergePingStats(t, p), p)
    <2>1. CASE p = Host
      <3>1. world' = [SendCtrl(world, Host, [type |-> "PingStats", samples |-> world.app[Host].pinger.samples])
                        EXCEPT !.app[Host].pinger = [@ EXCEPT !.on = FALSE, !.count = 0]]
        BY <1>3, <2>1
      <3>2. Good([SendCtrl(world, Host, [type |-> "PingStats", samples |-> world.app[Host].pinger.samples])
                    EXCEPT !.app[Host].pinger = [@ EXCEPT !.on = FALSE, !.count = 0]])
        BY <1>1, <2>1, HostPingsNoMore
      <3> QED BY <3>1, <3>2, Zenon
    <2>2. CASE p # Host
      <3>1. p \in Clients
        BY <2>2, WhoIsWho
      <3> QED BY Zenon, <1>1, <1>3, <2>2, <3>1, ClientPingsNoMore
    <2> QED BY <2>1, <2>2
  <1> QED BY Zenon, <1>2, <1>3 DEF PingTimer

\* Answer
LEMMA AnswerIsGood ==
    ASSUME Good(world), NEW p \in Apps, Answer(p)
    PROVE  Good(world')
  <1>1. PICK yes \in BOOLEAN : world' = [world EXCEPT !.app[p] = [@ EXCEPT !.ui = "Answered", !.confirmed = yes]]
    BY DEF Answer
  <1> DEFINE a == [world.app[p] EXCEPT !.ui = "Answered", !.confirmed = yes]
             v == [world EXCEPT !.app[p] = a]
  <1>2. /\ world \in World /\ world.app[p] \in AppType /\ Running(world, p) /\ world.app[p].ui = "Asked"
    BY GoodFacts DEF Answer
  <1>3. /\ a \in AppType /\ a.ctrl = world.app[p].ctrl /\ a.data = world.app[p].data /\ a.peer = world.app[p].peer
        /\ a.pinger = world.app[p].pinger /\ a.stats = world.app[p].stats /\ a.status = world.app[p].status
        /\ a.ui = "Answered" /\ a.final = world.app[p].final
    BY <1>2 DEF AppType
  <1>4. AppSet(v, world, p, a)
    <2> HIDE DEF a
    <2> QED BY <1>2, <1>3, AppSetShape
  <1>5. world' = v
    BY <1>1
  <1> HIDE DEF v
  <1>6. CASE p = Host
    <2> HIDE DEF a
    <2>1. AppSet(v, world, Host, a) /\ Running(world, Host) /\ world.app[Host].ui = "Asked"
      BY <1>2, <1>4, <1>6
    <2>2. Good(v)
      BY <1>3, <1>6, <2>1, HostGoesOn
    <2> QED BY <1>5, <2>2
  <1>7. CASE p # Host
    <2>1. p \in Clients
      BY <1>7, WhoIsWho
    <2>2. Good(v)
      BY <1>2, <1>4, <2>1, ClientAnswers
    <2> QED BY <1>5, <2>2
  <1> QED BY <1>6, <1>7

\* GotUserConfirmation
LEMMA ConfirmationIsGood ==
    ASSUME Good(world), NEW p \in Apps, GotUserConfirmation(p)
    PROVE  Good(world')
  <1> DEFINE a == [world.app[p] EXCEPT !.ui = "Taken"]
             w == [world EXCEPT !.app[p] = a]
             b == [w.app[Host] EXCEPT !.session = 1]
             t == [w EXCEPT !.app[Host] = b]
             m == [type |-> "NetplayConfig", session |-> 1]
             x == SendCtrl(t, Host, m)
  <1>1. /\ world \in World /\ world.app[p] \in AppType /\ Running(world, p) /\ world.app[p].ui = "Answered"
    BY GoodFacts DEF GotUserConfirmation
  <1>2. /\ a \in AppType /\ a.ctrl = world.app[p].ctrl /\ a.data = world.app[p].data /\ a.peer = world.app[p].peer
        /\ a.pinger = world.app[p].pinger /\ a.stats = world.app[p].stats /\ a.status = world.app[p].status
        /\ a.ui = "Taken" /\ a.final = world.app[p].final
    BY <1>1 DEF AppType
  <1>3. AppSet(w, world, p, a)
    <2> HIDE DEF a
    <2> QED BY <1>1, <1>2, AppSetShape
  <1>4. world' = IF ~w.app[p].confirmed \/ ~Connected(w, p, "ctrl") THEN Stop(w, p)
                 ELSE IF p # Host THEN StartGameIfReady(w, p)
                 ELSE StartGameIfReady(SendCtrl([w EXCEPT !.app[Host].session = 1], p,
                                                [type |-> "NetplayConfig", session |-> 1]), p)
    BY DEF GotUserConfirmation
  <1> HIDE DEF w
  <1>5. Good(w)
    <2>1. CASE p = Host
      <3> HIDE DEF a
      <3>1. AppSet(w, world, Host, a) /\ Running(world, Host) /\ world.app[Host].ui = "Answered"
        BY <1>1, <1>3, <2>1
      <3> QED BY <1>2, <2>1, <3>1, HostGoesOn
    <2>2. CASE p # Host
      <3>1. p \in Clients /\ world.app[p].ui # "No"
        BY <1>1, <2>2, WhoIsWho
      <3> QED BY <1>1, <1>3, <3>1, ClientTakesAnswer
    <2> QED BY <2>1, <2>2
  <1>6. Running(w, p) /\ w.app[p].ui = "Taken"
    BY <1>1, <1>2, <1>3 DEF AppSet, Running
  <1> HIDE DEF a
  <1>7. CASE ~w.app[p].confirmed \/ ~Connected(w, p, "ctrl")
    <2>1. world' = Stop(w, p)
      BY <1>4, <1>7
    <2> QED BY <1>5, <1>6, <2>1, StopIsGood
  <1>8. CASE w.app[p].confirmed /\ Connected(w, p, "ctrl") /\ p # Host
    <2>1. world' = StartGameIfReady(w, p)
      BY <1>4, <1>8
    <2> QED BY <1>5, <1>6, <2>1, StartIsGood
  <1>9. CASE w.app[p].confirmed /\ Connected(w, p, "ctrl") /\ p = Host
    <2> DEFINE c == w.app[Host].ctrl
    <2>1. w \in World /\ w.app[Host] \in AppType /\ HostInOrder(w) /\ Host \in Apps /\ Running(w, Host)
      BY <1>5, <1>6, <1>9, GoodFacts, WhoIsWho
    <2>2. c \in Clients
      BY <1>9, <2>1 DEF HostInOrder, Connected, ClientOf
    <2>3. /\ b \in AppType /\ b.ctrl = c /\ b.data = w.app[Host].data /\ b.peer = w.app[Host].peer
          /\ b.pinger = w.app[Host].pinger /\ b.stats = w.app[Host].stats /\ b.status = w.app[Host].status
          /\ b.ui = w.app[Host].ui /\ b.final = w.app[Host].final
      BY <2>1 DEF AppType
    <2>4. world' = StartGameIfReady(x, Host)
      BY <1>4, <1>9
    <2> HIDE DEF b
    <2>5. AppSet(t, w, Host, b)
      BY <2>1, <2>3, AppSetShape
    <2> HIDE DEF t
    <2>6. Good(t)
      BY <1>5, <2>1, <2>3, <2>5, HostGoesOn
    <2>7. t.app[Host].ctrl = c /\ t.app[Host].ui = "Taken" /\ Running(t, Host) /\ Typed(t)
      BY <1>6, <1>9, <2>3, <2>5, <2>6 DEF AppSet, Running, Good
    <2> HIDE DEF c
    <2>8. m \in Msg /\ m.type = "NetplayConfig"
      BY DEF Msg
    <2> HIDE DEF m
    <2>9. Sent(x, t, "ctrl", c, c, m)
      <3> DEFINE k == ClientOf(t, Host, "ctrl")
      <3>1. k = c /\ OtherEnd(Host, k) = c
        BY <2>2, <2>7, WhoIsWho DEF ClientOf
      <3>2. Sent(x, t, "ctrl", k, OtherEnd(Host, k), m)
        BY <2>1, <2>2, <2>7, <2>8, SendCtrlShape
      <3> QED BY <3>1, <3>2
    <2> HIDE DEF x
    <2>10. Good(x)
      BY <2>2, <2>6, <2>7, <2>8, <2>9, HostSendsConfig
    <2>11. Running(x, Host)
      BY Zenon, <2>7, <2>9 DEF Sent, Running
    <2> QED BY <2>1, <2>4, <2>10, <2>11, StartIsGood
  <1> QED BY <1>7, <1>8, <1>9

\* OpenGame
LEMMA OpenGameIsGood ==
    ASSUME Good(world), NEW p \in Apps, OpenGame(p)
    PROVE  Good(world')
  <1> DEFINE y == Stop(world, p)
             a == [y.app[p] EXCEPT !.status = "InGame"]
             v == [y EXCEPT !.app[p] = a]
  <1>1. world.app[p].status = "Starting" /\ world' = v /\ Typed(world)
    BY GoodFacts DEF OpenGame
  <1>2. /\ Calm(y, world)
        /\ \A kind \in Kinds, c \in Clients : p \notin y.link[kind][c].ends
    BY <1>1, StopIsCalm
  <1> HIDE DEF y
  <1>3. Typed(y) /\ Less(y, world) /\ y \in World /\ y.app[p] \in AppType
    <2>1. Typed(y) /\ Less(y, world) /\ y \in World
      BY <1>2 DEF Calm, Typed
    <2> QED BY <2>1, WorldFields
  <1>4. /\ a \in AppType /\ a.status = "InGame" /\ a.ctrl = y.app[p].ctrl /\ a.final = y.app[p].final
        /\ a.ui = y.app[p].ui /\ a.confirmed = y.app[p].confirmed /\ a.session = y.app[p].session
        /\ a.stats = y.app[p].stats /\ a.peer = y.app[p].peer /\ a.data = y.app[p].data
        /\ a.pinger = y.app[p].pinger
    BY <1>3 DEF AppType
  <1> HIDE DEF a
  <1>5. AppSet(v, y, p, a)
    BY <1>3, <1>4, AppSetShape
  <1> HIDE DEF v
  <1>6. Typed(v)
    BY <1>2, <1>3, <1>5, AppIsTyped DEF AppSet
  <1>7. Quieter(a, world.app[p])
    <2>1. Quieter(y.app[p], world.app[p])
      BY <1>3 DEF Less
    <2> QED BY <1>1, <1>4, <2>1 DEF Quieter
  <1>8. Less(v, world)
    BY <1>3, <1>5, <1>7 DEF Less, AppSet
  <1>9. Good(v)
    BY <1>6, <1>8, CalmKeepsGood DEF Calm
  <1> QED BY <1>1, <1>9

\* PendingTimedOut
LEMMA PendingTimedOutIsGood ==
    ASSUME Good(world), NEW c \in Clients, PendingTimedOut(c)
    PROVE  Good(world')
  <1>1. world' = Close(world, "ctrl", c, Host)
    BY DEF PendingTimedOut
  <1>2. Calm(Close(world, "ctrl", c, Host), world)
    BY CloseIsCalm, GoodFacts, WhoIsWho
  <1> QED BY <1>1, <1>2, CalmKeepsGood

\* Fail
LEMMA FailIsGood ==
    ASSUME Good(world), NEW c \in Clients, Fail(c)
    PROVE  Good(world')
  <1> DEFINE k == world.link["ctrl"][c]
             m == [type |-> "Closed"]
             E == {Host, c}
             l == [k EXCEPT !.to = Told(E, m)]
             n == [to |-> Told(E, m), ends |-> E]
             v == [world EXCEPT !.link["ctrl"][c] = l]
  <1>1. /\ world \in World /\ Typed(world) /\ k \in LinkType /\ Wired(k, "ctrl", c) /\ k.ends = E
        /\ \A p \in E : Running(world, p)
        /\ c \in world.pending => Host \in E
        /\ "ctrl" \in Kinds
    <2>1. world \in World /\ Typed(world) /\ AllWired(world) /\ Alive(world) /\ "ctrl" \in Kinds /\ k.ends = E
      BY GoodFacts, WhoIsWho DEF Typed, Fail
    <2> QED BY <2>1, WorldFields DEF AllWired, Alive
  <1>2. world' = v
    BY DEF Fail
  <1>3. m \in Msg /\ m.type = "Closed" /\ \A q : m.type \notin Telling(q)
    BY DEF Msg, Telling
  <1> HIDE DEF m
  <1>4. n \in LinkType /\ Wired(n, "ctrl", c)
    BY <1>3, NewLink
  <1>5. l \in LinkType /\ l.to = n.to /\ l.ends = n.ends
    BY <1>1, <1>4 DEF LinkType
  <1>6. Wired(l, "ctrl", c)
    BY <1>4, <1>5 DEF Wired
  <1>7. LessLink(l, k)
    <2>1. \A p \in Apps : l.to[p] = << m >> \/ l.to[p] = << >>
      BY <1>5 DEF Told
    <2>2. \A p \in Apps : k.to[p] \in Seq(Msg)
      BY <1>1 DEF LinkType
    <2> HIDE DEF k, l
    <2>3. \A p \in Apps : Fewer(l.to[p], k.to[p], p)
      BY <1>3, <2>1, <2>2, FewerMessages
    <2> QED BY <1>1, <1>5, <2>3 DEF LessLink
  <1>8. \A p \in l.ends : Running(world, p)
    BY <1>1, <1>5
  <1> HIDE DEF l
  <1>9. /\ v \in World /\ v.app = world.app /\ v.link = [world.link EXCEPT !["ctrl"][c] = l]
        /\ v.pending = world.pending
    BY <1>1, <1>5 DEF World
  <1> HIDE DEF v
  <1>10. c \in v.pending => Host \in l.ends
    BY <1>1, <1>5, <1>9
  <1>11. Calm(v, world)
    BY <1>1, <1>5, <1>6, <1>7, <1>8, <1>9, <1>10, LinkIsReplaced
  <1> QED BY <1>2, <1>11, CalmKeepsGood

-----------------------------------------------------------------------------
(* Nobody is forgotten. A client that runs and is to play holds an end of  *)
(* its control connection, and an end whose other end is gone is told so.  *)
(* As long as neither end is, and the host knows the client, something     *)
(* carries the two on.                                                     *)

\* Two messages of the type are on their way.
Twice(q, type) == \E i, j \in 1 .. Len(q) : i # j /\ q[i].type = type /\ q[j].type = type

\* An end of the connection l whose other end is gone is told so.
Noticed(l, c) ==
    /\ Host \in l.ends /\ (c \notin l.ends \/ Has(l.to[c], "Closed")) => Has(l.to[Host], "Closed")
    /\ c \in l.ends /\ (Host \notin l.ends \/ Has(l.to[Host], "Closed")) => Has(l.to[c], "Closed")

\* Both ends are there, and neither is told that the other is gone.
Sound(l, c) == l.ends = {Host, c} /\ ~Has(l.to[Host], "Closed") /\ ~Has(l.to[c], "Closed")

\* The order in which the control connection of c begins.
Orderly(l, c) ==
    /\ \A i \in 1 .. Len(l.to[c]) : l.to[c][i].type = "Open" => i = 1
    /\ Has(l.to[c], "Open") => ~Has(l.to[Host], "InitialConfig")
    /\ \A i, j \in 1 .. Len(l.to[Host]) :
         l.to[Host][i].type = "VersionConfig" /\ l.to[Host][j].type = "InitialConfig" => i < j

\* What the connections k and l of client c, for control and for data, are at all times.
Linked(k, l, c) ==
    Noticed(k, c) /\ Noticed(l, c) /\ Orderly(k, c) /\ ~Has(k.to[Host], "Ping") /\ ~Has(k.to[c], "Ping")

\* The end of p is told that the connection is there, or that it is not.
Expected(l, p) == Has(l.to[p], "Open") \/ Has(l.to[p], "Closed")

\* The state a of the client c holds an end of its control connection k, and of its data
\* connection l when it has one.
Attached(a, k, l, c) ==
    /\ a.status \in {"Running", "Starting"} => a.ctrl = Host
    /\ a.status = "Running" =>
         /\ a.data \in {"None", "Connecting", "Open"}
         /\ ~(a.confirmed /\ a.final) =>
              /\ c \in k.ends \/ a.role = "Spectator"
              /\ a.data # "None" => c \in l.ends
              /\ a.data = "Connecting" => Expected(l, c)
         /\ a.ui = "Taken" => a.confirmed /\ ~a.final

\* The host, of state h, knows the connections of which it has an end; pend when c is among
\* those that it has not chosen.  It has not chosen one that may not play.
Known(h, a, k, l, pend, c) ==
    /\ Host \in k.ends => pend \/ h.ctrl = c \/ Expected(k, Host)
    /\ Host \in l.ends => h.peer = c \/ Expected(l, Host)
    /\ h.ctrl = c => a.role = "Player"

\* A client that the host has not looked at has done nothing.
NotYet(a, k, c) ==
    /\ a.status \in {"Idle", "Running"}
    /\ a.status = "Idle" \/ Has(k.to[c], "Open") \/ Has(k.to[Host], "VersionConfig")

Early(a, k, l, c) ==
    NotYet(a, k, c) => a.data = "None" /\ ~a.ready /\ ~Has(k.to[c], "InitialConfig") /\ l.ends = {}

Steady(h, a, k, l, pend, c) ==
    Linked(k, l, c) /\ Attached(a, k, l, c) /\ Known(h, a, k, l, pend, c) /\ Early(a, k, l, c)

\* What carries on a client that may play and has not been looked at: it sends an
\* InitialConfig after the VersionConfig of the host.
Begun(k, c) == Has(k.to[Host], "Open") \/ Has(k.to[c], "VersionConfig") \/ Has(k.to[Host], "InitialConfig")

\* What carries on the client that the host has chosen: the exchange of InitialConfigs, until
\* it connects its dataSocket; the pings and their statistics; the users' answers.
Carried(h, a, k, c) ==
    /\ a.data = "None" =>
         /\ h.ready \/ Has(k.to[Host], "InitialConfig") \/ Has(k.to[c], "VersionConfig")
         /\ ~a.ready \/ h.ready => Has(k.to[c], "InitialConfig")
         /\ ~a.ready /\ h.ready => Twice(k.to[c], "InitialConfig")
    /\ h.peer = c => h.pinger.on \/ Has(k.to[c], "PingStats") \/ a.pinger.on \/ a.ui # "No"
    /\ a.ui # "No" => Has(k.to[Host], "PingStats") \/ h.ui # "No"
    /\ h.ui = "Taken" => a.final \/ Has(k.to[c], "NetplayConfig")

Driven(h, a, k, c) ==
    Sound(k, c) => /\ NotYet(a, k, c) /\ a.role = "Player" => Begun(k, c)
                   /\ h.ctrl = c => Carried(h, a, k, c)

\* What the host has of a client when it has chosen none, and when it waits for one.
HostIsClean(h) ==
    h.status \in {"Running", "Starting"} =>
      /\ h.ctrl = None => ~h.ready /\ h.peer = None
      /\ h.data = "Listening" => h.peer = None

SteadyOf(w, c) ==
    Steady(w.app[Host], w.app[c], w.link["ctrl"][c], w.link["data"][c], c \in w.pending, c)

DrivenOf(w, c) == Driven(w.app[Host], w.app[c], w.link["ctrl"][c], c)

Hope(w) == HostIsClean(w.app[Host]) /\ \A c \in Clients : SteadyOf(w, c) /\ DrivenOf(w, c)

\* A message that is taken from a queue, and one that is added.
LEMMA FromQueue ==
    ASSUME NEW q \in Seq(Msg), q # << >>, NEW type
    PROVE  /\ Has(q, type) <=> Head(q).type = type \/ Has(Tail(q), type)
           /\ Twice(q, type) /\ Head(q).type = type => Has(Tail(q), type)
           /\ Twice(q, type) /\ Head(q).type # type => Twice(Tail(q), type)
  <1> DEFINE r == Tail(q)
  <1>1. r \in Seq(Msg) /\ Len(r) = Len(q) - 1 /\ (\A i \in 1 .. Len(r) : r[i] = q[i + 1])
        /\ Len(q) \in Nat \ {0} /\ Head(q) = q[1]
    OBVIOUS
  <1> HIDE DEF r
  <1>2. ASSUME NEW i \in 1 .. Len(q), i # 1 PROVE i - 1 \in 1 .. Len(r) /\ r[i - 1] = q[i]
    <2>1. i - 1 \in 1 .. Len(r) /\ (i - 1) + 1 = i
      BY <1>1, <1>2
    <2> QED BY <1>1, <2>1
  <1>3. ASSUME Has(q, type), q[1].type # type PROVE Has(r, type)
    <2>1. PICK i \in 1 .. Len(q) : q[i].type = type
      BY <1>3 DEF Has
    <2>2. i - 1 \in 1 .. Len(r) /\ r[i - 1].type = type
      BY <1>2, <1>3, <2>1
    <2> QED BY <2>2 DEF Has
  <1>4. ASSUME Twice(q, type) PROVE IF q[1].type = type THEN Has(r, type) ELSE Twice(r, type)
    <2>1. PICK i \in 1 .. Len(q), j \in 1 .. Len(q) : i # j /\ q[i].type = type /\ q[j].type = type
      BY <1>4 DEF Twice
    <2>2. CASE i # 1 /\ j # 1
      <3>1. /\ i - 1 \in 1 .. Len(r) /\ r[i - 1].type = type
            /\ j - 1 \in 1 .. Len(r) /\ r[j - 1].type = type /\ i - 1 # j - 1
        BY <1>2, <2>1, <2>2
      <3> QED BY <3>1 DEF Has, Twice
    <2>3. CASE i = 1 \/ j = 1
      <3>1. PICK n \in {i, j} : n # 1
        BY <2>1, <2>3
      <3>2. n - 1 \in 1 .. Len(r) /\ r[n - 1].type = type /\ q[1].type = type
        BY <1>2, <2>1, <2>3, <3>1
      <3> QED BY <3>2 DEF Has
    <2> QED BY <2>2, <2>3
  <1>5. q[1].type = type => Has(q, type)
    BY <1>1 DEF Has
  <1>6. Has(r, type) => Has(q, type)
    BY TailQueue DEF r
  <1> QED BY <1>1, <1>3, <1>4, <1>5, <1>6 DEF r

LEMMA ToQueue ==
    ASSUME NEW q \in Seq(Msg), NEW m \in Msg, NEW type
    PROVE  /\ Has(Append(q, m), type) <=> Has(q, type) \/ m.type = type
           /\ Twice(q, type) => Twice(Append(q, m), type)
           /\ Has(q, type) /\ m.type = type => Twice(Append(q, m), type)
  <1> DEFINE r == Append(q, m)
  <1>1. r \in Seq(Msg) /\ Len(r) = Len(q) + 1 /\ r[Len(q) + 1] = m /\ \A i \in 1 .. Len(q) : r[i] = q[i]
        /\ Len(q) \in Nat
    OBVIOUS
  <1> HIDE DEF r
  <1>2. Has(r, type) <=> Has(q, type) \/ m.type = type
    BY AppendQueue DEF r
  <1>3. Twice(q, type) => Twice(r, type)
    BY <1>1 DEF Twice
  <1>4. ASSUME Has(q, type), m.type = type PROVE Twice(r, type)
    <2>1. PICK i \in 1 .. Len(q) : q[i].type = type
      BY <1>4 DEF Has
    <2>2. i \in 1 .. Len(r) /\ Len(q) + 1 \in 1 .. Len(r) /\ i # Len(q) + 1
          /\ r[i].type = type /\ r[Len(q) + 1].type = type
      BY <1>1, <1>4, <2>1
    <2> QED BY <2>2 DEF Twice
  <1> QED BY <1>2, <1>3, <1>4 DEF r

\* The connection l of which p has read a message, or a message was sent to o.
ReadBy(l, p) == [l EXCEPT !.to[p] = Tail(@)]
WithMore(l, c, o, m) == IF l.ends # {Host, c} THEN l ELSE [l EXCEPT !.to[o] = Append(@, m)]

\* The other end.
Peer(p, c) == IF p = Host THEN c ELSE Host

\* Two ends of a connection.
LEMMA TwoEnds ==
    ASSUME NEW c \in Clients, NEW p \in {Host, c}
    PROVE  /\ Host # c /\ Host \in Apps /\ c \in Apps /\ p \in Apps /\ Peer(p, c) \in {Host, c} /\ Peer(p, c) # p
           /\ Peer(Peer(p, c), c) = p /\ OtherEnd(p, c) = Peer(p, c)
    BY WhoIsWho DEF Peer, OtherEnd

\* k is l of which p has read a message of the type.
AfterRead(k, l, c, p, type) ==
    /\ k \in LinkType /\ k.ends = l.ends /\ k.to[Peer(p, c)] = l.to[Peer(p, c)]
    /\ \A x : /\ Has(l.to[p], x) <=> type = x \/ Has(k.to[p], x)
              /\ Twice(l.to[p], x) => IF type = x THEN Has(k.to[p], x) ELSE Twice(k.to[p], x)
    /\ Noticed(l, c) /\ type # "Closed" => Noticed(k, c)
    /\ Orderly(l, c) =>
         /\ Orderly(k, c)
         /\ p = c => ~Has(k.to[c], "Open")
         /\ p = c /\ type # "Open" => ~Has(l.to[c], "Open")
         /\ p = Host /\ type = "InitialConfig" => ~Has(k.to[Host], "VersionConfig")

\* k is l after a message of the type was sent to o.
AfterSend(k, l, c, o, type) ==
    /\ k \in LinkType /\ k.ends = l.ends /\ k.to[Peer(o, c)] = l.to[Peer(o, c)]
    /\ \A x : /\ Has(l.to[o], x) => Has(k.to[o], x)
              /\ Has(k.to[o], x) => Has(l.to[o], x) \/ type = x
              /\ Twice(l.to[o], x) => Twice(k.to[o], x)
    /\ l.ends = {Host, c} => Has(k.to[o], type) /\ (Has(l.to[o], type) => Twice(k.to[o], type))
    /\ Noticed(l, c) /\ type # "Closed" => Noticed(k, c)
    /\ /\ Orderly(l, c) /\ type # "Open"
       /\ o = Host /\ type = "VersionConfig" => ~Has(l.to[Host], "InitialConfig")
       /\ o = Host /\ type = "InitialConfig" => ~Has(l.to[c], "Open")
       => Orderly(k, c)

\* k is l of which the end of p was closed; the other end is told so.
AfterCut(k, l, c, p) ==
    /\ k \in LinkType /\ k.ends = l.ends \ {p}
    /\ \A x : /\ ~Has(k.to[p], x)
              /\ Has(l.to[Peer(p, c)], x) => Has(k.to[Peer(p, c)], x)
              /\ Has(k.to[Peer(p, c)], x) => Has(l.to[Peer(p, c)], x) \/ x = "Closed"
    /\ l.ends = {Host, c} => Has(k.to[Peer(p, c)], "Closed")
    /\ Orderly(l, c) => Orderly(k, c)

\* What the reading of a message does to a connection.
LEMMA ReadShape ==
    ASSUME NEW l \in LinkType, NEW c \in Clients, NEW p \in {Host, c}, l.to[p] # << >>
    PROVE  AfterRead(ReadBy(l, p), l, c, p, Head(l.to[p]).type) /\ Head(l.to[p]) \in Msg
  <1> DEFINE k == ReadBy(l, p)
             q == l.to[p]
             r == k.to[p]
             m == Head(q)
  <1>1. k \in LinkType /\ k.ends = l.ends /\ k.to[Peer(p, c)] = l.to[Peer(p, c)] /\ r = Tail(q) /\ q \in Seq(Msg)
    <2>1. q \in Seq(Msg) /\ q # << >> /\ p \in Apps
      BY TwoEnds DEF LinkType
    <2>2. Tail(q) \in Seq(Msg)
      <3> HIDE DEF q
      <3> QED BY <2>1
    <2>3. k = [l EXCEPT !.to[p] = Tail(q)]
      BY DEF ReadBy
    <2> HIDE DEF k
    <2>4. k \in LinkType /\ k.ends = l.ends /\ r = Tail(q) /\ \A o \in Apps : o # p => k.to[o] = l.to[o]
      BY <2>1, <2>2, <2>3 DEF LinkType
    <2> QED BY <2>1, <2>4, TwoEnds
  <1> HIDE DEF k
  <1>2. /\ r \in Seq(Msg) /\ Len(r) = Len(q) - 1 /\ (\A i \in 1 .. Len(r) : r[i] = q[i + 1])
        /\ Len(q) \in Nat \ {0} /\ m = q[1] /\ m \in Msg
    <2> HIDE DEF q, r, m
    <2>1. q # << >> /\ m = Head(q)
      BY DEF q, m
    <2> QED BY <1>1, <2>1
  <1>3. \A type : /\ Has(q, type) <=> m.type = type \/ Has(r, type)
                  /\ Twice(q, type) => IF m.type = type THEN Has(r, type) ELSE Twice(r, type)
    BY <1>1, FromQueue
  <1> HIDE DEF q, r, m
  <1>4. ASSUME Noticed(l, c), m.type # "Closed" PROVE Noticed(k, c)
    <2>1. Has(r, "Closed") <=> Has(q, "Closed")
      BY <1>3, <1>4
    <2>2. /\ Has(k.to[Host], "Closed") <=> Has(l.to[Host], "Closed")
          /\ Has(k.to[c], "Closed") <=> Has(l.to[c], "Closed")
      BY <1>1, <2>1 DEF q, r, Peer
    <2> QED BY <1>1, <1>4, <2>2 DEF Noticed
  <1>5. ASSUME Orderly(l, c), p = c PROVE Orderly(k, c) /\ ~Has(r, "Open") /\ (m.type # "Open" => ~Has(q, "Open"))
    <2>1. \A i \in 1 .. Len(q) : q[i].type = "Open" => i = 1
      BY <1>5 DEF Orderly, q
    <2>2. \A i \in 1 .. Len(r) : r[i].type # "Open"
      BY <1>2, <2>1
    <2>3. ~Has(r, "Open")
      BY <2>2 DEF Has
    <2>4. k.to[c] = r /\ k.to[Host] = l.to[Host]
      BY <1>1, <1>5, TwoEnds DEF r, Peer
    <2>5. Orderly(k, c)
      BY <1>5, <2>2, <2>3, <2>4 DEF Orderly
    <2> QED BY <1>3, <2>3, <2>5
  <1>6. ASSUME Orderly(l, c), p = Host
        PROVE  Orderly(k, c) /\ (m.type = "InitialConfig" => ~Has(r, "VersionConfig"))
    <2>1. \A i, j \in 1 .. Len(q) : q[i].type = "VersionConfig" /\ q[j].type = "InitialConfig" => i < j
      BY <1>6 DEF Orderly, q
    <2>2. \A i, j \in 1 .. Len(r) : r[i].type = "VersionConfig" /\ r[j].type = "InitialConfig" => i < j
      <3>1. ASSUME NEW i \in 1 .. Len(r), NEW j \in 1 .. Len(r), r[i].type = "VersionConfig", r[j].type = "InitialConfig"
            PROVE  i < j
        <4>1. i + 1 \in 1 .. Len(q) /\ j + 1 \in 1 .. Len(q) /\ q[i + 1].type = "VersionConfig"
              /\ q[j + 1].type = "InitialConfig"
          BY <1>2, <3>1
        <4>2. i + 1 < j + 1
          BY <2>1, <4>1
        <4> QED BY <4>2
      <3> QED BY <3>1
    <2>3. ASSUME m.type = "InitialConfig", NEW i \in 1 .. Len(r), r[i].type = "VersionConfig" PROVE FALSE
      <3>1. i + 1 \in 1 .. Len(q) /\ q[i + 1].type = "VersionConfig" /\ 1 \in 1 .. Len(q) /\ q[1].type = "InitialConfig"
        BY <1>2, <2>3
      <3>2. i + 1 < 1
        BY <2>1, <3>1
      <3> QED BY <3>2
    <2>4. k.to[Host] = r /\ k.to[c] = l.to[c]
      BY <1>1, <1>6, TwoEnds DEF r, Peer
    <2>5. Has(k.to[Host], "InitialConfig") => Has(l.to[Host], "InitialConfig")
      BY <1>3, <1>6, <2>4 DEF q
    <2>6. Orderly(k, c)
      BY <1>6, <2>2, <2>4, <2>5 DEF Orderly
    <2>7. m.type = "InitialConfig" => ~Has(r, "VersionConfig")
      BY <2>3 DEF Has
    <2> QED BY <2>6, <2>7
  <1>7. Orderly(l, c) =>
          /\ Orderly(k, c)
          /\ p = c => ~Has(k.to[c], "Open")
          /\ p = c /\ m.type # "Open" => ~Has(l.to[c], "Open")
          /\ p = Host /\ m.type = "InitialConfig" => ~Has(k.to[Host], "VersionConfig")
    BY <1>5, <1>6 DEF q, r
  <1> QED BY <1>1, <1>2, <1>3, <1>4, <1>7 DEF k, q, r, m, AfterRead

\* What the sending of a message does to a connection.
LEMMA MoreShape ==
    ASSUME NEW l \in LinkType, NEW c \in Clients, NEW o \in {Host, c}, NEW m \in Msg
    PROVE  AfterSend(WithMore(l, c, o, m), l, c, o, m.type)
  <1> DEFINE k == WithMore(l, c, o, m)
             q == l.to[o]
             r == k.to[o]
  <1>1. CASE l.ends # {Host, c}
    <2>1. k = l
      BY <1>1 DEF WithMore
    <2>2. AfterSend(l, l, c, o, m.type)
      BY <1>1 DEF AfterSend
    <2> QED BY <2>1, <2>2
  <1>2. CASE l.ends = {Host, c}
    <2>1. q \in Seq(Msg) /\ o \in Apps
      BY TwoEnds DEF LinkType
    <2>2. Append(q, m) \in Seq(Msg)
      <3> HIDE DEF q
      <3> QED BY <2>1
    <2>3. k = [l EXCEPT !.to[o] = Append(q, m)]
      BY <1>2 DEF WithMore
    <2> HIDE DEF k
    <2>4. k \in LinkType /\ k.ends = l.ends /\ r = Append(q, m) /\ \A p \in Apps : p # o => k.to[p] = l.to[p]
      BY <2>1, <2>2, <2>3 DEF LinkType
    <2>5. k.to[Peer(o, c)] = l.to[Peer(o, c)]
      BY <2>4, TwoEnds
    <2>6. /\ r \in Seq(Msg) /\ Len(r) = Len(q) + 1 /\ r[Len(q) + 1] = m /\ (\A i \in 1 .. Len(q) : r[i] = q[i])
          /\ Len(q) \in Nat
      <3> HIDE DEF q, r
      <3> QED BY <2>1, <2>4
    <2>7. \A type : /\ Has(r, type) <=> Has(q, type) \/ m.type = type
                    /\ Twice(q, type) => Twice(r, type)
                    /\ Has(q, type) /\ m.type = type => Twice(r, type)
      BY <2>1, <2>4, ToQueue
    <2> HIDE DEF q, r
    <2>8. ASSUME Noticed(l, c), m.type # "Closed" PROVE Noticed(k, c)
      <3>1. Has(r, "Closed") <=> Has(q, "Closed")
        BY <2>7, <2>8
      <3>2. /\ Has(k.to[Host], "Closed") <=> Has(l.to[Host], "Closed")
            /\ Has(k.to[c], "Closed") <=> Has(l.to[c], "Closed")
        BY <2>5, <3>1 DEF q, r, Peer
      <3> QED BY <2>4, <2>8, <3>2 DEF Noticed
    <2>9. ASSUME /\ Orderly(l, c) /\ m.type # "Open"
                 /\ o = Host /\ m.type = "VersionConfig" => ~Has(l.to[Host], "InitialConfig")
                 /\ o = Host /\ m.type = "InitialConfig" => ~Has(l.to[c], "Open")
          PROVE  Orderly(k, c)
      <3>1. CASE o = c
        <4>1. k.to[c] = r /\ k.to[Host] = l.to[Host]
          BY <2>5, <3>1, TwoEnds DEF r, Peer
        <4>2. \A i \in 1 .. Len(q) : q[i].type = "Open" => i = 1
          BY <2>9, <3>1 DEF Orderly, q
        <4>3. \A i \in 1 .. Len(r) : r[i].type = "Open" => i = 1
          BY <2>6, <2>9, <4>2
        <4>4. Has(r, "Open") => Has(l.to[c], "Open")
          BY <2>7, <2>9, <3>1 DEF q
        <4> QED BY <2>9, <4>1, <4>3, <4>4 DEF Orderly
      <3>2. CASE o = Host
        <4>1. k.to[Host] = r /\ k.to[c] = l.to[c]
          BY <2>5, <3>2, TwoEnds DEF r, Peer
        <4>2. \A i, j \in 1 .. Len(q) : q[i].type = "VersionConfig" /\ q[j].type = "InitialConfig" => i < j
          BY <2>9, <3>2 DEF Orderly, q
        <4>3. m.type = "VersionConfig" => ~Has(q, "InitialConfig")
          BY <2>9, <3>2 DEF q
        <4>4. \A i, j \in 1 .. Len(r) : r[i].type = "VersionConfig" /\ r[j].type = "InitialConfig" => i < j
          <5>1. ASSUME NEW i \in 1 .. Len(r), NEW j \in 1 .. Len(r), r[i].type = "VersionConfig",
                       r[j].type = "InitialConfig"
                PROVE  i < j
            <6>1. CASE i \in 1 .. Len(q) /\ j \in 1 .. Len(q)
              BY <2>6, <4>2, <5>1, <6>1
            <6>2. CASE i \in 1 .. Len(q) /\ j = Len(q) + 1
              BY <2>6, <6>2
            <6>3. CASE i = Len(q) + 1
              <7>1. m.type = "VersionConfig" /\ j # i
                BY <2>6, <5>1, <6>3
              <7>2. j \in 1 .. Len(q) /\ q[j].type = "InitialConfig"
                BY <2>6, <5>1, <6>3, <7>1
              <7> QED BY <4>3, <7>1, <7>2 DEF Has
            <6> QED BY <2>6, <6>1, <6>2, <6>3
          <5> QED BY <5>1
        <4>5. Has(k.to[c], "Open") => ~Has(r, "InitialConfig")
          BY <2>7, <2>9, <3>2, <4>1 DEF Orderly, q
        <4> QED BY <2>9, <4>1, <4>4, <4>5 DEF Orderly
      <3> QED BY <3>1, <3>2
    <2> QED BY <1>2, <2>4, <2>5, <2>7, <2>8, <2>9 DEF k, q, r, AfterSend
  <1> QED BY <1>1, <1>2

\* What the closing of the end p does to a connection.
LEMMA CutShape ==
    ASSUME NEW l \in LinkType, NEW c \in Clients, NEW p \in {Host, c}, p \notin l.ends => l.to[p] = << >>
    PROVE  AfterCut(Cut(l, c, p), l, c, p)
  <1> DEFINE k == Cut(l, c, p)
             o == Peer(p, c)
             m == [type |-> "Closed"]
  <1>1. /\ Host # c /\ p \in Apps /\ o \in Apps /\ o \in {Host, c} /\ o # p /\ OtherEnd(p, c) = o /\ Peer(o, c) = p
        /\ {Host, c} \subseteq Apps
    BY TwoEnds
  <1> HIDE DEF o
  <1>2. l.to \in [Apps -> Seq(Msg)] /\ l.ends \subseteq Apps /\ l = [to |-> l.to, ends |-> l.ends] /\ m \in Msg
    BY DEF LinkType, Msg
  <1> DEFINE x == WithMore(l, c, o, m)
  <1>3. /\ x \in LinkType /\ x.ends = l.ends /\ x.to[p] = l.to[p]
        /\ \A type : /\ Has(l.to[o], type) => Has(x.to[o], type)
                     /\ Has(x.to[o], type) => Has(l.to[o], type) \/ type = "Closed"
        /\ l.ends = {Host, c} => Has(x.to[o], "Closed")
        /\ Orderly(l, c) => Orderly(x, c)
    <2>1. m \in Msg /\ m.type = "Closed"
      BY DEF Msg
    <2> HIDE DEF m
    <2>2. AfterSend(x, l, c, o, m.type)
      BY <1>1, <2>1, MoreShape
    <2> HIDE DEF x
    <2>3. m.type \notin {"Open", "VersionConfig", "InitialConfig"} /\ m.type = "Closed"
      BY <2>1
    <2> QED BY <1>1, <2>2, <2>3 DEF AfterSend
  <1>4. k.ends = l.ends \ {p} /\ k.to[p] = << >> /\ k.to[o] = x.to[o] /\ k \in LinkType
    <2>1. CASE p \notin l.ends
      <3>1. k = l /\ x = l
        BY <1>1, <2>1 DEF Cut, WithMore
      <3> QED BY <2>1, <3>1
    <2>2. CASE p \in l.ends
      <3>1. x.to[o] = IF l.ends = {Host, c} THEN Append(l.to[o], m) ELSE l.to[o]
        BY <1>1, <1>2 DEF WithMore, LinkType
      <3>2. x.to[o] \in Seq(Msg) /\ << >> \in Seq(Msg)
        BY <1>1, <1>3 DEF LinkType
      <3> DEFINE to == [q \in Apps |-> IF q = p THEN << >>
                                       ELSE IF q = o /\ l.ends = {Host, c}
                                         THEN Append(l.to[q], [type |-> "Closed"]) ELSE l.to[q]]
      <3>3. k = [to |-> to, ends |-> l.ends \ {p}]
        BY <1>1, <2>2 DEF Cut
      <3> HIDE DEF x, k
      <3>4. to[o] = x.to[o] /\ to[p] = << >> /\ to \in [Apps -> Seq(Msg)]
        BY <1>1, <1>2, <3>1, <3>2
      <3> HIDE DEF to
      <3> QED BY <1>2, <3>3, <3>4 DEF LinkType
    <2> QED BY <2>1, <2>2
  <1> HIDE DEF x, k
  <1>5. \A type : ~Has(k.to[p], type)
    BY <1>4, EmptyQueue
  <1>6. ASSUME Orderly(l, c) PROVE Orderly(k, c)
    <2>1. Orderly(x, c)
      BY <1>3, <1>6
    <2>2. CASE p = c
      <3>1. k.to[c] = << >> /\ k.to[Host] = x.to[Host] /\ ~Has(k.to[c], "Open")
        BY <1>4, <1>5, <2>2 DEF o, Peer
      <3> QED BY <2>1, <3>1 DEF Orderly
    <2>3. CASE p = Host
      <3>1. k.to[Host] = << >> /\ k.to[c] = x.to[c] /\ ~Has(k.to[Host], "InitialConfig")
        BY <1>4, <1>5, <2>3 DEF o, Peer
      <3> QED BY <2>1, <3>1 DEF Orderly
    <2> QED BY <2>2, <2>3
  <1> QED BY <1>3, <1>4, <1>5, <1>6 DEF k, o, AfterCut

-----------------------------------------------------------------------------
(* What keeps a client steady.                                             *)

\* A message is read that is not about the connection itself.
LEMMA ReadIsSteady ==
    ASSUME NEW h, NEW a, NEW k, NEW l, NEW pend, NEW c \in Clients, Steady(h, a, k, l, pend, c),
           NEW p \in {Host, c}, NEW type, type \notin {"Open", "Closed"}, NEW x
    PROVE  /\ AfterRead(x, k, c, p, type) => Steady(h, a, x, l, pend, c)
           /\ AfterRead(x, l, c, p, type) => Steady(h, a, k, x, pend, c)
  <1>1. Peer(Host, c) = c /\ Peer(c, c) = Host /\ Host # c
    BY TwoEnds DEF Peer
  <1>2. ASSUME AfterRead(x, k, c, p, type) PROVE Steady(h, a, x, l, pend, c)
    <2>1. /\ x.ends = k.ends /\ (Noticed(k, c) => Noticed(x, c)) /\ (Orderly(k, c) => Orderly(x, c))
          /\ \A q \in {Host, c} : \A y : Has(x.to[q], y) => Has(k.to[q], y)
          /\ \A q \in {Host, c} : \A y \in {"Open", "Closed"} : Has(x.to[q], y) <=> Has(k.to[q], y)
      BY <1>1, <1>2 DEF AfterRead
    <2>2. Linked(x, l, c)
      BY <2>1 DEF Linked, Steady
    <2>3. Attached(a, x, l, c)
      BY <2>1 DEF Attached, Steady
    <2>4. Known(h, a, x, l, pend, c)
      BY <2>1 DEF Known, Expected, Steady
    <2>5. Early(a, x, l, c)
      BY <2>1 DEF Early, NotYet, Steady
    <2> QED BY <2>2, <2>3, <2>4, <2>5 DEF Steady
  <1>3. ASSUME AfterRead(x, l, c, p, type) PROVE Steady(h, a, k, x, pend, c)
    <2>1. /\ x.ends = l.ends /\ (Noticed(l, c) => Noticed(x, c))
          /\ \A q \in {Host, c} : \A y \in {"Open", "Closed"} : Has(x.to[q], y) <=> Has(l.to[q], y)
      BY <1>1, <1>3 DEF AfterRead
    <2>2. Linked(k, x, c)
      BY <2>1 DEF Linked, Steady
    <2>3. Attached(a, k, x, c)
      BY <2>1 DEF Attached, Expected, Steady
    <2>4. Known(h, a, k, x, pend, c)
      BY <2>1 DEF Known, Expected, Steady
    <2>5. Early(a, k, x, c)
      BY <2>1 DEF Early, Steady
    <2> QED BY <2>2, <2>3, <2>4, <2>5 DEF Steady
  <1> QED BY <1>2, <1>3

\* A message is sent: on the control connection, none that c may send at its beginning only.
LEMMA SendIsSteady ==
    ASSUME NEW h, NEW a, NEW k, NEW l, NEW pend, NEW c \in Clients, Steady(h, a, k, l, pend, c),
           NEW o \in {Host, c}, NEW type, type \notin {"Open", "Closed"}, NEW x
    PROVE  /\ /\ AfterSend(x, k, c, o, type) /\ type # "Ping"
              /\ o = Host => type # "VersionConfig" /\ (type = "InitialConfig" => ~Has(k.to[c], "Open"))
              /\ o = c /\ type = "InitialConfig" => ~NotYet(a, k, c)
              => Steady(h, a, x, l, pend, c)
           /\ AfterSend(x, l, c, o, type) => Steady(h, a, k, x, pend, c)
  <1>1. Peer(Host, c) = c /\ Peer(c, c) = Host /\ Host # c
    BY TwoEnds DEF Peer
  <1>2. ASSUME AfterSend(x, k, c, o, type), type # "Ping",
               o = Host => type # "VersionConfig" /\ (type = "InitialConfig" => ~Has(k.to[c], "Open")),
               o = c /\ type = "InitialConfig" => ~NotYet(a, k, c)
        PROVE  Steady(h, a, x, l, pend, c)
    <2>1. /\ x.ends = k.ends /\ (Noticed(k, c) => Noticed(x, c)) /\ (Orderly(k, c) => Orderly(x, c))
          /\ \A q \in {Host, c} : \A y : Has(k.to[q], y) => Has(x.to[q], y)
          /\ \A q \in {Host, c} : \A y : Has(x.to[q], y) /\ (y # type \/ q # o) => Has(k.to[q], y)
      BY <1>1, <1>2 DEF AfterSend
    <2>2. Linked(x, l, c)
      BY <1>2, <2>1 DEF Linked, Steady
    <2>3. Attached(a, x, l, c)
      BY <2>1 DEF Attached, Steady
    <2>4. Known(h, a, x, l, pend, c)
      BY <2>1 DEF Known, Expected, Steady
    <2>5. Early(a, x, l, c)
      BY <1>1, <1>2, <2>1 DEF Early, NotYet, Steady
    <2> QED BY <2>2, <2>3, <2>4, <2>5 DEF Steady
  <1>3. ASSUME AfterSend(x, l, c, o, type) PROVE Steady(h, a, k, x, pend, c)
    <2>1. /\ x.ends = l.ends /\ (Noticed(l, c) => Noticed(x, c))
          /\ \A q \in {Host, c} : \A y \in {"Open", "Closed"} : Has(x.to[q], y) <=> Has(l.to[q], y)
      BY <1>1, <1>3 DEF AfterSend
    <2>2. Linked(k, x, c)
      BY <2>1 DEF Linked, Steady
    <2>3. Attached(a, k, x, c)
      BY <2>1 DEF Attached, Expected, Steady
    <2>4. Known(h, a, k, x, pend, c)
      BY <2>1 DEF Known, Expected, Steady
    <2>5. Early(a, k, x, c)
      BY <2>1 DEF Early, Steady
    <2> QED BY <2>2, <2>3, <2>4, <2>5 DEF Steady
  <1> QED BY <1>2, <1>3

\* x is k, or k of which the end of p was closed.
MayBeCut(x, k, c, p) == x = k \/ AfterCut(x, k, c, p)

\* What is left of connections of which ends were closed.
LEMMA CutConnections ==
    ASSUME NEW k, NEW l, NEW c \in Clients, NEW p \in {Host, c}, k.ends \subseteq {Host, c}, l.ends \subseteq {Host, c},
           Linked(k, l, c), NEW x, NEW y, MayBeCut(x, k, c, p), MayBeCut(y, l, c, p)
    PROVE  /\ Linked(x, y, c) /\ (x = k \/ (p \notin x.ends /\ ~Sound(x, c)))
           /\ p = c => \A h, a, pend : Known(h, a, k, l, pend, c) => Known(h, a, x, y, pend, c)
           /\ p = Host => \A a : /\ Attached(a, k, l, c) => Attached(a, x, y, c)
                                 /\ NotYet(a, x, c) => NotYet(a, k, c)
                                 /\ Early(a, k, l, c) => Early(a, x, y, c)
  <1>1. Peer(Host, c) = c /\ Peer(c, c) = Host /\ Host # c
    BY TwoEnds DEF Peer
  <1>2. /\ x.ends \subseteq k.ends /\ (\A q \in {Host, c} : q # p => (q \in x.ends <=> q \in k.ends))
        /\ x = k \/ p \notin x.ends
        /\ \A q \in {Host, c} : \A z : z # "Closed" /\ Has(x.to[q], z) => Has(k.to[q], z)
        /\ \A q \in {Host, c} : \A z : q # p /\ Has(k.to[q], z) => Has(x.to[q], z)
    BY <1>1 DEF MayBeCut, AfterCut
  <1>3. /\ y.ends \subseteq l.ends /\ (\A q \in {Host, c} : q # p => (q \in y.ends <=> q \in l.ends))
        /\ \A q \in {Host, c} : \A z : q # p /\ Has(l.to[q], z) => Has(y.to[q], z)
    BY <1>1 DEF MayBeCut, AfterCut
  <1>4. ASSUME NEW u, NEW v, u.ends \subseteq {Host, c}, MayBeCut(v, u, c, p), Noticed(u, c)
        PROVE  Noticed(v, c)
    <2>1. CASE v = u
      BY <1>4, <2>1
    <2>2. CASE AfterCut(v, u, c, p)
      <3>1. v.ends = u.ends \ {p} /\ (u.ends = {Host, c} => Has(v.to[Peer(p, c)], "Closed"))
            /\ (Has(u.to[Peer(p, c)], "Closed") => Has(v.to[Peer(p, c)], "Closed"))
        BY <2>2 DEF AfterCut
      <3>2. Peer(p, c) \in u.ends => Has(v.to[Peer(p, c)], "Closed")
        <4>1. CASE p \in u.ends
          BY <1>1, <1>4, <3>1, <4>1
        <4>2. CASE p \notin u.ends
          BY <1>1, <1>4, <3>1, <4>2 DEF Noticed
        <4> QED BY <4>1, <4>2
      <3> QED BY <1>1, <3>1, <3>2 DEF Noticed
    <2> QED BY <1>4, <2>1, <2>2 DEF MayBeCut
  <1>5. Linked(x, y, c)
    <2>1. Noticed(x, c) /\ Noticed(y, c)
      BY <1>4 DEF Linked
    <2>2. Orderly(x, c)
      BY DEF Linked, MayBeCut, AfterCut
    <2> QED BY <1>2, <2>1, <2>2 DEF Linked
  <1>6. x = k \/ (p \notin x.ends /\ ~Sound(x, c))
    BY <1>2 DEF Sound
  <1>7. ASSUME p = c, NEW h, NEW a, NEW pend, Known(h, a, k, l, pend, c) PROVE Known(h, a, x, y, pend, c)
    BY <1>1, <1>2, <1>3, <1>7 DEF Known, Expected
  <1>8. ASSUME p = Host, NEW a PROVE NotYet(a, x, c) => NotYet(a, k, c)
    BY <1>2 DEF NotYet
  <1>9. ASSUME p = Host, NEW a PROVE Attached(a, k, l, c) => Attached(a, x, y, c)
    BY <1>1, <1>2, <1>3, <1>9 DEF Attached, Expected
  <1>10. ASSUME p = Host, NEW a PROVE Early(a, k, l, c) => Early(a, x, y, c)
    BY <1>2, <1>3, <1>8, <1>10 DEF Early
  <1> QED BY <1>5, <1>6, <1>7, <1>8, <1>9, <1>10

\* The client stops.
LEMMA ClientIsCut ==
    ASSUME NEW h, NEW a, NEW k, NEW l, NEW pend, NEW c \in Clients, k.ends \subseteq {Host, c}, l.ends \subseteq {Host, c},
           Linked(k, l, c), Known(h, a, k, l, pend, c), NEW x, NEW y, AfterCut(x, k, c, c), MayBeCut(y, l, c, c),
           NEW b, b.status \notin {"Idle", "Running", "Starting"}, b.role = a.role
    PROVE  Steady(h, b, x, y, pend, c) /\ Driven(h, b, x, c)
  <1>1. MayBeCut(x, k, c, c) /\ c \notin x.ends
    BY DEF MayBeCut, AfterCut
  <1>2. Linked(x, y, c) /\ Known(h, a, x, y, pend, c)
    BY <1>1, CutConnections
  <1>3. Attached(b, x, y, c) /\ Early(b, x, y, c) /\ ~Sound(x, c) /\ Known(h, b, x, y, pend, c)
    BY <1>1, <1>2 DEF Attached, Early, NotYet, Sound, Known
  <1> QED BY <1>2, <1>3 DEF Steady, Driven

\* The host stops, and is g then, or lets go of the client.
LEMMA HostIsCut ==
    ASSUME NEW g, NEW a, NEW k, NEW l, NEW pend, NEW c \in Clients, k.ends \subseteq {Host, c}, l.ends \subseteq {Host, c},
           Linked(k, l, c), Attached(a, k, l, c), Early(a, k, l, c), NEW x, NEW y,
           MayBeCut(x, k, c, Host), AfterCut(y, l, c, Host), g.ctrl = c => a.role = "Player",
           x = k /\ ~AfterCut(x, k, c, Host) =>
             /\ Host \in k.ends => pend \/ Expected(k, Host)
             /\ Sound(k, c) /\ NotYet(a, k, c) /\ a.role = "Player" => Begun(k, c)
             /\ g.ctrl # c
    PROVE  Steady(g, a, x, y, pend, c) /\ Driven(g, a, x, c)
  <1>1. MayBeCut(y, l, c, Host) /\ Host \notin y.ends
    BY DEF MayBeCut, AfterCut
  <1>2. Linked(x, y, c) /\ Attached(a, x, y, c) /\ Early(a, x, y, c)
    BY <1>1, CutConnections
  <1>3. CASE AfterCut(x, k, c, Host)
    <2>1. Host \notin x.ends
      BY <1>3 DEF AfterCut
    <2>2. Known(g, a, x, y, pend, c) /\ Driven(g, a, x, c)
      BY <1>1, <2>1 DEF Known, Driven, Sound
    <2> QED BY <1>2, <2>2 DEF Steady
  <1>4. CASE x = k /\ ~AfterCut(x, k, c, Host)
    <2>1. Known(g, a, x, y, pend, c) /\ Driven(g, a, x, c)
      BY <1>1, <1>4 DEF Known, Driven
    <2> QED BY <1>2, <2>1 DEF Steady
  <1> QED BY <1>3, <1>4 DEF MayBeCut

-----------------------------------------------------------------------------
(* What the handlers do to the connections of a world.                     *)

\* A connection has its ends only, and nothing is on its way to an end that is gone.
LEMMA Wires ==
    ASSUME NEW w, Typed(w), NEW kind \in Kinds, NEW c \in Clients
    PROVE  LET l == w.link[kind][c] IN
           /\ l \in LinkType /\ l.ends \subseteq {Host, c} /\ w \in World
           /\ \A p \in {Host, c} : p \notin l.ends => l.to[p] = << >>
           /\ \A p \in l.ends : Running(w, p)
  <1>1. w \in World /\ AllWired(w) /\ Alive(w)
    BY DEF Typed
  <1>2. w.link[kind][c] \in LinkType /\ Wired(w.link[kind][c], kind, c)
    BY <1>1, WorldFields DEF AllWired
  <1>3. {Host, c} \subseteq Apps
    BY WhoIsWho
  <1> QED BY <1>1, <1>2, <1>3 DEF Wired, Alive

\* The connection of c is l now.
LinkSet(v, w, kind, c, l) ==
    /\ v \in World /\ v.app = w.app /\ v.pending = w.pending /\ v.link[kind][c] = l
    /\ \A x \in Kinds, d \in Clients : x # kind \/ d # c => v.link[x][d] = w.link[x][d]

\* Writing a connection of a world.
LEMMA LinkSetShape ==
    ASSUME NEW w \in World, NEW kind \in Kinds, NEW c \in Clients, NEW l \in LinkType
    PROVE  LinkSet([w EXCEPT !.link[kind][c] = l], w, kind, c, l)
    BY DEF World, LinkSet

\* What Send writes.
LEMMA SendSets ==
    ASSUME NEW w \in World, NEW kind \in Kinds, NEW c \in Clients, NEW p \in {Host, c}, NEW m \in Msg
    PROVE  LET v == Send(w, kind, c, p, m)  l == w.link[kind][c] IN
           /\ LinkSet(v, w, kind, c, WithMore(l, c, Peer(p, c), m))
           /\ AfterSend(v.link[kind][c], l, c, Peer(p, c), m.type)
  <1> DEFINE l == w.link[kind][c]
             o == Peer(p, c)
             x == WithMore(l, c, o, m)
             v == Send(w, kind, c, p, m)
  <1>1. l \in LinkType /\ o \in {Host, c} /\ OtherEnd(p, c) = o /\ o \in Apps
    BY WorldFields, TwoEnds
  <1> HIDE DEF o
  <1>2. AfterSend(x, l, c, o, m.type) /\ x \in LinkType
    <2>1. AfterSend(x, l, c, o, m.type)
      BY <1>1, MoreShape
    <2> QED BY <2>1 DEF AfterSend
  <1>3. LinkSet(v, w, kind, c, x)
    <2>1. CASE l.ends # {Host, c}
      <3>1. v = w /\ x = l
        BY <2>1 DEF Send, WithMore
      <3> QED BY <3>1 DEF LinkSet
    <2>2. CASE l.ends = {Host, c}
      <3>1. v = [w EXCEPT !.link[kind][c].to[o] = Append(@, m)] /\ x = [l EXCEPT !.to[o] = Append(@, m)]
        BY <1>1, <2>2 DEF Send, WithMore
      <3>2. v = [w EXCEPT !.link[kind][c] = x]
        BY <3>1
      <3> HIDE DEF x, v
      <3> QED BY <1>2, <3>2, LinkSetShape
    <2> QED BY <2>1, <2>2
  <1> QED BY <1>2, <1>3 DEF o, LinkSet

\* The application p is over: its ends are closed.
Ended(v, w, p) ==
    /\ \A q \in Apps : q # p => v.app[q] = w.app[q]
    /\ v.app[p].status \in {"Stopped", "InGame"} /\ v.app[p].role = w.app[p].role /\ v.app[p].ctrl = w.app[p].ctrl
    /\ \A kind \in Kinds, c \in Clients : v.link[kind][c] = Cut(w.link[kind][c], c, p)
    /\ p # Host => v.pending = w.pending

\* What stop writes.
LEMMA StopEnds ==
    ASSUME NEW w \in World, NEW p \in Apps
    PROVE  Ended(Stop(w, p), w, p) /\ Ended([Stop(w, p) EXCEPT !.app[p].status = "InGame"], w, p)
  <1> DEFINE links == [kind \in Kinds |-> [c \in Clients |-> Cut(w.link[kind][c], c, p)]]
             pend == IF p = Host THEN {} ELSE w.pending
             a == [w.app[p] EXCEPT !.status = "Stopped", !.pinger = NoPinger]
             b == [a EXCEPT !.status = "InGame"]
             v == Stop(w, p)
             u == [v EXCEPT !.app[p].status = "InGame"]
  <1>1. /\ w = [app |-> w.app, link |-> w.link, pending |-> w.pending]
        /\ w.app \in [Apps -> AppType] /\ w.app[p] \in AppType
    BY WorldFields
  <1>2. CloseAll(w, p) = [app |-> w.app, link |-> links, pending |-> pend]
    <2>1. CloseAll(w, p) = [w EXCEPT !.link = links, !.pending = pend]
      BY DEF CloseAll
    <2> HIDE DEF links, pend
    <2> QED BY <1>1, <2>1
  <1> DEFINE t == CloseAll(w, p)
  <1>3. v = [app |-> [w.app EXCEPT ![p] = a], link |-> links, pending |-> pend]
    <2>1. v = [t EXCEPT !.app[p] = [@ EXCEPT !.status = "Stopped", !.pinger = NoPinger]]
      BY DEF Stop
    <2>2. t = [app |-> w.app, link |-> links, pending |-> pend]
      BY <1>2
    <2> HIDE DEF t, v, links, pend
    <2> QED BY <2>1, <2>2
  <1>4. u = [app |-> [w.app EXCEPT ![p] = b], link |-> links, pending |-> pend]
    <2>1. u = [v EXCEPT !.app[p] = [@ EXCEPT !.status = "InGame"]]
      OBVIOUS
    <2> HIDE DEF u, v, links, pend, a
    <2>2. v.app = [w.app EXCEPT ![p] = a] /\ v.app[p] = a /\ v.link = links /\ v.pending = pend
      BY <1>1, <1>3
    <2>3. u = [v EXCEPT !.app = [w.app EXCEPT ![p] = b]]
      BY <1>1, <2>1, <2>2
    <2> HIDE DEF b
    <2> QED BY <1>3, <2>3
  <1>5. /\ a.status = "Stopped" /\ a.role = w.app[p].role /\ a.ctrl = w.app[p].ctrl
        /\ b.status = "InGame" /\ b.role = w.app[p].role /\ b.ctrl = w.app[p].ctrl
    BY <1>1 DEF AppType
  <1>6. \A kind \in Kinds, c \in Clients : links[kind][c] = Cut(w.link[kind][c], c, p)
    OBVIOUS
  <1> HIDE DEF links, a, b, v, u
  <1>7. Ended(v, w, p)
    BY <1>1, <1>3, <1>5, <1>6 DEF Ended
  <1>8. Ended(u, w, p)
    BY <1>1, <1>4, <1>5, <1>6 DEF Ended
  <1> QED BY <1>7, <1>8 DEF u, v

\* The host begins anew, and lets go of c and of the data connections.
Anew(v, w, c) ==
    /\ v.app[Host] = [NewApp("Player") EXCEPT !.status = "Running"]
    /\ \A q \in Apps : q # Host => v.app[q] = w.app[q]
    /\ v.pending = w.pending
    /\ \A d \in Clients : /\ v.link["data"][d] = Cut(w.link["data"][d], d, Host)
                          /\ v.link["ctrl"][d] = IF d = c /\ c \notin w.pending THEN Cut(w.link["ctrl"][c], c, Host)
                                                 ELSE w.link["ctrl"][d]

\* What resetHost writes.
LEMMA ResetHostShape ==
    ASSUME NEW w \in World, NEW c \in Clients
    PROVE  Anew(ResetHost(w, c), w, c)
  <1> DEFINE n == [NewApp("Player") EXCEPT !.status = "Running"]
             ctrl == IF c \in w.pending THEN w.link["ctrl"]
                     ELSE [w.link["ctrl"] EXCEPT ![c] = Cut(@, c, Host)]
             t == IF c \in w.pending THEN w ELSE Close(w, "ctrl", c, Host)
             data == [d \in Clients |-> Cut(w.link["data"][d], d, Host)]
             r == Released(w, c)
             v == ResetHost(w, c)
  <1>1. /\ w = [app |-> w.app, link |-> w.link, pending |-> w.pending]
        /\ w.app \in [Apps -> AppType] /\ w.link \in [Kinds -> [Clients -> LinkType]]
        /\ "ctrl" \in Kinds /\ "data" \in Kinds /\ w.link["ctrl"] \in [Clients -> LinkType] /\ Host \in Apps
    BY WorldFields, WhoIsWho
  <1>2. /\ t = [app |-> w.app, link |-> [w.link EXCEPT !["ctrl"] = ctrl], pending |-> w.pending]
        /\ t.link["data"] = w.link["data"]
    <2>1. CASE c \in w.pending
      BY <1>1, <2>1
    <2>2. CASE c \notin w.pending
      <3>1. t = [w EXCEPT !.link["ctrl"][c] = Cut(@, c, Host), !.pending = @ \ {c}]
        BY <2>2 DEF Close
      <3>2. w.pending \ {c} = w.pending
        BY <2>2
      <3> QED BY <1>1, <2>2, <3>1, <3>2
    <2> QED BY <2>1, <2>2
  <1>3. r = [t EXCEPT !.link["data"] = [d \in Clients |-> Cut(t.link["data"][d], d, Host)]]
    BY DEF Released
  <1>4. r = [app |-> w.app, link |-> [t.link EXCEPT !["data"] = data], pending |-> w.pending]
    <2> HIDE DEF r, t
    <2> QED BY <1>2, <1>3
  <1>5. v = [r EXCEPT !.app[Host] = n]
    BY DEF ResetHost
  <1>6. /\ \A d \in Clients : data[d] = Cut(w.link["data"][d], d, Host)
        /\ \A d \in Clients : ctrl[d] = IF d = c /\ c \notin w.pending THEN Cut(w.link["ctrl"][c], c, Host)
                                        ELSE w.link["ctrl"][d]
    BY <1>1
  <1> HIDE DEF n, ctrl, t, data, r, v
  <1>7. /\ v.app = [w.app EXCEPT ![Host] = n] /\ v.pending = w.pending
        /\ v.link = [[w.link EXCEPT !["ctrl"] = ctrl] EXCEPT !["data"] = data]
    BY <1>2, <1>4, <1>5
  <1>8. v.link["ctrl"] = ctrl /\ v.link["data"] = data
    BY <1>1, <1>7
  <1> QED BY <1>1, <1>6, <1>7, <1>8 DEF Anew, n, v

-----------------------------------------------------------------------------
(* Steady worlds.                                                          *)

AllSteady(w) == HostIsClean(w.app[Host]) /\ \A d \in Clients : SteadyOf(w, d)

\* The other clients do not see what happens on a connection of c, and nobody is driven by a
\* data connection.
LEMMA LinkSetFrame ==
    ASSUME NEW v, NEW w, NEW kind \in Kinds, NEW c \in Clients, NEW l, LinkSet(v, w, kind, c, l)
    PROVE  /\ \A d \in Clients : d # c => (SteadyOf(v, d) <=> SteadyOf(w, d)) /\ (DrivenOf(v, d) <=> DrivenOf(w, d))
           /\ kind = "data" => (DrivenOf(v, c) <=> DrivenOf(w, c))
    BY WhoIsWho DEF LinkSet, SteadyOf, DrivenOf

\* A message is sent.
LEMMA SendKeepsSteady ==
    ASSUME NEW w \in World, AllSteady(w), NEW kind \in Kinds, NEW c \in Clients, NEW p \in {Host, c}, NEW m \in Msg,
           m.type \notin {"Open", "Closed"},
           kind = "ctrl" =>
             /\ m.type # "Ping"
             /\ p = c => m.type # "VersionConfig" /\ (m.type = "InitialConfig" => ~Has(To(w, c, c), "Open"))
             /\ p = Host /\ m.type = "InitialConfig" => ~NotYet(w.app[c], w.link["ctrl"][c], c)
    PROVE  LET v == Send(w, kind, c, p, m) IN
           /\ v \in World /\ v.app = w.app /\ v.pending = w.pending /\ AllSteady(v)
           /\ AfterSend(v.link[kind][c], w.link[kind][c], c, Peer(p, c), m.type)
           /\ \A d \in Clients : d # c \/ kind = "data" => v.link["ctrl"][d] = w.link["ctrl"][d]
           /\ \A d \in Clients : d # c \/ kind = "data" => (DrivenOf(v, d) <=> DrivenOf(w, d))
  <1> DEFINE v == Send(w, kind, c, p, m)
             k == w.link["ctrl"][c]
             l == w.link["data"][c]
             x == WithMore(w.link[kind][c], c, Peer(p, c), m)
             o == Peer(p, c)
  <1>1. LinkSet(v, w, kind, c, x) /\ AfterSend(v.link[kind][c], w.link[kind][c], c, o, m.type)
    BY SendSets
  <1> HIDE DEF v, x
  <1>2. o \in {Host, c} /\ (p = c <=> o = Host) /\ (p = Host <=> o = c)
    BY TwoEnds DEF Peer
  <1> HIDE DEF o
  <1>3. SteadyOf(v, c)
    <2>1. Steady(w.app[Host], w.app[c], k, l, c \in w.pending, c)
      BY DEF AllSteady, SteadyOf
    <2>2. CASE kind = "ctrl"
      <3>1. v.link["ctrl"][c] = x /\ v.link["data"][c] = l /\ AfterSend(x, k, c, o, m.type)
        BY <1>1, <2>2, WhoIsWho DEF LinkSet
      <3>2. /\ m.type # "Ping"
            /\ o = Host => m.type # "VersionConfig" /\ (m.type = "InitialConfig" => ~Has(k.to[c], "Open"))
            /\ o = c /\ m.type = "InitialConfig" => ~NotYet(w.app[c], k, c)
        BY <1>2, <2>2 DEF To
      <3> HIDE DEF k, l
      <3>3. Steady(w.app[Host], w.app[c], x, l, c \in w.pending, c)
        BY <1>2, <2>1, <3>1, <3>2, SendIsSteady
      <3> QED BY <1>1, <3>1, <3>3 DEF LinkSet, SteadyOf
    <2>3. CASE kind = "data"
      <3>1. v.link["ctrl"][c] = k /\ v.link["data"][c] = x /\ AfterSend(x, l, c, o, m.type)
        BY <1>1, <2>3, WhoIsWho DEF LinkSet
      <3> HIDE DEF k, l
      <3>2. Steady(w.app[Host], w.app[c], k, x, c \in w.pending, c)
        BY <1>2, <2>1, <3>1, SendIsSteady
      <3> QED BY <1>1, <3>1, <3>2 DEF LinkSet, SteadyOf
    <2> QED BY <2>2, <2>3 DEF Kinds
  <1>4. AllSteady(v)
    <2>1. v.app = w.app
      BY <1>1 DEF LinkSet
    <2> QED BY <1>1, <1>3, <2>1, LinkSetFrame DEF AllSteady
  <1>5. \A d \in Clients : d # c \/ kind = "data" => v.link["ctrl"][d] = w.link["ctrl"][d]
    BY <1>1, WhoIsWho DEF LinkSet
  <1>6. \A d \in Clients : d # c \/ kind = "data" => (DrivenOf(v, d) <=> DrivenOf(w, d))
    BY <1>1, <1>5, LinkSetFrame DEF LinkSet
  <1>7. v \in World /\ v.app = w.app /\ v.pending = w.pending
    BY <1>1 DEF LinkSet
  <1> QED BY <1>1, <1>4, <1>5, <1>6, <1>7 DEF v, o

\* The connections of c that p has lost.
LEMMA CutLinks ==
    ASSUME NEW w, Typed(w), NEW kind \in Kinds, NEW c \in Clients, NEW p \in Apps
    PROVE  /\ p \in {Host, c} => AfterCut(Cut(w.link[kind][c], c, p), w.link[kind][c], c, p)
           /\ p \notin {Host, c} => Cut(w.link[kind][c], c, p) = w.link[kind][c]
  <1> DEFINE l == w.link[kind][c]
  <1>1. l \in LinkType /\ l.ends \subseteq {Host, c} /\ \A q \in {Host, c} : q \notin l.ends => l.to[q] = << >>
    BY Wires
  <1> HIDE DEF l
  <1>2. p \in {Host, c} => AfterCut(Cut(l, c, p), l, c, p)
    BY <1>1, CutShape
  <1>3. p \notin {Host, c} => Cut(l, c, p) = l
    BY <1>1 DEF Cut
  <1> QED BY <1>2, <1>3 DEF l

\* A client may stop at any time.
LEMMA ClientEndsWell ==
    ASSUME NEW w, Typed(w), HostIsClean(w.app[Host]), NEW c \in Clients,
           \A d \in Clients : d # c => SteadyOf(w, d) /\ DrivenOf(w, d),
           Linked(w.link["ctrl"][c], w.link["data"][c], c),
           Known(w.app[Host], w.app[c], w.link["ctrl"][c], w.link["data"][c], c \in w.pending, c),
           NEW v, Ended(v, w, c)
    PROVE  Hope(v)
  <1>1. c # Host /\ c \in Apps /\ Host \in Apps /\ Clients \subseteq Apps /\ "ctrl" \in Kinds /\ "data" \in Kinds
    BY WhoIsWho
  <1>2. v.app[Host] = w.app[Host] /\ v.pending = w.pending /\ \A d \in Clients : d # c => v.app[d] = w.app[d]
    BY <1>1 DEF Ended
  <1>3. ASSUME NEW d \in Clients, d # c PROVE SteadyOf(v, d) /\ DrivenOf(v, d)
    <2>1. \A kind \in Kinds : v.link[kind][d] = w.link[kind][d]
      <3>1. c \notin {Host, d}
        BY <1>1, <1>3
      <3>2. ASSUME NEW kind \in Kinds PROVE v.link[kind][d] = w.link[kind][d]
        BY <1>1, <3>1, CutLinks DEF Ended
      <3> QED BY <3>2
    <2> QED BY <1>1, <1>2, <1>3, <2>1 DEF SteadyOf, DrivenOf
  <1>4. SteadyOf(v, c) /\ DrivenOf(v, c)
    <2> DEFINE k == w.link["ctrl"][c]
               l == w.link["data"][c]
               x == v.link["ctrl"][c]
               y == v.link["data"][c]
    <2>1. AfterCut(x, k, c, c) /\ MayBeCut(y, l, c, c)
      BY <1>1, CutLinks DEF Ended, MayBeCut
    <2>2. k.ends \subseteq {Host, c} /\ l.ends \subseteq {Host, c}
      BY <1>1, Wires
    <2>3. v.app[c].status \notin {"Idle", "Running", "Starting"} /\ v.app[c].role = w.app[c].role
      BY DEF Ended
    <2> HIDE DEF k, l, x, y
    <2>4. /\ Steady(w.app[Host], v.app[c], x, y, c \in w.pending, c)
          /\ Driven(w.app[Host], v.app[c], x, c)
      <3>1. Linked(k, l, c) /\ Known(w.app[Host], w.app[c], k, l, c \in w.pending, c)
        BY DEF k, l
      <3> QED BY <2>1, <2>2, <2>3, <3>1, ClientIsCut
    <2> QED BY <1>2, <2>4 DEF SteadyOf, DrivenOf, x, y
  <1> QED BY <1>2, <1>3, <1>4 DEF Hope

\* What a client is without the host.
LeftAlone(w, d) ==
    /\ Linked(w.link["ctrl"][d], w.link["data"][d], d)
    /\ Attached(w.app[d], w.link["ctrl"][d], w.link["data"][d], d)
    /\ Early(w.app[d], w.link["ctrl"][d], w.link["data"][d], d)

\* The host may stop at any time.
LEMMA HostEndsWell ==
    ASSUME NEW w, Typed(w), \A d \in Clients : LeftAlone(w, d) /\ (w.app[Host].ctrl = d => w.app[d].role = "Player"),
           NEW v, Ended(v, w, Host)
    PROVE  Hope(v)
  <1>1. Host \in Apps /\ Clients \subseteq Apps /\ Host \notin Clients /\ "ctrl" \in Kinds /\ "data" \in Kinds
    BY WhoIsWho
  <1>2. HostIsClean(v.app[Host]) /\ v.app[Host].ctrl = w.app[Host].ctrl /\ \A d \in Clients : v.app[d] = w.app[d]
    BY <1>1 DEF Ended, HostIsClean
  <1>3. ASSUME NEW d \in Clients PROVE SteadyOf(v, d) /\ DrivenOf(v, d)
    <2> DEFINE k == w.link["ctrl"][d]
               l == w.link["data"][d]
               x == v.link["ctrl"][d]
               y == v.link["data"][d]
    <2>1. AfterCut(x, k, d, Host) /\ AfterCut(y, l, d, Host)
      BY <1>1, CutLinks DEF Ended
    <2>2. k.ends \subseteq {Host, d} /\ l.ends \subseteq {Host, d}
      BY <1>1, Wires
    <2>3. Linked(k, l, d) /\ Attached(w.app[d], k, l, d) /\ Early(w.app[d], k, l, d)
      BY DEF LeftAlone
    <2> HIDE DEF k, l, x, y
    <2>4. v.app[Host].ctrl = d => w.app[d].role = "Player"
      BY <1>2
    <2>5. /\ Steady(v.app[Host], w.app[d], x, y, d \in v.pending, d)
          /\ Driven(v.app[Host], w.app[d], x, d)
      <3>1. MayBeCut(x, k, d, Host)
        BY <2>1 DEF MayBeCut
      <3> QED BY <2>1, <2>2, <2>3, <2>4, <3>1, HostIsCut
    <2> QED BY <1>2, <2>5 DEF SteadyOf, DrivenOf, x, y
  <1> QED BY <1>2, <1>3 DEF Hope

\* The host may let go of the client it has chosen at any time.
LEMMA HostBeginsAnew ==
    ASSUME NEW w, Typed(w), NEW c \in Clients, \A d \in Clients : LeftAlone(w, d),
           c \in w.pending => ~NotYet(w.app[c], w.link["ctrl"][c], c),
           \A d \in Clients : d # c /\ Host \in w.link["ctrl"][d].ends =>
             d \in w.pending \/ Expected(w.link["ctrl"][d], Host),
           \A d \in Clients :
             d # c /\ Sound(w.link["ctrl"][d], d) /\ NotYet(w.app[d], w.link["ctrl"][d], d) /\ w.app[d].role = "Player"
               => Begun(w.link["ctrl"][d], d),
           NEW v, Anew(v, w, c)
    PROVE  Hope(v)
  <1>1. Host \in Apps /\ Clients \subseteq Apps /\ Host \notin Clients /\ "ctrl" \in Kinds /\ "data" \in Kinds
        /\ None \notin Clients
    BY WhoIsWho
  <1> DEFINE n == [NewApp("Player") EXCEPT !.status = "Running"]
  <1>2. v.app[Host] = n /\ v.pending = w.pending /\ \A d \in Clients : v.app[d] = w.app[d]
    BY <1>1 DEF Anew
  <1>3. HostIsClean(n) /\ n.ctrl = None
    BY DEF HostIsClean, NewApp
  <1> HIDE DEF n
  <1>4. ASSUME NEW d \in Clients PROVE SteadyOf(v, d) /\ DrivenOf(v, d)
    <2> DEFINE k == w.link["ctrl"][d]
               l == w.link["data"][d]
               x == v.link["ctrl"][d]
               y == v.link["data"][d]
    <2>1. AfterCut(y, l, d, Host) /\ (IF d = c /\ c \notin w.pending THEN AfterCut(x, k, d, Host) ELSE x = k)
      <3>1. /\ y = Cut(l, d, Host)
            /\ IF d = c /\ c \notin w.pending THEN x = Cut(k, d, Host) ELSE x = k
        BY DEF Anew
      <3>2. AfterCut(Cut(l, d, Host), l, d, Host) /\ AfterCut(Cut(k, d, Host), k, d, Host)
        BY <1>1, CutLinks
      <3> QED BY <3>1, <3>2
    <2>2. k.ends \subseteq {Host, d} /\ l.ends \subseteq {Host, d}
      BY <1>1, Wires
    <2>3. Linked(k, l, d) /\ Attached(w.app[d], k, l, d) /\ Early(w.app[d], k, l, d)
      BY DEF LeftAlone
    <2>4. d # c \/ c \in w.pending =>
            /\ Host \in k.ends => d \in v.pending \/ Expected(k, Host)
            /\ Sound(k, d) /\ NotYet(w.app[d], k, d) /\ w.app[d].role = "Player" => Begun(k, d)
      BY <1>2
    <2> HIDE DEF k, l, x, y
    <2>5. Steady(n, w.app[d], x, y, d \in v.pending, d) /\ Driven(n, w.app[d], x, d)
      <3>1. MayBeCut(x, k, d, Host) /\ n.ctrl # d
        BY <1>1, <1>3, <2>1 DEF MayBeCut
      <3> QED BY <2>1, <2>2, <2>3, <2>4, <3>1, HostIsCut
    <2> QED BY <1>2, <2>5 DEF SteadyOf, DrivenOf, x, y
  <1> QED BY <1>2, <1>3, <1>4 DEF Hope

-----------------------------------------------------------------------------
(* Hope, but for what drives one client.                                   *)

HopeBut(w, c) ==
    HostIsClean(w.app[Host]) /\ \A d \in Clients : SteadyOf(w, d) /\ (d # c => DrivenOf(w, d))

\* There is hope when there is hope but for a client, and that one is driven.
LEMMA HopeIsWhole ==
    ASSUME NEW w, NEW c \in Clients
    PROVE  /\ Hope(w) => HopeBut(w, c) /\ DrivenOf(w, c)
           /\ HopeBut(w, c) /\ DrivenOf(w, c) => Hope(w)
           /\ HopeBut(w, c) => AllSteady(w) /\ SteadyOf(w, c)
    BY DEF Hope, HopeBut, AllSteady

\* A client is a now.
LEMMA ClientKeepsHope ==
    ASSUME NEW w, NEW c \in Clients, HopeBut(w, c), NEW v, NEW a, AppSet(v, w, c, a), a.role = w.app[c].role,
           Attached(a, w.link["ctrl"][c], w.link["data"][c], c), Early(a, w.link["ctrl"][c], w.link["data"][c], c)
    PROVE  /\ HopeBut(v, c) /\ v \in World /\ v.app[c] = a /\ v.app[Host] = w.app[Host] /\ v.link = w.link
           /\ v.pending = w.pending
           /\ DrivenOf(v, c) <=> Driven(w.app[Host], a, w.link["ctrl"][c], c)
  <1>1. /\ v \in World /\ v.link = w.link /\ v.pending = w.pending /\ v.app[c] = a /\ v.app[Host] = w.app[Host]
        /\ \A d \in Clients : d # c => v.app[d] = w.app[d]
    BY WhoIsWho DEF AppSet
  <1>2. \A d \in Clients : d # c => SteadyOf(v, d) /\ DrivenOf(v, d)
    BY <1>1 DEF HopeBut, SteadyOf, DrivenOf
  <1>3. SteadyOf(v, c)
    <2>1. Steady(w.app[Host], w.app[c], w.link["ctrl"][c], w.link["data"][c], c \in w.pending, c)
      BY DEF HopeBut, SteadyOf
    <2>2. Steady(w.app[Host], a, w.link["ctrl"][c], w.link["data"][c], c \in w.pending, c)
      BY <2>1 DEF Steady, Known
    <2> QED BY <1>1, <2>2 DEF SteadyOf
  <1>4. DrivenOf(v, c) <=> Driven(w.app[Host], a, w.link["ctrl"][c], c)
    BY <1>1 DEF DrivenOf
  <1>5. HopeBut(v, c)
    BY <1>1, <1>2, <1>3 DEF HopeBut
  <1> QED BY <1>1, <1>4, <1>5

\* The host is g now, and still has the client e, or none.
LEMMA HostKeepsHope ==
    ASSUME NEW w, NEW e \in Clients, HopeBut(w, e), NEW v, NEW g, AppSet(v, w, Host, g), HostIsClean(g),
           g.ctrl = w.app[Host].ctrl, g.peer = w.app[Host].peer, g.ctrl \in {None, e}
    PROVE  /\ HopeBut(v, e) /\ v \in World /\ v.app[Host] = g /\ v.app[e] = w.app[e] /\ v.link = w.link
           /\ v.pending = w.pending
           /\ DrivenOf(v, e) <=> Driven(g, w.app[e], w.link["ctrl"][e], e)
  <1>1. /\ v \in World /\ v.link = w.link /\ v.pending = w.pending /\ v.app[Host] = g
        /\ \A d \in Clients : v.app[d] = w.app[d]
    BY WhoIsWho DEF AppSet
  <1>2. \A d \in Clients : SteadyOf(v, d)
    BY <1>1 DEF HopeBut, SteadyOf, Steady, Known
  <1>3. \A d \in Clients : d # e => DrivenOf(v, d)
    <2>1. \A d \in Clients : d # e => g.ctrl # d
      BY WhoIsWho
    <2> QED BY <1>1, <2>1 DEF HopeBut, DrivenOf, Driven
  <1>4. DrivenOf(v, e) <=> Driven(g, w.app[e], w.link["ctrl"][e], e)
    BY <1>1 DEF DrivenOf
  <1> QED BY <1>1, <1>2, <1>3, <1>4 DEF HopeBut

\* p sends a control message to its client's other end.
LEMMA SendKeepsHope ==
    ASSUME NEW w \in World, NEW c \in Clients, HopeBut(w, c), NEW p \in {Host, c}, NEW m \in Msg,
           m.type \notin {"Open", "Closed", "Ping"},
           p = c => m.type # "VersionConfig" /\ (m.type = "InitialConfig" => ~Has(To(w, c, c), "Open")),
           p = Host /\ m.type = "InitialConfig" => ~NotYet(w.app[c], w.link["ctrl"][c], c)
    PROVE  LET v == Send(w, "ctrl", c, p, m) IN
           /\ HopeBut(v, c) /\ v \in World /\ v.app = w.app /\ v.pending = w.pending
           /\ AfterSend(v.link["ctrl"][c], w.link["ctrl"][c], c, Peer(p, c), m.type)
           /\ DrivenOf(v, c) <=> Driven(w.app[Host], w.app[c], v.link["ctrl"][c], c)
  <1> DEFINE v == Send(w, "ctrl", c, p, m)
  <1>1. "ctrl" \in Kinds /\ AllSteady(w)
    BY HopeIsWhole, WhoIsWho
  <1>2. /\ v \in World /\ v.app = w.app /\ v.pending = w.pending /\ AllSteady(v)
        /\ AfterSend(v.link["ctrl"][c], w.link["ctrl"][c], c, Peer(p, c), m.type)
        /\ \A d \in Clients : d # c => (DrivenOf(v, d) <=> DrivenOf(w, d))
    BY <1>1, SendKeepsSteady
  <1> HIDE DEF v
  <1>3. HopeBut(v, c)
    BY <1>2 DEF HopeBut, AllSteady
  <1>4. DrivenOf(v, c) <=> Driven(w.app[Host], w.app[c], v.link["ctrl"][c], c)
    BY <1>2 DEF DrivenOf
  <1> QED BY <1>2, <1>3, <1>4 DEF v

\* Whoever runs may stop.
LEMMA StopKeepsHope ==
    ASSUME NEW w, Typed(w), NEW p \in Apps, NEW c \in Clients, HopeBut(w, c), NEW v, Ended(v, w, p), p \in {Host, c}
    PROVE  Hope(v)
  <1>1. \A d \in Clients : SteadyOf(w, d)
    BY DEF HopeBut
  <1>2. CASE p = c
    <2>1. /\ Linked(w.link["ctrl"][c], w.link["data"][c], c)
          /\ Known(w.app[Host], w.app[c], w.link["ctrl"][c], w.link["data"][c], c \in w.pending, c)
      BY <1>1 DEF SteadyOf, Steady
    <2> QED BY <1>2, <2>1, ClientEndsWell DEF HopeBut
  <1>3. CASE p = Host
    <2>1. \A d \in Clients : LeftAlone(w, d) /\ (w.app[Host].ctrl = d => w.app[d].role = "Player")
      BY <1>1 DEF SteadyOf, Steady, Known, LeftAlone
    <2> QED BY <1>3, <2>1, HostEndsWell
  <1> QED BY <1>2, <1>3

\* Stopping keeps hope.
LEMMA StoppingKeepsHope ==
    ASSUME NEW w, Typed(w), NEW p \in Apps, NEW c \in Clients, HopeBut(w, c), p \in {Host, c}
    PROVE  Hope(Stop(w, p))
  <1>1. w \in World
    BY DEF Typed
  <1>2. Ended(Stop(w, p), w, p)
    BY <1>1, StopEnds
  <1> QED BY <1>2, StopKeepsHope

-----------------------------------------------------------------------------
(* The handlers keep hope.                                                 *)

\* p has just read a control message of the type from the connection of c, which was k.
HalfRead(w, p, c, type, k) ==
    /\ Good(w) /\ Running(w, p) /\ HopeBut(w, c) /\ type \notin {"Open", "Closed"}
    /\ AfterRead(w.link["ctrl"][c], k, c, p, type)
    /\ Linked(k, w.link["data"][c], c) /\ Early(w.app[c], k, w.link["data"][c], c)
    /\ Driven(w.app[Host], w.app[c], k, c)

\* l is k of which p has read a message of the type, in all that drives c.
OneLess(l, k, c, p, type) ==
    /\ Sound(l, c) <=> Sound(k, c)
    /\ \A q \in {Host, c} : \A x : /\ Has(l.to[q], x) => Has(k.to[q], x)
                                   /\ Has(k.to[q], x) /\ (q # p \/ x # type) => Has(l.to[q], x)
                                   /\ Twice(k.to[q], x) /\ (q # p \/ x # type) => Twice(l.to[q], x)
    /\ Has(k.to[p], type) /\ (Twice(k.to[p], type) => Has(l.to[p], type))

\* What is at hand when a message was read.
LEMMA HalfReadFacts ==
    ASSUME NEW w, NEW c \in Clients, NEW p \in {Host, c}, NEW type, NEW k, HalfRead(w, p, c, type, k)
    PROVE  /\ OneLess(w.link["ctrl"][c], k, c, p, type)
           /\ w \in World /\ Typed(w) /\ HostInOrder(w) /\ TermsOf(w, c) /\ w.app[Host] \in AppType /\ w.app[c] \in AppType
           /\ HopeBut(w, c) /\ Running(w, p) /\ Good(w) /\ HostIsClean(w.app[Host])
           /\ Attached(w.app[c], w.link["ctrl"][c], w.link["data"][c], c)
           /\ Early(w.app[c], w.link["ctrl"][c], w.link["data"][c], c)
           /\ Known(w.app[Host], w.app[c], w.link["ctrl"][c], w.link["data"][c], c \in w.pending, c)
           /\ NotYet(w.app[c], w.link["ctrl"][c], c) => NotYet(w.app[c], k, c)
           /\ p = c => ~Has(k.to[c], "Open") /\ ~Has(w.link["ctrl"][c].to[c], "Open") /\ w.app[c].ctrl = Host
  <1> DEFINE l == w.link["ctrl"][c]
  <1>1. /\ w \in World /\ Typed(w) /\ HostInOrder(w) /\ TermsOf(w, c) /\ w.app[Host] \in AppType
        /\ w.app[c] \in AppType /\ Good(w) /\ HopeBut(w, c) /\ Running(w, p) /\ HostIsClean(w.app[Host])
    BY GoodFacts, WhoIsWho DEF HalfRead, HopeBut
  <1>2. /\ Peer(Host, c) = c /\ Peer(c, c) = Host /\ Host # c
    BY TwoEnds DEF Peer
  <1>3. AfterRead(l, k, c, p, type) /\ type \notin {"Open", "Closed"} /\ Orderly(k, c)
    BY DEF HalfRead, Linked
  <1>4. SteadyOf(w, c)
    BY <1>1 DEF HopeBut
  <1>5. /\ Attached(w.app[c], l, w.link["data"][c], c) /\ Early(w.app[c], l, w.link["data"][c], c)
        /\ Known(w.app[Host], w.app[c], l, w.link["data"][c], c \in w.pending, c)
    BY <1>4 DEF SteadyOf, Steady
  <1> HIDE DEF l
  <1>6. /\ l.ends = k.ends
        /\ \A q \in {Host, c} : \A x : /\ Has(l.to[q], x) => Has(k.to[q], x)
                                       /\ Has(k.to[q], x) /\ (q # p \/ x # type) => Has(l.to[q], x)
                                       /\ Twice(k.to[q], x) /\ (q # p \/ x # type) => Twice(l.to[q], x)
        /\ Has(k.to[p], type) /\ (Twice(k.to[p], type) => Has(l.to[p], type))
    BY <1>2, <1>3 DEF AfterRead
  <1>7. Sound(l, c) <=> Sound(k, c)
    BY <1>3, <1>6 DEF Sound
  <1>8. OneLess(l, k, c, p, type)
    BY <1>6, <1>7 DEF OneLess
  <1>9. NotYet(w.app[c], l, c) => NotYet(w.app[c], k, c)
    BY <1>6 DEF NotYet
  <1>10. p = c => ~Has(k.to[c], "Open") /\ ~Has(l.to[c], "Open")
    BY <1>3 DEF AfterRead
  <1>11. p = c => w.app[c].ctrl = Host
    BY <1>1, <1>5 DEF Attached, Running
  <1> QED BY <1>1, <1>5, <1>8, <1>9, <1>10, <1>11 DEF l

\* A message that carries nobody on.
LEMMA IdleMessage ==
    ASSUME NEW w, NEW c \in Clients, NEW p \in {Host, c}, NEW type, NEW k, HalfRead(w, p, c, type, k),
           \/ type \in {"ErrorMessage", "ConfirmConfig"}
           \/ p = Host /\ type \in {"VersionConfig", "NetplayConfig"}
           \/ p = Host /\ type = "PingStats" /\ w.app[Host].ctrl # c
    PROVE  Hope(w)
  <1> DEFINE l == w.link["ctrl"][c]
  <1>1. OneLess(l, k, c, p, type) /\ HopeBut(w, c) /\ (NotYet(w.app[c], l, c) => NotYet(w.app[c], k, c))
    BY HalfReadFacts
  <1>2. Driven(w.app[Host], w.app[c], k, c) /\ Host # c
    BY WhoIsWho DEF HalfRead
  <1> HIDE DEF l
  <1>3. NotYet(w.app[c], l, c) /\ w.app[c].role = "Player" /\ Sound(l, c) => Begun(l, c)
    BY <1>1, <1>2 DEF OneLess, Driven, Begun
  <1>4. w.app[Host].ctrl = c /\ Sound(l, c) => Carried(w.app[Host], w.app[c], l, c)
    BY <1>1, <1>2 DEF OneLess, Driven, Carried
  <1>5. DrivenOf(w, c)
    BY <1>3, <1>4 DEF DrivenOf, Driven, l
  <1> QED BY <1>1, <1>5, HopeIsWhole

\* A client reads a VersionConfig.
LEMMA ClientReadsVersion ==
    ASSUME NEW w, NEW c \in Clients, NEW k, HalfRead(w, c, c, "VersionConfig", k)
    PROVE  /\ w.app[c].role # "Player" => Hope(w)
           /\ Hope(GotVersionConfig(w, c, c))
  <1> DEFINE l == w.link["ctrl"][c]
             m == [type |-> "InitialConfig", port |-> 0]
             v == Send(w, "ctrl", c, c, m)
             x == v.link["ctrl"][c]
  <1>1. /\ OneLess(l, k, c, c, "VersionConfig") /\ HopeBut(w, c) /\ (NotYet(w.app[c], l, c) => NotYet(w.app[c], k, c))
        /\ w \in World /\ Typed(w) /\ ~Has(l.to[c], "Open") /\ ~Has(k.to[c], "Open")
        /\ Known(w.app[Host], w.app[c], l, w.link["data"][c], c \in w.pending, c)
    BY HalfReadFacts
  <1>2. Driven(w.app[Host], w.app[c], k, c) /\ Host # c /\ c \in Apps /\ Peer(c, c) = Host
    BY TwoEnds DEF HalfRead, Peer
  <1>3. ASSUME w.app[c].role # "Player" PROVE Hope(w)
    <2>1. DrivenOf(w, c)
      BY <1>1, <1>3 DEF DrivenOf, Driven, Known
    <2> QED BY <1>1, <2>1, HopeIsWhole
  <1>4. Hope(Stop(w, c))
    BY <1>1, <1>2, StoppingKeepsHope
  <1>5. m \in Msg /\ m.type = "InitialConfig"
    BY DEF Msg
  <1> HIDE DEF m
  <1>6. /\ HopeBut(v, c) /\ AfterSend(x, l, c, Host, "InitialConfig")
        /\ DrivenOf(v, c) <=> Driven(w.app[Host], w.app[c], x, c)
    BY <1>1, <1>2, <1>5, SendKeepsHope DEF To
  <1> HIDE DEF v, x, l
  <1>7. /\ x.ends = l.ends /\ (\A y : Has(x.to[c], y) <=> Has(l.to[c], y))
        /\ (\A y : Twice(x.to[c], y) <=> Twice(l.to[c], y))
        /\ (\A y : Has(l.to[Host], y) => Has(x.to[Host], y))
        /\ (\A y : Has(x.to[Host], y) /\ y # "InitialConfig" => Has(l.to[Host], y))
        /\ l.ends = {Host, c} => Has(x.to[Host], "InitialConfig")
    BY <1>2, <1>6, TwoEnds DEF AfterSend, Peer
  <1>8. Driven(w.app[Host], w.app[c], x, c)
    <2>1. SUFFICES ASSUME Sound(x, c) PROVE Begun(x, c) /\ (w.app[Host].ctrl = c => Carried(w.app[Host], w.app[c], x, c))
      BY DEF Driven
    <2>2. Sound(l, c) /\ Sound(k, c) /\ l.ends = {Host, c}
      BY <1>1, <1>7, <2>1 DEF OneLess, Sound
    <2>3. Begun(x, c)
      BY <1>7, <2>2 DEF Begun
    <2>4. w.app[Host].ctrl = c => Carried(w.app[Host], w.app[c], x, c)
      BY <1>1, <1>2, <1>7, <2>2 DEF OneLess, Driven, Carried
    <2> QED BY <2>3, <2>4
  <1>9. Hope(v)
    BY <1>6, <1>8, HopeIsWhole
  <1>10. GotVersionConfig(w, c, c) \in {Stop(w, c), v}
    BY <1>2 DEF GotVersionConfig, SendCtrl, ClientOf, v, m
  <1> QED BY <1>3, <1>4, <1>9, <1>10

\* A client reads an InitialConfig.
LEMMA ClientReadsInitial ==
    ASSUME NEW w, NEW c \in Clients, NEW k, HalfRead(w, c, c, "InitialConfig", k),
           NEW msg \in Msg, msg.type = "InitialConfig"
    PROVE  Hope(GotInitialConfig(w, c, msg))
  <1> DEFINE l == w.link["ctrl"][c]
             b == w.app[c]
             h == w.app[Host]
  <1>1. /\ OneLess(l, k, c, c, "InitialConfig") /\ HopeBut(w, c) /\ (NotYet(b, l, c) => NotYet(b, k, c))
        /\ w \in World /\ Typed(w) /\ ~Has(l.to[c], "Open") /\ b \in AppType /\ Attached(b, l, w.link["data"][c], c)
    BY HalfReadFacts
  <1>2. Driven(h, b, k, c) /\ Host # c /\ c \in Apps /\ Host \in Apps /\ Peer(c, c) = Host
        /\ Early(b, k, w.link["data"][c], c)
    BY TwoEnds DEF HalfRead, Peer
  <1>3. ~NotYet(b, l, c)
    BY <1>1, <1>2 DEF Early, OneLess
  <1>4. CASE ~b.ready
    <2> DEFINE a == [b EXCEPT !.ready = TRUE]
               t == [w EXCEPT !.app[c] = a]
               m == [type |-> "InitialConfig", port |-> b.port]
               v == Send(t, "ctrl", c, c, m)
               x == v.link["ctrl"][c]
    <2>1. GotInitialConfig(w, c, msg) = v
      BY <1>2, <1>4 DEF GotInitialConfig, SendCtrl, ClientOf
    <2>2. /\ a \in AppType /\ a.ready /\ a.role = b.role /\ a.status = b.status /\ a.data = b.data /\ a.ui = b.ui
          /\ a.ctrl = b.ctrl /\ a.confirmed = b.confirmed /\ a.final = b.final /\ a.pinger = b.pinger
      BY <1>1 DEF AppType
    <2>3. m \in Msg /\ m.type = "InitialConfig"
      BY <1>1 DEF AppType, Msg
    <2> HIDE DEF a, m
    <2>4. AppSet(t, w, c, a)
      BY <1>1, <1>2, <2>2, AppSetShape
    <2> HIDE DEF t, b
    <2>5. ~NotYet(a, l, c) /\ Attached(a, l, w.link["data"][c], c) /\ Early(a, l, w.link["data"][c], c)
      BY <1>1, <1>3, <2>2 DEF NotYet, Attached, Early
    <2>6. HopeBut(t, c) /\ t \in World /\ t.app[c] = a /\ t.app[Host] = h /\ t.link["ctrl"][c] = l
      BY <1>1, <2>2, <2>4, <2>5, ClientKeepsHope DEF b
    <2> HIDE DEF l
    <2>7. /\ HopeBut(v, c) /\ AfterSend(x, l, c, Host, "InitialConfig")
          /\ DrivenOf(v, c) <=> Driven(h, a, x, c)
      BY <1>1, <1>2, <2>3, <2>6, SendKeepsHope DEF To
    <2> HIDE DEF v, x, h
    <2>8. /\ x.ends = l.ends /\ (\A y : Has(x.to[c], y) <=> Has(l.to[c], y))
          /\ (\A y : Twice(x.to[c], y) <=> Twice(l.to[c], y))
          /\ (\A y : Has(l.to[Host], y) => Has(x.to[Host], y))
          /\ (\A y : Has(x.to[Host], y) /\ y # "InitialConfig" => Has(l.to[Host], y))
          /\ l.ends = {Host, c} => Has(x.to[Host], "InitialConfig")
      BY <1>2, <2>7, TwoEnds DEF AfterSend, Peer
    <2>9. Driven(h, a, x, c)
      <3>1. ~NotYet(a, x, c)
        BY <2>5, <2>8 DEF NotYet
      <3>2. SUFFICES ASSUME Sound(x, c), h.ctrl = c PROVE Carried(h, a, x, c)
        BY <3>1 DEF Driven
      <3>3. Sound(l, c) /\ Sound(k, c) /\ l.ends = {Host, c}
        BY <1>1, <2>8, <3>2 DEF OneLess, Sound
      <3>4. Carried(h, b, k, c)
        BY <1>2, <3>2, <3>3 DEF Driven
      <3> QED BY <1>1, <1>2, <1>4, <2>2, <2>8, <3>3, <3>4 DEF OneLess, Carried
    <2> QED BY <2>1, <2>7, <2>9, HopeIsWhole
  <1>5. CASE b.ready
    <2> DEFINE a == [b EXCEPT !.port = msg.port, !.data = "Connecting"]
               t == [w EXCEPT !.app[c] = a]
               there == Running(w, Host) /\ w.app[Host].data = "Listening" /\ msg.port # 0
               E == IF there THEN {Host, c} ELSE {c}
               m == IF there THEN [type |-> "Open"] ELSE [type |-> "Closed"]
               y == [to |-> Told(E, m), ends |-> E]
               v == [t EXCEPT !.link["data"][c] = y]
    <2>1. GotInitialConfig(w, c, msg) = v
      BY <1>2, <1>5 DEF GotInitialConfig, Connect
    <2>2. /\ a \in AppType /\ a.data = "Connecting" /\ a.role = b.role /\ a.status = b.status /\ a.ui = b.ui
          /\ a.ctrl = b.ctrl /\ a.confirmed = b.confirmed /\ a.final = b.final /\ a.pinger = b.pinger
      <3>1. msg.port \in {0, 1}
        BY MsgFields
      <3> QED BY <1>1, <3>1 DEF AppType
    <2> HIDE DEF a
    <2>3. AppSet(t, w, c, a)
      BY <1>1, <1>2, <2>2, AppSetShape
    <2>4. E \subseteq {Host, c} /\ c \in E /\ m \in Msg /\ m.type = IF Host \in E THEN "Open" ELSE "Closed"
      BY <1>2 DEF Msg
    <2> HIDE DEF t, E, m
    <2>5. y \in LinkType /\ y.ends = E /\ \A q \in {Host, c} : \A z : Has(y.to[q], z) <=> q \in E /\ z = m.type
      <3>1. y \in LinkType /\ y.ends = E
        BY <2>4, NewLink
      <3>2. \A q \in {Host, c} : y.to[q] = IF q \in E THEN << m >> ELSE << >>
        BY <1>2 DEF Told
      <3> HIDE DEF y
      <3> QED BY <2>4, <3>1, <3>2, OneMessage, EmptyQueue
    <2> HIDE DEF y
    <2>6. t \in World /\ t.app[c] = a /\ t.app[Host] = h /\ t.link = w.link /\ t.pending = w.pending
          /\ \A d \in Clients : d # c => t.app[d] = w.app[d]
      BY <1>2, <2>3, WhoIsWho DEF AppSet
    <2>7. LinkSet(v, t, "data", c, y)
      BY <2>5, <2>6, LinkSetShape, WhoIsWho
    <2> HIDE DEF v
    <2>8. /\ v.app[Host] = h /\ v.app[c] = a /\ v.pending = w.pending /\ v.link["data"][c] = y
          /\ v.link["ctrl"][c] = l
          /\ \A d \in Clients : d # c => /\ v.app[d] = w.app[d] /\ v.link["ctrl"][d] = w.link["ctrl"][d]
                                         /\ v.link["data"][d] = w.link["data"][d]
      BY <2>6, <2>7, WhoIsWho DEF LinkSet
    <2>9. ASSUME NEW d \in Clients, d # c PROVE SteadyOf(v, d) /\ DrivenOf(v, d)
      BY <1>1, <2>8, <2>9 DEF HopeBut, SteadyOf, DrivenOf
    <2>10. SteadyOf(w, c)
      BY <1>1, HopeIsWhole
    <2>11. Steady(h, b, l, w.link["data"][c], c \in w.pending, c)
      BY <2>10 DEF SteadyOf
    <2> HIDE DEF h, b, l
    <2>12. Steady(h, a, l, y, c \in w.pending, c)
      <3>1. Noticed(y, c)
        BY <1>2, <2>4, <2>5 DEF Noticed
      <3>2. Attached(a, l, y, c)
        BY <2>2, <2>4, <2>5, <2>11 DEF Attached, Expected, Steady
      <3>3. Known(h, a, l, y, c \in w.pending, c)
        BY <2>2, <2>4, <2>5, <2>11 DEF Known, Expected, Steady
      <3>4. Early(a, l, y, c)
        BY <1>3, <2>2 DEF Early, NotYet
      <3> QED BY <2>11, <3>1, <3>2, <3>3, <3>4 DEF Steady, Linked
    <2>13. Driven(h, a, l, c)
      <3>1. ~NotYet(a, l, c)
        BY <1>3, <2>2 DEF NotYet
      <3>2. Sound(l, c) /\ h.ctrl = c => Carried(h, a, l, c)
        BY <1>1, <1>2, <2>2 DEF OneLess, Driven, Carried
      <3> QED BY <3>1, <3>2 DEF Driven
    <2>14. SteadyOf(v, c) /\ DrivenOf(v, c) /\ HostIsClean(v.app[Host])
      BY <1>1, <2>8, <2>12, <2>13 DEF SteadyOf, DrivenOf, HopeBut, h
    <2> QED BY <2>1, <2>9, <2>14 DEF Hope
  <1> QED BY <1>4, <1>5

\* pingerSendPing
LEMMA PingIsSent ==
    ASSUME NEW w, Typed(w), NEW c \in Clients, NEW p \in {Host, c}, Running(w, p), HopeBut(w, c), NEW origin \in Apps
    PROVE  LET v == PingerSendPing(w, p, origin) IN
           \/ ~Running(v, p) /\ Hope(v)
           \/ /\ Running(v, p) /\ v \in World /\ v.app = w.app /\ v.pending = w.pending /\ HopeBut(v, c)
              /\ (\A d \in Clients : v.link["ctrl"][d] = w.link["ctrl"][d])
              /\ (DrivenOf(v, c) <=> DrivenOf(w, c))
  <1> DEFINE e == ClientOf(w, p, "data")
             m == [type |-> "Ping", from |-> origin]
             y == Send(w, "data", e, p, m)
             v == PingerSendPing(w, p, origin)
  <1>1. w \in World /\ p \in Apps /\ "data" \in Kinds /\ "ctrl" \in Kinds /\ w.app[Host] \in AppType /\ None \notin Clients
    BY WorldFields, WhoIsWho DEF Typed
  <1>2. CASE w.app[p].data # "Open" \/ ~Connected(w, p, "data")
    <2>1. v = Stop(w, p)
      BY <1>2 DEF PingerSendPing
    <2>2. Hope(Stop(w, p))
      BY <1>1, StoppingKeepsHope
    <2>3. ~Running(Stop(w, p), p)
      BY <1>1, StopEnds DEF Ended, Running
    <2> QED BY <2>1, <2>2, <2>3
  <1>3. CASE w.app[p].data = "Open" /\ Connected(w, p, "data")
    <2>1. v = y
      BY <1>3 DEF PingerSendPing
    <2>2. e \in Clients /\ p \in {Host, e}
      BY <1>1, <1>3, WhoIsWho DEF Connected, ClientOf, AppType
    <2>3. m \in Msg /\ m.type = "Ping"
      BY DEF Msg
    <2>4. AllSteady(w)
      BY HopeIsWhole
    <2> HIDE DEF m, e
    <2>5. /\ y \in World /\ y.app = w.app /\ y.pending = w.pending /\ AllSteady(y)
          /\ \A d \in Clients : y.link["ctrl"][d] = w.link["ctrl"][d]
          /\ \A d \in Clients : DrivenOf(y, d) <=> DrivenOf(w, d)
      <3>1. /\ m.type \notin {"Open", "Closed"} /\ "data" # "ctrl" /\ w \in World /\ "data" \in Kinds
            /\ e \in Clients /\ p \in {Host, e}
        BY <1>1, <2>2, <2>3
      <3> HIDE DEF y
      <3>2. /\ y \in World /\ y.app = w.app /\ y.pending = w.pending /\ AllSteady(y)
            /\ \A d \in Clients : d # e \/ "data" = "data" => y.link["ctrl"][d] = w.link["ctrl"][d]
            /\ \A d \in Clients : d # e \/ "data" = "data" => (DrivenOf(y, d) <=> DrivenOf(w, d))
        BY <2>3, <2>4, <3>1, SendKeepsSteady DEF y
      <3> QED BY <3>2
    <2> HIDE DEF y
    <2>6. HopeBut(y, c) /\ Running(y, p)
      BY <2>5 DEF HopeBut, AllSteady, Running
    <2> HIDE DEF v
    <2> QED BY <2>1, <2>5, <2>6 DEF v
  <1> QED BY <1>2, <1>3

\* An application whose Pinger has just started.
Pinging(b) == [b EXCEPT !.pinger = [@ EXCEPT !.on = TRUE, !.count = 1]]

\* Whose Pinger starts is as it was.
LEMMA PingingShape ==
    ASSUME NEW b \in AppType
    PROVE  LET a == Pinging(b) IN
           /\ a \in AppType /\ a.pinger.on /\ a.role = b.role /\ a.status = b.status /\ a.ctrl = b.ctrl
           /\ a.data = b.data /\ a.peer = b.peer /\ a.ready = b.ready /\ a.final = b.final /\ a.ui = b.ui
           /\ a.confirmed = b.confirmed
  <1> DEFINE n == [b.pinger EXCEPT !.on = TRUE, !.count = 1]
  <1>1. n \in PingerType /\ n.on
    <2>1. b.pinger \in PingerType /\ 1 \in 0 .. NumPings
      BY SetupAssumption DEF AppType
    <2> QED BY <2>1 DEF PingerType
  <1>2. Pinging(b) = [b EXCEPT !.pinger = n]
    BY DEF Pinging
  <1> HIDE DEF n
  <1> QED BY <1>1, <1>2 DEF AppType

\* Pinger::start of a client.
LEMMA ClientPingsWell ==
    ASSUME NEW w, Typed(w), NEW c \in Clients, Running(w, c), HopeBut(w, c),
           Driven(w.app[Host], Pinging(w.app[c]), w.link["ctrl"][c], c)
    PROVE  Hope(PingerStart(w, c))
  <1> DEFINE x == PingerSendPing(w, c, c)
             a == Pinging(w.app[c])
             v == [x EXCEPT !.app[c] = a]
  <1>1. c \in Apps /\ Host \in Apps /\ w \in World /\ w.app[c] \in AppType
    BY WorldFields, WhoIsWho DEF Typed
  <1>2. PingerStart(w, c) = IF ~Running(x, c) THEN x ELSE [x EXCEPT !.app[c] = Pinging(x.app[c])]
    BY DEF PingerStart, Pinging
  <1>3. \/ ~Running(x, c) /\ Hope(x)
        \/ /\ Running(x, c) /\ x \in World /\ x.app = w.app /\ HopeBut(x, c)
           /\ x.link["ctrl"][c] = w.link["ctrl"][c]
    BY <1>1, PingIsSent
  <1> HIDE DEF x
  <1>4. CASE /\ Running(x, c) /\ x \in World /\ x.app = w.app /\ HopeBut(x, c)
             /\ x.link["ctrl"][c] = w.link["ctrl"][c]
    <2>1. PingerStart(w, c) = v
      BY <1>2, <1>4
    <2>2. a \in AppType /\ a.role = w.app[c].role /\ a.status = w.app[c].status /\ a.ctrl = w.app[c].ctrl
          /\ a.data = w.app[c].data /\ a.ready = w.app[c].ready /\ a.final = w.app[c].final /\ a.ui = w.app[c].ui
          /\ a.confirmed = w.app[c].confirmed
      BY <1>1, PingingShape
    <2>3. Driven(x.app[Host], a, x.link["ctrl"][c], c)
      BY <1>4
    <2> HIDE DEF a
    <2>4. AppSet(v, x, c, a)
      BY <1>1, <1>4, <2>2, AppSetShape
    <2> HIDE DEF v
    <2>5. SteadyOf(x, c)
      BY <1>4, HopeIsWhole
    <2>6. Attached(a, x.link["ctrl"][c], x.link["data"][c], c) /\ Early(a, x.link["ctrl"][c], x.link["data"][c], c)
      BY <1>4, <2>2, <2>5 DEF SteadyOf, Steady, Attached, Early, NotYet
    <2>7. HopeBut(v, c) /\ DrivenOf(v, c)
      BY <1>4, <2>2, <2>3, <2>4, <2>6, ClientKeepsHope
    <2> QED BY <2>1, <2>7, HopeIsWhole
  <1> QED BY <1>2, <1>3, <1>4

\* Pinger::start of a host that has chosen e.
LEMMA HostPingsWell ==
    ASSUME NEW w, Typed(w), NEW e \in Clients, Running(w, Host), HopeBut(w, e), w.app[Host].ctrl = e,
           Driven(Pinging(w.app[Host]), w.app[e], w.link["ctrl"][e], e)
    PROVE  Hope(PingerStart(w, Host))
  <1> DEFINE x == PingerSendPing(w, Host, Host)
             a == Pinging(w.app[Host])
             v == [x EXCEPT !.app[Host] = a]
  <1>1. Host \in Apps /\ w \in World /\ w.app[Host] \in AppType
    BY WorldFields, WhoIsWho DEF Typed
  <1>2. PingerStart(w, Host) = IF ~Running(x, Host) THEN x ELSE [x EXCEPT !.app[Host] = Pinging(x.app[Host])]
    BY DEF PingerStart, Pinging
  <1>3. \/ ~Running(x, Host) /\ Hope(x)
        \/ /\ Running(x, Host) /\ x \in World /\ x.app = w.app /\ HopeBut(x, e)
           /\ x.link["ctrl"][e] = w.link["ctrl"][e]
    BY <1>1, PingIsSent
  <1> HIDE DEF x
  <1>4. CASE /\ Running(x, Host) /\ x \in World /\ x.app = w.app /\ HopeBut(x, e)
             /\ x.link["ctrl"][e] = w.link["ctrl"][e]
    <2>1. PingerStart(w, Host) = v
      BY <1>2, <1>4
    <2>2. a \in AppType /\ a.status = w.app[Host].status /\ a.ctrl = w.app[Host].ctrl /\ a.data = w.app[Host].data
          /\ a.ready = w.app[Host].ready /\ a.peer = w.app[Host].peer
      BY <1>1, PingingShape
    <2>3. Driven(a, x.app[e], x.link["ctrl"][e], e)
      BY <1>4
    <2> HIDE DEF a
    <2>4. AppSet(v, x, Host, a)
      BY <1>1, <1>4, <2>2, AppSetShape
    <2> HIDE DEF v
    <2>5. HostIsClean(a)
      BY <1>4, <2>2 DEF HopeBut, HostIsClean
    <2>6. HopeBut(v, e) /\ DrivenOf(v, e)
      BY <1>4, <2>2, <2>3, <2>4, <2>5, HostKeepsHope
    <2> QED BY <2>1, <2>6, HopeIsWhole
  <1> QED BY <1>2, <1>3, <1>4

\* A client reads the statistics of the host.
LEMMA ClientReadsStats ==
    ASSUME NEW w, NEW c \in Clients, NEW k, HalfRead(w, c, c, "PingStats", k), NEW m \in Msg, m.type = "PingStats",
           Taken(w, c, c, m), NEW v \in GotPingStats(w, c, m)
    PROVE  Hope(v)
  <1> DEFINE l == w.link["ctrl"][c]
             b == w.app[c]
             h == w.app[Host]
             a == [b EXCEPT !.stats = m.samples]
             t == [w EXCEPT !.app[c] = a]
  <1>1. /\ OneLess(l, k, c, c, "PingStats") /\ HopeBut(w, c) /\ w \in World /\ Typed(w) /\ b \in AppType
        /\ Attached(b, l, w.link["data"][c], c) /\ Early(b, l, w.link["data"][c], c) /\ Running(w, c)
    BY HalfReadFacts
  <1>2. Driven(h, b, k, c) /\ Host # c /\ c \in Apps
    BY TwoEnds DEF HalfRead
  <1>3. /\ ~Untried(w, c) /\ ~HostAsks(w, c) /\ b.ui = "No"
    BY <1>2 DEF Taken, Between
  <1>4. ~NotYet(b, l, c)
    BY <1>3 DEF NotYet, Untried, To
  <1>5. v = PingerStart(t, c)
    BY <1>2 DEF GotPingStats
  <1>6. m.samples \in Samples
    BY MsgFields
  <1>7. /\ a \in AppType /\ a.role = b.role /\ a.status = b.status /\ a.ctrl = b.ctrl /\ a.data = b.data
        /\ a.ready = b.ready /\ a.final = b.final /\ a.ui = b.ui /\ a.confirmed = b.confirmed
    BY <1>1, <1>6 DEF AppType
  <1> HIDE DEF a
  <1>8. AppSet(t, w, c, a)
    BY <1>1, <1>2, <1>7, AppSetShape
  <1> HIDE DEF t
  <1>9. Attached(a, l, w.link["data"][c], c) /\ Early(a, l, w.link["data"][c], c) /\ ~NotYet(a, l, c)
    <2> HIDE DEF b, l
    <2> QED BY <1>1, <1>4, <1>7 DEF Attached, Early, NotYet
  <1>10. HopeBut(t, c) /\ t.app[c] = a /\ t.app[Host] = h /\ t.link["ctrl"][c] = l
    BY <1>1, <1>7, <1>8, <1>9, ClientKeepsHope
  <1>11. Typed(t) /\ Running(t, c)
    <2>1. a.status \in {"Running", "Starting"}
      BY <1>1, <1>7 DEF Running
    <2>2. Typed(t)
      BY <1>1, <1>2, <1>8, <2>1, AppSetIsTyped
    <2> QED BY <1>10, <2>1, <2>2 DEF Running
  <1>12. Driven(h, Pinging(a), l, c)
    <2> DEFINE d == Pinging(a)
    <2>1. d.pinger.on /\ d.status = a.status /\ d.data = a.data /\ d.ready = a.ready /\ d.final = a.final /\ d.ui = a.ui
      BY <1>7, PingingShape
    <2> HIDE DEF d, l, b
    <2>2. ~NotYet(d, l, c)
      BY <1>9, <2>1 DEF NotYet
    <2>3. SUFFICES ASSUME Sound(l, c), h.ctrl = c PROVE Carried(h, d, l, c)
      BY <2>2 DEF Driven, d
    <2>4. Carried(h, b, k, c)
      BY <1>1, <1>2, <2>3 DEF OneLess, Driven
    <2>5. h.ui = "No"
      BY <1>3, <2>3 DEF HostAsks
    <2> QED BY <1>1, <1>2, <1>3, <1>7, <2>1, <2>4, <2>5 DEF Carried, OneLess
  <1>13. Hope(PingerStart(t, c))
    BY <1>10, <1>11, <1>12, ClientPingsWell
  <1> QED BY <1>5, <1>13

\* startGame of a client that is ready, and is a by then.
LEMMA ClientStartsWell ==
    ASSUME NEW w, Typed(w), NEW c \in Clients, HopeBut(w, c), NEW t, NEW a \in AppType, AppSet(t, w, c, a),
           a.confirmed, a.final, a.ctrl = Host, a.role = w.app[c].role,
           w.app[Host].ctrl = c /\ Sound(w.link["ctrl"][c], c) => Carried(w.app[Host], a, w.link["ctrl"][c], c)
    PROVE  Hope(StartGameIfReady(t, c))
  <1> DEFINE l == w.link["ctrl"][c]
             h == w.app[Host]
             m == [type |-> "ConfirmConfig"]
             x == Send(t, "ctrl", c, c, m)
             y == Send(w, "ctrl", c, c, m)
             d == [a EXCEPT !.status = "Starting"]
             v == [x EXCEPT !.app[c] = d]
             z == y.link["ctrl"][c]
  <1>1. c \in Apps /\ Host # c /\ w \in World /\ t \in World /\ Peer(c, c) = Host /\ "ctrl" \in Kinds
    BY TwoEnds, WhoIsWho DEF Typed, AppSet, Peer
  <1>2. t.link = w.link /\ t.pending = w.pending /\ t.app[c] = a /\ \A q \in Apps : q # c => t.app[q] = w.app[q]
    BY DEF AppSet
  <1>3. m \in Msg /\ m.type = "ConfirmConfig"
    BY DEF Msg
  <1> HIDE DEF m
  <1>4. /\ HopeBut(y, c) /\ y \in World /\ y.app = w.app /\ y.pending = w.pending
        /\ AfterSend(z, l, c, Host, "ConfirmConfig")
    BY <1>1, <1>3, SendKeepsHope
  <1>5. LinkSet(x, t, "ctrl", c, WithMore(t.link["ctrl"][c], c, Host, m))
    BY <1>1, <1>3, SendSets
  <1>6. LinkSet(y, w, "ctrl", c, WithMore(l, c, Host, m))
    BY <1>1, <1>3, SendSets
  <1>7. x \in World /\ x.app = t.app /\ x.pending = y.pending /\ x.link = y.link
    <2>1. \A kind \in Kinds, e \in Clients : x.link[kind][e] = y.link[kind][e]
      <3> HIDE DEF x, y
      <3> QED BY <1>2, <1>5, <1>6 DEF LinkSet
    <2>2. x \in World /\ x.app = t.app /\ x.pending = t.pending
      BY <1>5 DEF LinkSet
    <2> HIDE DEF x, y
    <2>3. x.link \in [Kinds -> [Clients -> LinkType]] /\ y.link \in [Kinds -> [Clients -> LinkType]]
      BY <1>4, <2>2, WorldFields
    <2> QED BY <1>2, <1>4, <2>1, <2>2, <2>3
  <1>8. StartGameIfReady(t, c) = v
    <2>1. StartGameIfReady(t, c) = [x EXCEPT !.app[c].status = "Starting"]
      BY <1>1, <1>2 DEF StartGameIfReady, StartGame, SendCtrl, ClientOf, m
    <2> HIDE DEF x
    <2> QED BY <1>2, <1>7, <2>1
  <1>9. /\ d \in AppType /\ d.status = "Starting" /\ d.role = a.role /\ d.ctrl = Host /\ d.data = a.data
        /\ d.ready = a.ready /\ d.final = a.final /\ d.ui = a.ui /\ d.pinger = a.pinger
    BY DEF AppType
  <1> HIDE DEF x, y, d, z
  <1>10. AppSet(v, x, c, d)
    BY <1>1, <1>7, <1>9, AppSetShape
  <1> HIDE DEF v
  <1>11. AppSet(v, y, c, d)
    <2>1. \A q \in Apps : q # c => x.app[q] = y.app[q]
      BY <1>2, <1>4, <1>7
    <2> QED BY <1>7, <1>10, <2>1 DEF AppSet
  <1>12. Attached(d, y.link["ctrl"][c], y.link["data"][c], c) /\ Early(d, y.link["ctrl"][c], y.link["data"][c], c)
    BY <1>9 DEF Attached, Early, NotYet
  <1>13. HopeBut(v, c) /\ (DrivenOf(v, c) <=> Driven(h, d, z, c))
    BY <1>4, <1>9, <1>11, <1>12, ClientKeepsHope DEF z
  <1>14. /\ z.ends = l.ends /\ (\A q \in {Host, c} : \A n : Has(l.to[q], n) => Has(z.to[q], n))
         /\ (\A q \in {Host, c} : \A n : n # "ConfirmConfig" /\ Has(z.to[q], n) => Has(l.to[q], n))
         /\ (\A q \in {Host, c} : \A n : Twice(l.to[q], n) => Twice(z.to[q], n))
    BY <1>4, TwoEnds DEF AfterSend, Peer
  <1> HIDE DEF l
  <1>15. Driven(h, d, z, c)
    <2>1. ~NotYet(d, z, c)
      BY <1>9 DEF NotYet
    <2>2. SUFFICES ASSUME Sound(z, c), h.ctrl = c PROVE Carried(h, d, z, c)
      BY <2>1 DEF Driven
    <2>3. Sound(l, c)
      BY <1>14, <2>2 DEF Sound
    <2>4. Carried(h, a, l, c)
      BY <2>2, <2>3 DEF l
    <2> HIDE DEF h
    <2> QED BY <1>9, <1>14, <2>4 DEF Carried
  <1> QED BY <1>8, <1>13, <1>15, HopeIsWhole

\* A client reads a NetplayConfig.
LEMMA ClientReadsConfig ==
    ASSUME NEW w, NEW c \in Clients, NEW k, HalfRead(w, c, c, "NetplayConfig", k), NEW m \in Msg,
           m.type = "NetplayConfig", Taken(w, c, c, m)
    PROVE  Hope(GotNetplayConfig(w, c, m))
  <1> DEFINE l == w.link["ctrl"][c]
             b == w.app[c]
             h == w.app[Host]
             a == [b EXCEPT !.session = m.session, !.final = TRUE]
             t == [w EXCEPT !.app[c] = a]
  <1>1. /\ OneLess(l, k, c, c, "NetplayConfig") /\ HopeBut(w, c) /\ w \in World /\ Typed(w) /\ b \in AppType
        /\ Attached(b, l, w.link["data"][c], c) /\ Early(b, l, w.link["data"][c], c) /\ Running(w, c) /\ b.ctrl = Host
        /\ TermsOf(w, c)
    BY HalfReadFacts
  <1>2. Driven(h, b, k, c) /\ Host # c /\ c \in Apps
    BY TwoEnds DEF HalfRead
  <1>3. h.ctrl = c /\ h.ui = "Taken"
    BY <1>2 DEF Taken
  <1>4. ~NotYet(b, l, c)
    BY <1>1, <1>3 DEF NotYet, Untried, To, TermsOf, Stages
  <1>5. GotNetplayConfig(w, c, m) = StartGameIfReady(t, c)
    BY <1>2 DEF GotNetplayConfig
  <1>6. /\ a \in AppType /\ a.role = b.role /\ a.status = b.status /\ a.ctrl = b.ctrl /\ a.data = b.data
        /\ a.ready = b.ready /\ a.final /\ a.ui = b.ui /\ a.confirmed = b.confirmed /\ a.pinger = b.pinger
    <2>1. m.session = 1
      BY MsgFields
    <2> QED BY <1>1, <2>1 DEF AppType
  <1> HIDE DEF a
  <1>7. AppSet(t, w, c, a)
    BY <1>1, <1>2, <1>6, AppSetShape
  <1> HIDE DEF t
  <1>8. Sound(l, c) => Carried(h, a, l, c)
    <2>1. SUFFICES ASSUME Sound(l, c) PROVE Carried(h, a, l, c)
      OBVIOUS
    <2> HIDE DEF l, b, h
    <2>2. Carried(h, b, k, c)
      BY <1>1, <1>2, <1>3, <2>1 DEF OneLess, Driven
    <2> QED BY <1>1, <1>2, <1>6, <2>2 DEF Carried, OneLess
  <1>9. CASE b.confirmed
    BY <1>1, <1>5, <1>6, <1>7, <1>8, <1>9, ClientStartsWell
  <1>10. CASE ~b.confirmed
    <2>1. t.app[c] = a
      BY <1>7 DEF AppSet
    <2>2. StartGameIfReady(t, c) = t
      BY <1>6, <1>10, <2>1 DEF StartGameIfReady
    <2>3. Attached(a, l, w.link["data"][c], c) /\ Early(a, l, w.link["data"][c], c) /\ ~NotYet(a, l, c)
      <3> HIDE DEF b, l
      <3> QED BY <1>1, <1>4, <1>6, <1>10 DEF Attached, Early, NotYet
    <2>4. Driven(h, a, l, c)
      BY <1>8, <2>3 DEF Driven
    <2>5. HopeBut(t, c) /\ DrivenOf(t, c)
      BY <1>1, <1>6, <1>7, <2>3, <2>4, ClientKeepsHope
    <2> QED BY <1>5, <2>2, <2>5, HopeIsWhole
  <1> QED BY <1>9, <1>10

\* gotPong
LEMMA GotPongKeepsHope ==
    ASSUME NEW w, Typed(w), NEW p \in Apps, Running(w, p), Hope(w), NEW c \in Clients, p \in {Host, c},
           p = Host => w.app[Host].ctrl \in {None, c}, NEW origin \in Apps
    PROVE  Hope(GotPong(w, p, origin))
  <1>1. HopeBut(w, c) /\ DrivenOf(w, c) /\ w \in World /\ w.app[p] \in AppType
    BY HopeIsWhole, WorldFields DEF Typed
  <1>2. CASE ~w.app[p].pinger.on
    <2>1. \/ Hope(PingerSendPing(w, p, origin))
          \/ HopeBut(PingerSendPing(w, p, origin), c) /\ DrivenOf(PingerSendPing(w, p, origin), c)
      BY <1>1, PingIsSent
    <2>2. GotPong(w, p, origin) = PingerSendPing(w, p, origin)
      BY <1>2 DEF GotPong
    <2> QED BY <2>1, <2>2, HopeIsWhole
  <1>3. CASE w.app[p].pinger.on
    <2> DEFINE b == w.app[p]
               n == b.pinger.samples[origin] + 1
               g == [b.pinger EXCEPT !.samples[origin] = n]
               a == [b EXCEPT !.pinger = g]
               v == [w EXCEPT !.app[p] = a]
    <2>1. GotPong(w, p, origin) = v
      BY <1>3 DEF GotPong
    <2>2. g \in PingerType /\ g.on = b.pinger.on
      <3>1. b.pinger \in PingerType /\ b.pinger.samples \in Samples /\ n \in Nat
        BY <1>1 DEF AppType, PingerType, Samples
      <3> HIDE DEF n
      <3> QED BY <3>1 DEF PingerType, Samples
    <2> HIDE DEF g
    <2>3. /\ a \in AppType /\ a.role = b.role /\ a.status = b.status /\ a.ctrl = b.ctrl /\ a.data = b.data
          /\ a.peer = b.peer /\ a.ready = b.ready /\ a.final = b.final /\ a.ui = b.ui /\ a.confirmed = b.confirmed
          /\ a.pinger.on = b.pinger.on
      BY <1>1, <2>2 DEF AppType
    <2> HIDE DEF a
    <2>4. AppSet(v, w, p, a)
      BY <1>1, <2>3, AppSetShape
    <2> HIDE DEF v
    <2>5. SteadyOf(w, c) /\ HostIsClean(w.app[Host])
      BY <1>1 DEF HopeBut
    <2>6. CASE p = c
      <3> DEFINE l == w.link["ctrl"][c]
      <3>1. Attached(a, l, w.link["data"][c], c) /\ Early(a, l, w.link["data"][c], c)
        BY <2>3, <2>5, <2>6 DEF SteadyOf, Steady, Attached, Early, NotYet
      <3>2. Driven(w.app[Host], a, l, c)
        BY <1>1, <2>3, <2>6 DEF DrivenOf, Driven, NotYet, Carried
      <3>3. HopeBut(v, c) /\ DrivenOf(v, c)
        BY <1>1, <2>3, <2>4, <2>6, <3>1, <3>2, ClientKeepsHope
      <3> QED BY <2>1, <3>3, HopeIsWhole
    <2>7. CASE p = Host
      <3>1. HostIsClean(a)
        BY <2>3, <2>5, <2>7 DEF HostIsClean
      <3>2. Driven(a, w.app[c], w.link["ctrl"][c], c)
        BY <1>1, <2>3, <2>7 DEF DrivenOf, Driven, Carried
      <3>3. HopeBut(v, c) /\ DrivenOf(v, c)
        BY <1>1, <2>3, <2>4, <2>7, <3>1, <3>2, HostKeepsHope
      <3> QED BY <2>1, <3>3, HopeIsWhole
    <2> QED BY <2>6, <2>7
  <1> QED BY <1>2, <1>3

\* The timer of the initial connection is stopped when a message is read.
LEMMA TimerStops ==
    ASSUME NEW w, NEW c \in Clients, NEW p \in {Host, c}, Good(w), Running(w, p)
    PROVE  LET t == [w EXCEPT !.app[p].timeout = FALSE] IN
           /\ Good(t) /\ Running(t, p) /\ t.app[p].ctrl = w.app[p].ctrl /\ t.app[p].role = w.app[p].role
           /\ HopeBut(w, c) => HopeBut(t, c)
           /\ Hope(w) => Hope(t)
           /\ \A type, k : HalfRead(w, p, c, type, k) => HalfRead(t, p, c, type, k)
           /\ \A m : Taken(w, p, c, m) => Taken(t, p, c, m)
  <1> DEFINE b == w.app[p]
             a == [b EXCEPT !.timeout = FALSE]
             t == [w EXCEPT !.app[p] = a]
  <1>1. w \in World /\ b \in AppType /\ p \in Apps /\ Host # c /\ Host \in Apps /\ c \in Apps
    BY GoodFacts, WhoIsWho
  <1>2. /\ a \in AppType /\ a.role = b.role /\ a.status = b.status /\ a.ctrl = b.ctrl /\ a.data = b.data
        /\ a.peer = b.peer /\ a.ready = b.ready /\ a.final = b.final /\ a.ui = b.ui /\ a.confirmed = b.confirmed
        /\ a.pinger = b.pinger /\ a.stats = b.stats /\ a.session = b.session
    BY <1>1 DEF AppType
  <1>3. t = [w EXCEPT !.app[p].timeout = FALSE]
    OBVIOUS
  <1> HIDE DEF a, b
  <1>4. Quieter(a, w.app[p])
    BY <1>2 DEF Quieter, b
  <1>5. Good(t) /\ AppSet(t, w, p, a) /\ Running(t, p)
    BY <1>1, <1>2, <1>4, SetIsCalm DEF b
  <1> HIDE DEF t
  <1>6. \A m : Taken(w, p, c, m) => Taken(t, p, c, m)
    BY <1>1, <1>2, <1>5, TakenIsKept DEF b
  <1>7. /\ t.app[p] = a /\ t.link = w.link /\ t.pending = w.pending
        /\ \A q \in Apps : q # p => t.app[q] = w.app[q]
    BY <1>5 DEF AppSet
  <1> DEFINE l == w.link["ctrl"][c]
  <1>8. CASE p = c
    <2>1. t.app[Host] = w.app[Host] /\ t.app[c] = a /\ w.app[c] = b
      BY <1>1, <1>7, <1>8 DEF b
    <2>2. ASSUME NEW k
          PROVE  /\ Driven(w.app[Host], b, k, c) => Driven(w.app[Host], a, k, c)
                 /\ Early(b, k, w.link["data"][c], c) => Early(a, k, w.link["data"][c], c)
      BY <1>2 DEF Driven, NotYet, Carried, Early
    <2>3. ASSUME HopeBut(w, c) PROVE HopeBut(t, c) /\ (DrivenOf(w, c) => DrivenOf(t, c))
      <3>1. SteadyOf(w, c)
        BY <2>3 DEF HopeBut
      <3>2. Attached(a, l, w.link["data"][c], c) /\ Early(a, l, w.link["data"][c], c)
        BY <1>2, <2>1, <3>1 DEF SteadyOf, Steady, Attached, Early, NotYet
      <3>3. HopeBut(t, c) /\ (DrivenOf(t, c) <=> Driven(w.app[Host], a, l, c))
        BY <1>2, <1>5, <1>8, <2>1, <2>3, <3>2, ClientKeepsHope
      <3> QED BY <2>1, <2>2, <3>3 DEF DrivenOf
    <2>4. ASSUME NEW type, NEW k, HalfRead(w, p, c, type, k) PROVE HalfRead(t, p, c, type, k)
      BY <1>5, <1>7, <2>1, <2>2, <2>3, <2>4 DEF HalfRead
    <2>5. Hope(w) => Hope(t)
      BY <2>3, HopeIsWhole
    <2> QED BY <1>2, <1>3, <1>5, <1>6, <1>7, <2>3, <2>4, <2>5 DEF b
  <1>9. CASE p = Host
    <2>1. t.app[Host] = a /\ w.app[Host] = b /\ \A d \in Clients : t.app[d] = w.app[d]
      BY <1>1, <1>7, <1>9, WhoIsWho DEF b
    <2>2. ASSUME NEW d, NEW k, NEW e PROVE Driven(b, d, k, e) => Driven(a, d, k, e)
      BY <1>2 DEF Driven, Carried
    <2>3. ASSUME NEW d \in Clients
          PROVE (SteadyOf(w, d) => SteadyOf(t, d)) /\ (DrivenOf(w, d) => DrivenOf(t, d))
      BY <1>2, <1>7, <2>1, <2>2 DEF SteadyOf, Steady, Known, DrivenOf
    <2>4. HostIsClean(b) => HostIsClean(a)
      BY <1>2 DEF HostIsClean
    <2>5. (HopeBut(w, c) => HopeBut(t, c)) /\ (Hope(w) => Hope(t))
      BY <2>1, <2>3, <2>4 DEF HopeBut, Hope
    <2>6. ASSUME NEW type, NEW k, HalfRead(w, p, c, type, k) PROVE HalfRead(t, p, c, type, k)
      BY <1>5, <1>7, <2>1, <2>2, <2>5, <2>6 DEF HalfRead
    <2> QED BY <1>2, <1>3, <1>5, <1>6, <1>7, <2>5, <2>6 DEF b
  <1> QED BY <1>8, <1>9

\* socketRead of a client, for a message of its control connection.
LEMMA ClientReadKeepsHope ==
    ASSUME NEW w, NEW c \in Clients, NEW k, NEW m \in Msg, HalfRead(w, c, c, m.type, k), Taken(w, c, c, m),
           NEW v \in SocketRead(w, c, c, m)
    PROVE  Hope(v)
  <1> DEFINE t == [w EXCEPT !.app[c].timeout = FALSE]
  <1>1. /\ c # Host /\ c \in Apps /\ None # Host /\ Good(w) /\ Running(w, c) /\ w.app[c].ctrl = Host /\ Linked(k, w.link["data"][c], c)
        /\ Has(k.to[c], m.type)
    <2>1. OneLess(w.link["ctrl"][c], k, c, c, m.type) /\ Good(w) /\ Running(w, c) /\ w.app[c].ctrl = Host
      BY HalfReadFacts
    <2>2. Linked(k, w.link["data"][c], c)
      BY DEF HalfRead
    <2>3. Has(k.to[c], m.type)
      BY <2>1 DEF OneLess
    <2> QED BY <2>1, <2>2, <2>3, WhoIsWho
  <1>2. /\ Good(t) /\ Running(t, c) /\ t.app[c].ctrl = Host /\ t.app[c].role = w.app[c].role
        /\ HalfRead(t, c, c, m.type, k) /\ Taken(t, c, c, m)
    BY <1>1, TimerStops
  <1>3. m.type \in {"InitialConfig", "PingStats", "NetplayConfig", "ErrorMessage", "VersionConfig"}
    <2>1. m.type \notin {"Open", "Closed", "Ping"}
      BY <1>1 DEF HalfRead, Linked
    <2>2. m.type # "ConfirmConfig"
      BY <1>1 DEF Taken
    <2> QED BY <2>1, <2>2 DEF Msg
  <1>4. /\ m.type = "VersionConfig" => v = GotVersionConfig(t, c, c) \/ (v = t /\ t.app[c].role # "Player")
        /\ m.type = "InitialConfig" => v = GotInitialConfig(t, c, m)
        /\ m.type = "PingStats" => v \in GotPingStats(t, c, m)
        /\ m.type = "NetplayConfig" => v = GotNetplayConfig(t, c, m)
        /\ m.type = "ErrorMessage" => v = Stop(t, c)
    BY <1>1, <1>2, <1>3 DEF SocketRead
  <1> HIDE DEF t
  <1>5. CASE m.type = "VersionConfig"
    BY <1>2, <1>4, <1>5, ClientReadsVersion
  <1>6. CASE m.type = "InitialConfig"
    BY <1>2, <1>4, <1>6, ClientReadsInitial
  <1>7. CASE m.type = "PingStats"
    BY <1>2, <1>4, <1>7, ClientReadsStats
  <1>8. CASE m.type = "NetplayConfig"
    BY <1>2, <1>4, <1>8, ClientReadsConfig
  <1>9. CASE m.type = "ErrorMessage"
    BY <1>1, <1>2, <1>4, <1>9, HalfReadFacts, StoppingKeepsHope
  <1> QED BY <1>3, <1>5, <1>6, <1>7, <1>8, <1>9

\* The host reads an InitialConfig, and has chosen no client, or has had one before.
LEMMA HostDropsInitial ==
    ASSUME NEW w, NEW c \in Clients, NEW k, HalfRead(w, Host, c, "InitialConfig", k)
    PROVE  /\ Sound(k, c) => ~NotYet(w.app[c], w.link["ctrl"][c], c)
           /\ w.app[Host].ctrl # c \/ w.app[Host].ready => Hope(w)
  <1> DEFINE l == w.link["ctrl"][c]
             h == w.app[Host]
             b == w.app[c]
  <1>1. /\ OneLess(l, k, c, Host, "InitialConfig") /\ HopeBut(w, c) /\ TermsOf(w, c) /\ Host # c
    BY HalfReadFacts, WhoIsWho
  <1>2. AfterRead(l, k, c, Host, "InitialConfig") /\ Orderly(k, c) /\ Driven(h, b, k, c)
    BY DEF HalfRead, Linked
  <1>3. ASSUME Sound(k, c) PROVE ~NotYet(b, l, c)
    <2>1. ~Has(l.to[Host], "VersionConfig") /\ l.ends = k.ends
      BY <1>2 DEF AfterRead
    <2>2. ~Has(k.to[c], "Open")
      BY <1>1, <1>2 DEF OneLess, Orderly
    <2>3. ~Has(l.to[c], "Open")
      BY <1>1, <2>2 DEF OneLess
    <2>4. b.status # "Idle"
      BY <1>1, <1>3, <2>1 DEF Sound, TermsOf, Single, Ends
    <2> QED BY <2>1, <2>3, <2>4 DEF NotYet
  <1>4. ASSUME h.ctrl # c \/ h.ready PROVE Hope(w)
    <2>1. SUFFICES ASSUME Sound(l, c), h.ctrl = c PROVE Carried(h, b, l, c)
      BY <1>1, <1>3, HopeIsWhole DEF DrivenOf, Driven, OneLess
    <2>2. Carried(h, b, k, c) /\ h.ready
      BY <1>1, <1>2, <1>4, <2>1 DEF Driven, OneLess
    <2> HIDE DEF l, h, b
    <2> QED BY <1>1, <2>2 DEF Carried, OneLess
  <1> QED BY <1>3, <1>4

\* A message more that says nothing about the beginning drives a client no less.
LEMMA MoreDrives ==
    ASSUME NEW l, NEW c \in Clients, NEW o \in {Host, c}, NEW type, NEW x, AfterSend(x, l, c, o, type),
           type \notin {"Open", "Closed"}
    PROVE  /\ Sound(x, c) => Sound(l, c) /\ l.ends = {Host, c}
           /\ \A q \in {Host, c} : \A y : /\ Has(l.to[q], y) => Has(x.to[q], y)
                                          /\ Has(x.to[q], y) /\ (q # o \/ y # type) => Has(l.to[q], y)
                                          /\ Twice(l.to[q], y) => Twice(x.to[q], y)
           /\ l.ends = {Host, c} => Has(x.to[o], type) /\ (Has(l.to[o], type) => Twice(x.to[o], type))
           /\ \A h, a : Carried(h, a, l, c) => Carried(h, a, x, c)
           /\ Begun(l, c) => Begun(x, c)
           /\ o # Host \/ type # "VersionConfig" => \A a : NotYet(a, x, c) => NotYet(a, l, c)
           /\ o # Host \/ type # "VersionConfig" => \A h, a : Driven(h, a, l, c) => Driven(h, a, x, c)
  <1>1. Peer(Host, c) = c /\ Peer(c, c) = Host /\ Host # c
    BY TwoEnds DEF Peer
  <1>2. /\ x.ends = l.ends
        /\ \A q \in {Host, c} : \A y : /\ Has(l.to[q], y) => Has(x.to[q], y)
                                       /\ Has(x.to[q], y) /\ (q # o \/ y # type) => Has(l.to[q], y)
                                       /\ Twice(l.to[q], y) => Twice(x.to[q], y)
        /\ l.ends = {Host, c} => Has(x.to[o], type) /\ (Has(l.to[o], type) => Twice(x.to[o], type))
    BY <1>1 DEF AfterSend
  <1>3. Sound(x, c) => Sound(l, c) /\ l.ends = {Host, c}
    BY <1>2 DEF Sound
  <1>4. \A h, a : Carried(h, a, l, c) => Carried(h, a, x, c)
    BY <1>2 DEF Carried
  <1>5. Begun(l, c) => Begun(x, c)
    BY <1>2 DEF Begun
  <1>6. o # Host \/ type # "VersionConfig" => \A a : NotYet(a, x, c) => NotYet(a, l, c)
    BY <1>1, <1>2 DEF NotYet
  <1>7. o # Host \/ type # "VersionConfig" => \A h, a : Driven(h, a, l, c) => Driven(h, a, x, c)
    BY <1>3, <1>4, <1>5, <1>6 DEF Driven
  <1> QED BY <1>2, <1>3, <1>4, <1>5, <1>6, <1>7

\* A message may be sent at any time that is not one of the beginning.
LEMMA SendingKeepsHope ==
    ASSUME NEW w \in World, Hope(w), NEW c \in Clients, NEW p \in {Host, c}, NEW m \in Msg,
           m.type \notin {"Open", "Closed", "Ping", "VersionConfig", "InitialConfig"}
    PROVE  Hope(Send(w, "ctrl", c, p, m)) /\ Send(w, "ctrl", c, p, m).app = w.app
  <1> DEFINE v == Send(w, "ctrl", c, p, m)
  <1>1. /\ HopeBut(v, c) /\ AfterSend(v.link["ctrl"][c], w.link["ctrl"][c], c, Peer(p, c), m.type) /\ v.app = w.app
        /\ DrivenOf(v, c) <=> Driven(w.app[Host], w.app[c], v.link["ctrl"][c], c)
    BY SendKeepsHope, HopeIsWhole
  <1> HIDE DEF v
  <1>2. Driven(w.app[Host], w.app[c], w.link["ctrl"][c], c)
    BY HopeIsWhole DEF DrivenOf
  <1>3. Driven(w.app[Host], w.app[c], v.link["ctrl"][c], c)
    BY <1>1, <1>2, TwoEnds, MoreDrives
  <1> QED BY <1>1, <1>3, HopeIsWhole DEF v

\* The host that has chosen no client chooses c.
LEMMA HostChoosesWell ==
    ASSUME NEW w, NEW c \in Clients, NEW k, HalfRead(w, Host, c, "VersionConfig", k), w.app[Host].ctrl = None,
           ~Untried(w, c), w.app[c].ui = "No", w.app[c].role = "Player", c \in w.pending,
           NEW t \in World, NEW a, t.app[Host] = a, \A q \in Apps : q # Host => t.app[q] = w.app[q],
           t.link = w.link, t.pending = w.pending \ {c},
           a.ctrl = c, a.peer = w.app[Host].peer, a.status = w.app[Host].status, a.ready = w.app[Host].ready,
           a.ui = w.app[Host].ui, NEW m \in Msg, m.type = "InitialConfig"
    PROVE  Hope(Send(t, "ctrl", c, Host, m))
  <1> DEFINE l == w.link["ctrl"][c]
             h == w.app[Host]
             b == w.app[c]
             v == Send(t, "ctrl", c, Host, m)
             x == v.link["ctrl"][c]
  <1>1. /\ OneLess(l, k, c, Host, "VersionConfig") /\ HopeBut(w, c) /\ HostInOrder(w) /\ TermsOf(w, c) /\ Typed(w)
        /\ Running(w, Host) /\ b \in AppType
    BY HalfReadFacts
  <1>2. /\ Driven(h, b, k, c) /\ Host # c /\ c \in Apps /\ Host \in Apps /\ Peer(Host, c) = c /\ None # c
        /\ None \notin Clients /\ "ctrl" \in Kinds
    BY TwoEnds, WhoIsWho DEF HalfRead, Peer
  <1>3. t.app[c] = b /\ \A d \in Clients : t.app[d] = w.app[d]
    BY <1>2, WhoIsWho
  <1>4. h.peer = None /\ ~h.ready /\ h.ui = "No" /\ HostIsClean(a)
    <2>1. h.ui = "No"
      BY <1>1, <1>2 DEF HostInOrder
    <2>2. HostIsClean(h) /\ h.status \in {"Running", "Starting"}
      BY <1>1 DEF HopeBut, Running
    <2>3. h.peer = None /\ ~h.ready
      BY <2>2 DEF HostIsClean
    <2> QED BY <1>2, <2>1, <2>3 DEF HostIsClean
  <1>5. HopeBut(t, c)
    <2>1. ASSUME NEW d \in Clients PROVE SteadyOf(t, d)
      <3>1. SteadyOf(w, d)
        BY <1>1 DEF HopeBut
      <3>2. d # c => (d \in w.pending <=> d \in t.pending)
        OBVIOUS
      <3>3. Known(a, w.app[d], w.link["ctrl"][d], w.link["data"][d], d \in t.pending, d)
        BY <1>2, <3>1, <3>2 DEF SteadyOf, Steady, Known
      <3> QED BY <1>3, <3>1, <3>3 DEF SteadyOf, Steady
    <2>2. ASSUME NEW d \in Clients, d # c PROVE DrivenOf(t, d)
      <3>1. Driven(h, w.app[d], w.link["ctrl"][d], d)
        BY <1>1, <2>2 DEF HopeBut, DrivenOf
      <3>2. Driven(a, w.app[d], w.link["ctrl"][d], d)
        BY <2>2, <3>1 DEF Driven
      <3> QED BY <1>3, <3>2 DEF DrivenOf
    <2> QED BY <1>4, <2>1, <2>2 DEF HopeBut
  <1>6. ~NotYet(b, l, c)
    BY DEF NotYet, Untried, To
  <1>7. /\ HopeBut(v, c) /\ AfterSend(x, l, c, c, "InitialConfig")
        /\ DrivenOf(v, c) <=> Driven(a, b, x, c)
    BY <1>2, <1>3, <1>5, <1>6, SendKeepsHope
  <1> HIDE DEF v, x
  <1>8. /\ Sound(x, c) => Sound(l, c) /\ l.ends = {Host, c}
        /\ \A q \in {Host, c} : \A y : Has(l.to[q], y) => Has(x.to[q], y)
        /\ l.ends = {Host, c} => Has(x.to[c], "InitialConfig")
        /\ NotYet(b, x, c) => NotYet(b, l, c)
    BY <1>2, <1>7, MoreDrives
  <1>9. Driven(a, b, x, c)
    <2>1. SUFFICES ASSUME Sound(x, c) PROVE Carried(a, b, x, c)
      BY <1>6, <1>8 DEF Driven
    <2>2. Sound(k, c) /\ l.ends = {Host, c}
      BY <1>1, <1>8, <2>1 DEF OneLess
    <2>3. b.status = "Running"
      <3>1. b.status \in {"Running", "Starting"}
        BY <1>1, <1>2, <2>2 DEF Typed, Alive, Running
      <3>2. b.status # "Starting"
        BY <1>1 DEF TermsOf, Deal
      <3> QED BY <3>1, <3>2
    <2>4. NotYet(b, k, c)
      BY <1>1, <2>3 DEF NotYet, OneLess
    <2>5. Has(k.to[c], "VersionConfig") \/ Has(k.to[Host], "InitialConfig")
      <3>1. Begun(k, c)
        BY <1>2, <2>2, <2>4 DEF Driven
      <3>2. ~Has(l.to[Host], "Open")
        BY <1>1 DEF TermsOf, Single, To
      <3>3. ~Has(k.to[Host], "Open")
        BY <1>1, <3>2 DEF OneLess
      <3> QED BY <3>1, <3>3 DEF Begun
    <2>6. Has(x.to[c], "VersionConfig") \/ Has(x.to[Host], "InitialConfig")
      BY <1>1, <1>2, <1>8, <2>5 DEF OneLess
    <2> HIDE DEF b, h, l
    <2> QED BY <1>2, <1>4, <1>8, <2>2, <2>6 DEF Carried, h, b
  <1> QED BY <1>7, <1>9, HopeIsWhole DEF v

\* The host that has chosen no client reads a VersionConfig.
LEMMA HostReadsVersion ==
    ASSUME NEW w, NEW c \in Clients, NEW k, HalfRead(w, Host, c, "VersionConfig", k), w.app[Host].ctrl = None,
           ~Untried(w, c), w.app[c].ui = "No"
    PROVE  Hope(GotVersionConfig(w, Host, c))
  <1>1. /\ w \in World /\ w.app[Host] \in AppType /\ w.app[c] \in AppType /\ w.pending \subseteq Clients /\ Host \in Apps
    BY HalfReadFacts, WorldFields, WhoIsWho
  <1>2. Hope(w)
    BY IdleMessage
  <1> DEFINE err == [type |-> "ErrorMessage"]
  <1>3. Hope(Send(w, "ctrl", c, Host, err))
    <2>1. err \in Msg /\ err.type = "ErrorMessage"
      BY DEF Msg
    <2> HIDE DEF err
    <2> QED BY <1>1, <1>2, <2>1, SendingKeepsHope
  <1>4. CASE w.app[c].role \in {"Outdated", "Spectator"} \/ c \notin w.pending
    <2>1. GotVersionConfig(w, Host, c) \in {Send(w, "ctrl", c, Host, err), w}
      BY <1>4 DEF GotVersionConfig
    <2> QED BY <1>2, <1>3, <2>1
  <1>5. CASE w.app[c].role \notin {"Outdated", "Spectator"} /\ c \in w.pending
    <2> DEFINE port == IF PortCleared THEN 0 ELSE 1
               t == [w EXCEPT !.pending = @ \ {c},
                              !.app[Host] = [@ EXCEPT !.ctrl = c, !.data = "Listening", !.port = port]]
               a == [w.app[Host] EXCEPT !.ctrl = c, !.data = "Listening", !.port = port]
               m == [type |-> "InitialConfig", port |-> port]
    <2>1. a \in AppType /\ a.ctrl = c /\ a.ui = w.app[Host].ui /\ a.peer = w.app[Host].peer
          /\ a.status = w.app[Host].status /\ a.ready = w.app[Host].ready
      <3>1. w.app[Host] \in AppType /\ port \in {0, 1}
        BY <1>1
      <3> HIDE DEF port
      <3> QED BY ONLY <3>1, c \in Clients DEF AppType
    <2>2. t \in World /\ t.link = w.link /\ t.pending = w.pending \ {c} /\ t.app[Host] = a
          /\ \A q \in Apps : q # Host => t.app[q] = w.app[q]
      <3>1. t = [w EXCEPT !.pending = @ \ {c}, !.app[Host] = a]
        OBVIOUS
      <3> HIDE DEF a, t
      <3> QED BY <1>1, <2>1, <3>1 DEF World
    <2>3. GotVersionConfig(w, Host, c) = SendCtrl(t, Host, m)
      BY <1>5 DEF GotVersionConfig
    <2>4. m \in Msg /\ m.type = "InitialConfig"
      BY DEF Msg
    <2> HIDE DEF t, a, m
    <2>5. SendCtrl(t, Host, m) = Send(t, "ctrl", c, Host, m)
      BY <2>1, <2>2 DEF SendCtrl, ClientOf
    <2>6. w.app[c].role = "Player"
      BY <1>1, <1>5 DEF AppType, Roles
    <2>7. Hope(Send(t, "ctrl", c, Host, m))
      BY <1>5, <2>1, <2>2, <2>4, <2>6, HostChoosesWell
    <2> QED BY <2>3, <2>5, <2>7
  <1> QED BY <1>4, <1>5

\* The host reads an InitialConfig.
LEMMA HostReadsInitial ==
    ASSUME NEW w, NEW c \in Clients, NEW k, HalfRead(w, Host, c, "InitialConfig", k), NEW e \in Clients,
           w.app[Host].ctrl = e, NEW msg \in Msg
    PROVE  Hope(GotInitialConfig(w, Host, msg))
  <1> DEFINE h == w.app[Host]
             a == [h EXCEPT !.ready = TRUE]
             t == [w EXCEPT !.app[Host] = a]
             m == [type |-> "InitialConfig", port |-> h.port]
             v == Send(t, "ctrl", e, Host, m)
             l == w.link["ctrl"][e]
             b == w.app[e]
             x == v.link["ctrl"][e]
  <1>1. /\ w \in World /\ h \in AppType /\ HopeBut(w, c) /\ Host \in Apps /\ e \in Apps /\ Host # e /\ Peer(Host, e) = e
        /\ TermsOf(w, e) /\ None # e /\ HostIsClean(h)
    BY HalfReadFacts, GoodFacts, WhoIsWho, TwoEnds DEF Peer, HalfRead
  <1>2. h.ready => Hope(w)
    BY HostDropsInitial
  <1>3. CASE h.ready
    BY <1>2, <1>3 DEF GotInitialConfig
  <1>4. CASE ~h.ready
    <2>1. HopeBut(w, e)
      BY <1>1, HostDropsInitial, HopeIsWhole
    <2>2. GotInitialConfig(w, Host, msg) = SendCtrl(t, Host, m)
      BY <1>4 DEF GotInitialConfig
    <2>3. a \in AppType /\ a.ready /\ a.ctrl = e /\ a.peer = h.peer /\ a.data = h.data /\ a.status = h.status
          /\ a.ui = h.ui /\ a.pinger = h.pinger
      BY <1>1 DEF AppType
    <2>4. m \in Msg /\ m.type = "InitialConfig"
      BY <1>1 DEF Msg, AppType
    <2> HIDE DEF a, m
    <2>5. AppSet(t, w, Host, a)
      BY <1>1, <2>3, AppSetShape
    <2> HIDE DEF t
    <2>6. HostIsClean(a)
      BY <1>1, <2>3 DEF HostIsClean
    <2>7. HopeBut(t, e) /\ t \in World /\ t.app[Host] = a /\ t.app[e] = b /\ t.link = w.link
      BY <2>1, <2>3, <2>5, <2>6, HostKeepsHope DEF h
    <2>8. SendCtrl(t, Host, m) = v
      BY <2>3, <2>7 DEF SendCtrl, ClientOf
    <2>9. ~NotYet(b, l, e)
      BY <1>1 DEF NotYet, Untried, To, TermsOf, Stages
    <2>10. /\ HopeBut(v, e) /\ AfterSend(x, l, e, e, "InitialConfig")
           /\ DrivenOf(v, e) <=> Driven(a, b, x, e)
      BY <1>1, <2>4, <2>7, <2>9, SendKeepsHope
    <2> HIDE DEF v, x, l
    <2>11. /\ Sound(x, e) => Sound(l, e) /\ l.ends = {Host, e}
           /\ \A q \in {Host, e} : \A y : /\ Has(l.to[q], y) => Has(x.to[q], y)
                                          /\ Has(x.to[q], y) /\ (q # e \/ y # "InitialConfig") => Has(l.to[q], y)
                                          /\ Twice(l.to[q], y) => Twice(x.to[q], y)
           /\ l.ends = {Host, e} =>
                Has(x.to[e], "InitialConfig") /\ (Has(l.to[e], "InitialConfig") => Twice(x.to[e], "InitialConfig"))
           /\ NotYet(b, x, e) => NotYet(b, l, e)
      <3>1. AfterSend(x, l, e, e, "InitialConfig") /\ e \in {Host, e} /\ "InitialConfig" \notin {"Open", "Closed"}
        BY <2>10
      <3>2. "InitialConfig" # "VersionConfig"
        OBVIOUS
      <3> HIDE DEF b
      <3>3. /\ Sound(x, e) => Sound(l, e) /\ l.ends = {Host, e}
            /\ \A q \in {Host, e} : \A y : /\ Has(l.to[q], y) => Has(x.to[q], y)
                                           /\ Has(x.to[q], y) /\ (q # e \/ y # "InitialConfig") => Has(l.to[q], y)
                                           /\ Twice(l.to[q], y) => Twice(x.to[q], y)
        BY ONLY <3>1, e \in Clients, MoreDrives
      <3>4. l.ends = {Host, e} =>
              Has(x.to[e], "InitialConfig") /\ (Has(l.to[e], "InitialConfig") => Twice(x.to[e], "InitialConfig"))
        BY ONLY <3>1, e \in Clients, MoreDrives
      <3>5. \A z : NotYet(z, x, e) => NotYet(z, l, e)
        BY ONLY <3>1, <3>2, e \in Clients, MoreDrives
      <3> QED BY <3>3, <3>4, <3>5
    <2>12. Driven(a, b, x, e)
      <3>1. SUFFICES ASSUME Sound(x, e) PROVE Carried(a, b, x, e)
        BY <2>9, <2>11 DEF Driven
      <3> DEFINE y == IF e = c THEN k ELSE l
      <3>2. Carried(h, b, y, e) /\ (e # c => y = l) /\ (e = c => OneLess(l, y, e, Host, "InitialConfig"))
        <4>1. CASE e = c
          <5>1. OneLess(l, k, c, Host, "InitialConfig")
            BY <4>1, HalfReadFacts DEF l
          <5>2. Sound(k, c)
            BY <2>11, <3>1, <4>1, <5>1 DEF OneLess
          <5>3. Driven(h, b, k, c)
            BY <4>1 DEF HalfRead
          <5> QED BY <4>1, <5>1, <5>2, <5>3 DEF Driven
        <4>2. CASE e # c
          BY <1>1, <2>11, <3>1, <4>2 DEF HopeBut, DrivenOf, Driven, l
        <4> QED BY <4>1, <4>2
      <3> HIDE DEF y, b, h
      <3>3. Has(y.to[e], "InitialConfig") => Has(l.to[e], "InitialConfig")
        BY <1>1, <3>2 DEF OneLess
      <3>4. \A z : z # "InitialConfig" =>
              (Has(y.to[Host], z) => Has(l.to[Host], z)) /\ (Has(y.to[e], z) => Has(l.to[e], z))
        BY <1>1, <3>2 DEF OneLess
      <3> QED BY <1>1, <1>4, <2>3, <2>11, <3>1, <3>2, <3>3, <3>4 DEF Carried
    <2> QED BY <2>2, <2>8, <2>10, <2>12, HopeIsWhole
  <1> QED BY <1>3, <1>4

\* The user of b is asked no less, and no answer was taken since.
Answering(a, b) == a.ui = b.ui \/ (b.ui # "No" /\ a.ui \notin {"No", "Taken"})

\* A host that has the same client, and is asked no less, keeps hope.
LEMMA HostGoesOnWell ==
    ASSUME NEW w, Hope(w), NEW v, NEW g, AppSet(v, w, Host, g), LET h == w.app[Host] IN
             /\ g.status \in {"Running", "Starting"} => h.status \in {"Running", "Starting"}
             /\ g.ctrl = h.ctrl /\ g.peer = h.peer /\ g.ready = h.ready /\ g.data = h.data /\ g.pinger.on = h.pinger.on
             /\ Answering(g, h)
    PROVE  Hope(v)
  <1> DEFINE h == w.app[Host]
  <1>1. /\ v.link = w.link /\ v.pending = w.pending /\ v.app[Host] = g
        /\ \A d \in Clients : v.app[d] = w.app[d]
    BY WhoIsWho DEF AppSet
  <1>2. HostIsClean(g)
    BY DEF Hope, HostIsClean
  <1>3. ASSUME NEW d \in Clients PROVE SteadyOf(v, d)
    BY <1>1, <1>3 DEF Hope, SteadyOf, Steady, Known
  <1>4. ASSUME NEW d \in Clients PROVE DrivenOf(v, d)
    <2>1. Driven(h, w.app[d], w.link["ctrl"][d], d)
      BY DEF Hope, DrivenOf
    <2>2. Driven(g, w.app[d], w.link["ctrl"][d], d)
      BY <2>1 DEF Driven, Carried, Answering
    <2> QED BY <1>1, <2>2 DEF DrivenOf
  <1> QED BY <1>1, <1>2, <1>3, <1>4 DEF Hope

\* A client that is as far, and is asked no less, keeps hope.
LEMMA ClientGoesOnWell ==
    ASSUME NEW w, NEW c \in Clients, Hope(w), NEW v, NEW a, AppSet(v, w, c, a), LET b == w.app[c] IN
             /\ a.role = b.role /\ a.status = b.status /\ a.ctrl = b.ctrl /\ a.data = b.data /\ a.ready = b.ready
             /\ a.final = b.final /\ a.pinger.on = b.pinger.on
             /\ Answering(a, b) /\ (a.confirmed = b.confirmed \/ (a.ui # "Taken" /\ ~b.confirmed))
    PROVE  Hope(v)
  <1> DEFINE b == w.app[c]
             l == w.link["ctrl"][c]
             y == w.link["data"][c]
  <1>1. HopeBut(w, c) /\ DrivenOf(w, c) /\ SteadyOf(w, c)
    BY HopeIsWhole
  <1>2. Steady(w.app[Host], b, l, y, c \in w.pending, c) /\ Driven(w.app[Host], b, l, c)
    BY <1>1 DEF SteadyOf, DrivenOf
  <1>3. Attached(a, l, y, c)
    <2> HIDE DEF l, y
    <2> QED BY <1>2 DEF Steady, Attached, Answering
  <1>4. Early(a, l, y, c)
    <2> HIDE DEF l, y
    <2> QED BY <1>2 DEF Steady, Early, NotYet
  <1>5. Driven(w.app[Host], a, l, c)
    <2> HIDE DEF l, y
    <2> QED BY <1>2 DEF Driven, NotYet, Carried, Answering
  <1>6. HopeBut(v, c) /\ DrivenOf(v, c)
    BY <1>1, <1>3, <1>4, <1>5, ClientKeepsHope
  <1> QED BY <1>6, HopeIsWhole

\* resetHost, of a host that has chosen c.
LEMMA ResetKeepsHope ==
    ASSUME NEW w, NEW c \in Clients, HopeBut(w, c), w.app[Host].ctrl = c,
           NEW x, Typed(x), x.app = w.app, x.link = w.link, w.pending \subseteq x.pending,
           c \in x.pending => ~NotYet(w.app[c], w.link["ctrl"][c], c)
    PROVE  Hope(ResetHost(x, c))
  <1>1. ASSUME NEW d \in Clients
        PROVE  /\ LeftAlone(x, d)
               /\ d # c /\ Host \in x.link["ctrl"][d].ends => d \in x.pending \/ Expected(x.link["ctrl"][d], Host)
               /\ d # c /\ Sound(x.link["ctrl"][d], d) /\ NotYet(x.app[d], x.link["ctrl"][d], d)
                    /\ x.app[d].role = "Player" => Begun(x.link["ctrl"][d], d)
    <2>1. Steady(w.app[Host], w.app[d], w.link["ctrl"][d], w.link["data"][d], d \in w.pending, d)
      BY DEF HopeBut, SteadyOf
    <2>2. d # c => Driven(w.app[Host], w.app[d], w.link["ctrl"][d], d)
      BY DEF HopeBut, DrivenOf
    <2>3. LeftAlone(x, d)
      BY <2>1 DEF Steady, LeftAlone
    <2>4. d # c /\ Host \in x.link["ctrl"][d].ends => d \in x.pending \/ Expected(x.link["ctrl"][d], Host)
      BY <2>1 DEF Steady, Known
    <2>5. d # c /\ Sound(x.link["ctrl"][d], d) /\ NotYet(x.app[d], x.link["ctrl"][d], d)
            /\ x.app[d].role = "Player" => Begun(x.link["ctrl"][d], d)
      BY <2>2 DEF Driven
    <2> QED BY <2>3, <2>4, <2>5
  <1>2. Anew(ResetHost(x, c), x, c)
    BY ResetHostShape DEF Typed
  <1>3. c \in x.pending => ~NotYet(x.app[c], x.link["ctrl"][c], c)
    OBVIOUS
  <1> QED BY <1>1, <1>2, <1>3, HostBeginsAnew

\* The host is as in w, but for the statistics; its user's confirmation is ui.
Counted(v, w, ui) ==
    \E a \in AppType :
        /\ AppSet(v, w, Host, a)
        /\ a.ctrl = w.app[Host].ctrl /\ a.data = w.app[Host].data /\ a.peer = w.app[Host].peer
        /\ a.status = w.app[Host].status /\ a.pinger = w.app[Host].pinger /\ a.ready = w.app[Host].ready
        /\ a.role = w.app[Host].role /\ a.ui = ui

\* The client of the host is told that the delay is too much, and may be chosen again.
Refused(u, c) ==
    LET e == SendCtrl(u, Host, [type |-> "ErrorMessage"]) IN
    IF Connected(u, Host, "ctrl") THEN [e EXCEPT !.pending = @ \cup {c}] ELSE e

\* What the gotPingStats of a host comes to.
LEMMA HostCounts ==
    ASSUME NEW w \in World, NEW c \in Clients, w.app[Host].ctrl = c, w.app[Host].ui = "No", NEW m \in Msg,
           m.type = "PingStats", NEW v \in GotPingStats(w, Host, m)
    PROVE  \E u, g : Counted(u, w, "No") /\ Counted(g, w, "Asked") /\ v \in {g, ResetHost(Refused(u, c), c)}
  <1> DEFINE own == w.app[Host].pinger.samples
             sum == [q \in Apps |-> m.samples[q] + own[q]]
             b == [w.app[Host] EXCEPT !.stats = m.samples]
             t == [w EXCEPT !.app[Host] = b]
             a == [b EXCEPT !.stats = sum]
             u == [t EXCEPT !.app[Host] = a]
             d == [a EXCEPT !.ui = "Asked"]
             g == [u EXCEPT !.app[Host] = d]
  <1>1. w.app[Host] \in AppType /\ Host \in Apps
    BY WorldFields, WhoIsWho
  <1>2. own \in Samples /\ m.samples \in Samples
    BY <1>1, MsgFields DEF AppType, PingerType
  <1>3. sum \in Samples
    BY <1>2 DEF Samples
  <1> HIDE DEF own, sum
  <1>4. b \in AppType /\ a \in AppType /\ d \in AppType
    BY <1>1, <1>2, <1>3 DEF AppType
  <1>5. /\ a.ctrl = w.app[Host].ctrl /\ a.data = w.app[Host].data /\ a.peer = w.app[Host].peer /\ a.role = w.app[Host].role
        /\ a.status = w.app[Host].status /\ a.pinger = w.app[Host].pinger /\ a.ready = w.app[Host].ready /\ a.ui = "No"
    BY <1>1 DEF AppType
  <1>6. /\ d.ctrl = w.app[Host].ctrl /\ d.data = w.app[Host].data /\ d.peer = w.app[Host].peer /\ d.role = w.app[Host].role
        /\ d.status = w.app[Host].status /\ d.pinger = w.app[Host].pinger /\ d.ready = w.app[Host].ready
        /\ d.ui = "Asked"
    BY <1>1 DEF AppType
  <1>7. AppSet(t, w, Host, b) /\ t.app[Host] = b
    <2> HIDE DEF b
    <2>1. AppSet(t, w, Host, b)
      BY <1>1, <1>4, AppSetShape
    <2> HIDE DEF t
    <2> QED BY <2>1 DEF AppSet
  <1>8. u = MergePingStats(t, Host) /\ g = GetUserConfirmation(u, Host)
    <2>1. t.app[Host].pinger.samples = own /\ t.app[Host].stats = m.samples
      BY <1>1, <1>7 DEF AppType, own
    <2>2. [q \in Apps |-> t.app[Host].stats[q] + t.app[Host].pinger.samples[q]] = sum
      BY <2>1 DEF sum
    <2>3. MergePingStats(t, Host) = [t EXCEPT !.app[Host] = [t.app[Host] EXCEPT !.stats = sum]]
      BY <2>2 DEF MergePingStats
    <2>4. u = MergePingStats(t, Host)
      BY <1>7, <2>3
    <2>5. AppSet(u, t, Host, a)
      <3> HIDE DEF a, t
      <3>1. t \in World
        BY <1>7 DEF AppSet
      <3> QED BY <1>1, <1>4, <3>1, AppSetShape
    <2>6. u.app[Host] = a
      BY <2>5 DEF AppSet
    <2> HIDE DEF u
    <2>7. g = GetUserConfirmation(u, Host)
      BY <2>6 DEF GetUserConfirmation
    <2> QED BY <2>4, <2>7
  <1>9. AppSet(u, w, Host, a) /\ AppSet(g, w, Host, d)
    <2> HIDE DEF a, b, d
    <2>1. AppSet(t, w, Host, b) /\ t \in World
      BY <1>7 DEF AppSet
    <2> HIDE DEF t
    <2>2. AppSet(u, t, Host, a) /\ u \in World
      BY <1>1, <1>4, <2>1, AppSetShape DEF AppSet
    <2> HIDE DEF u
    <2>3. AppSet(g, u, Host, d)
      BY <1>1, <1>4, <2>2, AppSetShape
    <2> QED BY <2>1, <2>2, <2>3 DEF AppSet
  <1>10. v \in {g, ResetHost(Refused(u, c), c)}
    <2>1. u.app[Host].ctrl = c
      BY <1>5, <1>9 DEF AppSet
    <2>2. v \in CheckDelayAndContinue(u, Host)
      <3>1. t = [w EXCEPT !.app[Host].stats = m.samples]
        OBVIOUS
      <3> HIDE DEF u, t
      <3> QED BY <1>8, <3>1 DEF GotPingStats
    <2> HIDE DEF u, g
    <2> QED BY <1>8, <2>1, <2>2 DEF CheckDelayAndContinue, Refused
  <1> HIDE DEF a, b, d, t, u, g
  <1>11. Counted(u, w, "No") /\ Counted(g, w, "Asked")
    BY <1>4, <1>5, <1>6, <1>9 DEF Counted
  <1> QED BY <1>10, <1>11

\* The host reads the statistics of the client that it has chosen.
LEMMA HostReadsStats ==
    ASSUME NEW w, NEW c \in Clients, NEW k, HalfRead(w, Host, c, "PingStats", k), NEW m \in Msg, m.type = "PingStats",
           Taken(w, Host, c, m), NEW v \in GotPingStats(w, Host, m)
    PROVE  Hope(v)
  <1> DEFINE l == w.link["ctrl"][c]
             h == w.app[Host]
             b == w.app[c]
  <1>1. /\ w \in World /\ h \in AppType /\ HopeBut(w, c) /\ Host \in Apps /\ Host # c /\ Peer(Host, c) = c
        /\ HostIsClean(h) /\ OneLess(l, k, c, Host, "PingStats") /\ Driven(h, b, k, c) /\ Typed(w) /\ Running(w, Host)
        /\ None # c
    BY HalfReadFacts, WhoIsWho, TwoEnds DEF Peer, HalfRead
  <1>2. h.ctrl = c /\ h.ui = "No" /\ ~NotYet(b, l, c)
    BY DEF Taken, HostAsks, NotYet, Untried, To
  <1>3. PICK u, g : Counted(u, w, "No") /\ Counted(g, w, "Asked") /\ v \in {g, ResetHost(Refused(u, c), c)}
    BY <1>1, <1>2, HostCounts
  <1>4. Hope(g)
    <2>1. PICK d \in AppType :
            /\ AppSet(g, w, Host, d)
            /\ d.ctrl = h.ctrl /\ d.data = h.data /\ d.peer = h.peer
            /\ d.status = h.status /\ d.pinger = h.pinger /\ d.ready = h.ready /\ d.ui = "Asked"
      BY <1>3 DEF Counted
    <2>2. HostIsClean(d)
      BY <1>1, <2>1 DEF HostIsClean
    <2>3. Driven(d, b, l, c)
      <3> HIDE DEF h, b, l
      <3>1. SUFFICES ASSUME Sound(l, c) PROVE Carried(d, b, l, c)
        BY <1>2 DEF Driven
      <3>2. Carried(h, b, k, c)
        BY <1>1, <1>2, <3>1 DEF OneLess, Driven
      <3> QED BY <1>1, <2>1, <3>2 DEF OneLess, Carried
    <2>4. HopeBut(g, c) /\ DrivenOf(g, c)
      BY <1>1, <1>2, <2>1, <2>2, <2>3, HostKeepsHope
    <2> QED BY <2>4, HopeIsWhole
  <1>5. Hope(ResetHost(Refused(u, c), c))
    <2>1. PICK d \in AppType :
            /\ AppSet(u, w, Host, d)
            /\ d.ctrl = h.ctrl /\ d.data = h.data /\ d.peer = h.peer
            /\ d.status = h.status /\ d.pinger = h.pinger /\ d.ready = h.ready
      BY <1>3 DEF Counted
    <2>2. HostIsClean(d)
      BY <1>1, <2>1 DEF HostIsClean
    <2>3. /\ HopeBut(u, c) /\ u \in World /\ u.app[Host].ctrl = c /\ u.app[c] = b /\ u.link["ctrl"][c] = l
      BY <1>1, <1>2, <2>1, <2>2, HostKeepsHope
    <2>4. Typed(u)
      BY <1>1, <2>1, AppSetIsTyped DEF Running
    <2> DEFINE err == [type |-> "ErrorMessage"]
               e == Send(u, "ctrl", c, Host, err)
               x == Refused(u, c)
    <2>5. err \in Msg /\ err.type = "ErrorMessage"
      BY DEF Msg
    <2>6. e = SendCtrl(u, Host, err)
      BY <2>3 DEF SendCtrl, ClientOf
    <2> HIDE DEF err
    <2>7. /\ HopeBut(e, c) /\ e \in World /\ e.app = u.app /\ e.pending = u.pending
          /\ AfterSend(e.link["ctrl"][c], l, c, c, "ErrorMessage")
      BY <1>1, <2>3, <2>5, SendKeepsHope
    <2>8. Typed(e)
      <3>1. \A q : err.type \notin Telling(q)
        BY <2>5 DEF Telling
      <3>2. Calm(e, u)
        BY <2>4, <2>5, <3>1, SendShape, WhoIsWho
      <3> QED BY <3>2 DEF Calm
    <2>9. x = IF Connected(u, Host, "ctrl") THEN [e EXCEPT !.pending = @ \cup {c}] ELSE e
      BY <2>6 DEF Refused, err
    <2> HIDE DEF e
    <2>10. ~NotYet(b, e.link["ctrl"][c], c)
      BY <1>2, <2>7, MoreDrives
    <2>11. x \in World /\ x.app = e.app /\ x.link = e.link
           /\ x.pending = IF Connected(u, Host, "ctrl") THEN e.pending \cup {c} ELSE e.pending
      BY <2>7, <2>9 DEF World
    <2> HIDE DEF x
    <2>12. Typed(x)
      <3>1. Connected(u, Host, "ctrl") => Host \in l.ends
        BY <2>3 DEF Connected, ClientOf
      <3>2. e.link["ctrl"][c].ends = l.ends
        BY <2>7 DEF AfterSend
      <3>3. AllWired(x) /\ Alive(x) /\ Waiting(x)
        BY <2>8, <2>11, <3>1, <3>2 DEF Typed, AllWired, Alive, Waiting, Ends, Running
      <3> QED BY <2>11, <3>3 DEF Typed
    <2>13. e.app[Host].ctrl = c /\ e.app[c] = b /\ e.pending \subseteq x.pending
      BY <2>3, <2>7, <2>11
    <2>14. Hope(ResetHost(x, c))
      BY <2>7, <2>10, <2>11, <2>12, <2>13, ResetKeepsHope
    <2> QED BY <2>14 DEF x
  <1> QED BY <1>3, <1>4, <1>5

\* startGameIfReady of the host.
LEMMA HostStartsWell ==
    ASSUME NEW w \in World, Running(w, Host), Hope(w)
    PROVE  Hope(StartGameIfReady(w, Host))
  <1> DEFINE h == w.app[Host]
             a == [h EXCEPT !.status = "Starting"]
             v == [w EXCEPT !.app[Host] = a]
  <1>1. h \in AppType /\ Host \in Apps
    BY WorldFields, WhoIsWho
  <1>2. /\ a \in AppType /\ a.ctrl = h.ctrl /\ a.peer = h.peer /\ a.ready = h.ready /\ a.data = h.data
        /\ a.pinger = h.pinger /\ a.ui = h.ui /\ a.confirmed = h.confirmed
    BY <1>1 DEF AppType
  <1>3. StartGameIfReady(w, Host) \in {w, v}
    BY DEF StartGameIfReady, StartGame
  <1> HIDE DEF a
  <1>4. AppSet(v, w, Host, a)
    BY <1>1, <1>2, AppSetShape
  <1> HIDE DEF v
  <1>5. Hope(v)
    BY <1>2, <1>4, HostGoesOnWell DEF Running, Answering
  <1> QED BY <1>3, <1>5

\* The host reads a ConfirmConfig.
LEMMA HostReadsConfirm ==
    ASSUME NEW w \in World, Running(w, Host), Hope(w)
    PROVE  Hope(GotConfirmConfig(w, Host))
  <1> DEFINE h == w.app[Host]
             a == [h EXCEPT !.final = TRUE]
             v == [w EXCEPT !.app[Host] = a]
  <1>1. h \in AppType /\ Host \in Apps
    BY WorldFields, WhoIsWho
  <1>2. /\ a \in AppType /\ a.ctrl = h.ctrl /\ a.peer = h.peer /\ a.ready = h.ready /\ a.data = h.data
        /\ a.pinger = h.pinger /\ a.ui = h.ui /\ a.confirmed = h.confirmed /\ a.status = h.status
    BY <1>1 DEF AppType
  <1>3. GotConfirmConfig(w, Host) \in {w, StartGameIfReady(v, Host)}
    BY DEF GotConfirmConfig
  <1> HIDE DEF a
  <1>4. AppSet(v, w, Host, a)
    BY <1>1, <1>2, AppSetShape
  <1> HIDE DEF v
  <1>5. Hope(v) /\ v \in World /\ Running(v, Host)
    BY <1>2, <1>4, HostGoesOnWell DEF Running, Answering, AppSet
  <1> QED BY <1>3, <1>5, HostStartsWell

\* socketRead of the host, for a message of the control connection of c.
LEMMA HostReadKeepsHope ==
    ASSUME NEW w, NEW c \in Clients, NEW k, NEW m \in Msg, HalfRead(w, Host, c, m.type, k), Taken(w, Host, c, m),
           NEW v \in SocketRead(w, Host, c, m)
    PROVE  Hope(v)
  <1> DEFINE t == [w EXCEPT !.app[Host].timeout = FALSE]
             err == [type |-> "ErrorMessage"]
             r == Send(t, "ctrl", c, Host, err)
  <1>1. /\ Good(w) /\ Running(w, Host) /\ Host \in Apps /\ None # Host /\ None \notin Clients
    BY WhoIsWho DEF HalfRead
  <1>2. /\ Good(t) /\ Running(t, Host) /\ t.app[Host].ctrl = w.app[Host].ctrl
        /\ HalfRead(t, Host, c, m.type, k) /\ Taken(t, Host, c, m)
    BY <1>1, TimerStops
  <1>3. m.type \in {"InitialConfig", "PingStats", "NetplayConfig", "ErrorMessage", "VersionConfig", "ConfirmConfig"}
    <2>1. m.type \notin {"Open", "Closed"} /\ Linked(k, w.link["data"][c], c)
      BY DEF HalfRead
    <2>2. OneLess(w.link["ctrl"][c], k, c, Host, m.type)
      BY HalfReadFacts
    <2>3. m.type # "Ping"
      BY <2>1, <2>2 DEF Linked, OneLess
    <2> QED BY <2>1, <2>3 DEF Msg
  <1>4. t \in World /\ Typed(t) /\ HopeBut(t, c) /\ HostInOrder(t)
    BY <1>2, HalfReadFacts
  <1>5. m.type \in {"VersionConfig", "NetplayConfig", "ErrorMessage", "ConfirmConfig"} => Hope(t)
    BY <1>2, IdleMessage
  <1>6. CASE w.app[Host].ctrl = None
    <2>1. CASE m.type = "VersionConfig"
      <3>1. v = GotVersionConfig(t, Host, c)
        BY <1>6, <2>1 DEF SocketRead
      <3>2. ~Untried(t, c) /\ t.app[c].ui = "No"
        BY <1>2, <2>1 DEF Taken
      <3> HIDE DEF t
      <3> QED BY <1>2, <1>6, <2>1, <3>1, <3>2, HostReadsVersion
    <2>2. CASE m.type # "VersionConfig"
      <3>1. v = t
        BY <1>6, <2>2 DEF SocketRead
      <3>2. m.type # "PingStats"
        <4>1. c # None
          BY <1>1
        <4> QED BY <1>6, <4>1 DEF Taken
      <3> HIDE DEF t
      <3>3. m.type = "InitialConfig" => Hope(t)
        <4>1. t.app[Host].ctrl # c
          BY <1>1, <1>2, <1>6
        <4> QED BY <1>2, <4>1, HostDropsInitial
      <3> QED BY <1>3, <1>5, <2>2, <3>1, <3>2, <3>3
    <2> QED BY <2>1, <2>2
  <1>7. CASE w.app[Host].ctrl # None
    <2>1. /\ m.type = "VersionConfig" => v = r
          /\ m.type = "InitialConfig" => v = GotInitialConfig(t, Host, m)
          /\ m.type = "PingStats" => v \in GotPingStats(t, Host, m)
          /\ m.type = "NetplayConfig" => v = GotNetplayConfig(t, Host, m)
          /\ m.type = "ConfirmConfig" => v = GotConfirmConfig(t, Host)
          /\ m.type = "ErrorMessage" => v = Stop(t, Host)
      BY <1>3, <1>7 DEF SocketRead
    <2>2. t.app[Host].ctrl \in Clients
      BY <1>2, <1>4, <1>7 DEF HostInOrder
    <2>3. err \in Msg /\ err.type = "ErrorMessage"
      BY DEF Msg
    <2>4. m.type = "NetplayConfig" => v = t
      BY <2>1 DEF GotNetplayConfig
    <2> HIDE DEF t, err
    <2>5. Hope(t) => Hope(r)
      BY <1>4, <2>3, SendingKeepsHope
    <2>6. CASE m.type = "VersionConfig"
      BY <1>5, <2>1, <2>5, <2>6
    <2>7. CASE m.type = "InitialConfig"
      BY <1>2, <2>1, <2>2, <2>7, HostReadsInitial
    <2>8. CASE m.type = "PingStats"
      BY <1>2, <2>1, <2>8, HostReadsStats
    <2>9. CASE m.type = "NetplayConfig"
      BY <1>5, <2>4, <2>9
    <2>10. CASE m.type = "ConfirmConfig"
      BY <1>2, <1>4, <1>5, <2>1, <2>10, HostReadsConfirm
    <2>11. CASE m.type = "ErrorMessage"
      BY <1>1, <1>4, <2>1, <2>11, StoppingKeepsHope
    <2> QED BY <1>3, <2>6, <2>7, <2>8, <2>9, <2>10, <2>11
  <1> QED BY <1>6, <1>7

-----------------------------------------------------------------------------
(* Events of sockets.                                                      *)

\* In w, p has just taken the message m from the connection of c, and is going to handle it.
Fetched(w, m, kind, c, p) ==
    LET l == w.link[kind][c]  k == world.link[kind][c] IN
    /\ m \in Msg /\ Good(w) /\ Running(w, p) /\ p \in l.ends /\ l \in LinkType
    /\ LinkSet(w, world, kind, c, l) /\ AfterRead(l, k, c, p, m.type)
    /\ kind = "ctrl" =>
         /\ Taken(w, p, c, m)
         /\ m.type = "Open" /\ p = Host =>
              Host \in Ends(w, c) /\ w.app[Host].ctrl # c /\ ~Has(To(w, c, Host), "Open")
         /\ m.type = "Open" /\ p # Host =>
              /\ NoStats(w, c) /\ w.app[Host].ctrl # c /\ w.app[c].ui = "No"
              /\ ~Has(To(w, c, Host), "VersionConfig") /\ ~Has(To(w, c, c), "Open")
    /\ kind = "data" => m.type \in {"Open", "Closed", "Ping"}
    /\ world' \in CASE m.type = "Open" -> {IF p = Host THEN SocketAccepted(w, kind, c) ELSE SocketConnected(w, kind, c)}
                    [] m.type = "Closed" -> {SocketDisconnected(w, p, kind, c)}
                    [] OTHER -> SocketRead(w, p, c, m)

\* Handle begins with the taking of a message.
LEMMA MessageIsFetched ==
    ASSUME Good(world), NEW kind \in Kinds, NEW c \in Clients, NEW p \in {Host, c}, Handle(p, kind, c)
    PROVE  \E w, m : Fetched(w, m, kind, c, p)
  <1> DEFINE k == world.link[kind][c]
             queue == k.to[p]
             l == ReadBy(k, p)
             w == [world EXCEPT !.link[kind][c] = l]
             m == Head(queue)
  <1>1. /\ world \in World /\ Typed(world) /\ p \in Apps /\ c \in Apps /\ Host # c /\ Running(world, p)
        /\ queue # << >> /\ queue \in Seq(Msg) /\ "ctrl" \in Kinds /\ kind \in {"ctrl", "data"}
    BY GoodFacts, WhoIsWho, WorldFields DEF Handle, Kinds
  <1>2. /\ k \in LinkType /\ Wired(k, kind, c)
        /\ \A q \in k.ends : Running(world, q)
        /\ kind = "ctrl" /\ c \in world.pending => Host \in k.ends
    BY <1>1, WorldFields DEF Typed, AllWired, Alive, Waiting, Ends
  <1>3. AfterRead(l, k, c, p, m.type) /\ m \in Msg
    BY Zenon, <1>1, <1>2, ReadShape
  <1>4. l \in LinkType /\ l.ends = k.ends /\ p \in l.ends
    BY <1>1, <1>2, <1>3 DEF AfterRead, Wired
  <1>5. l = [k EXCEPT !.to[p] = Tail(@)]
    BY DEF ReadBy
  <1>6. LessLink(l, k) /\ Wired(l, kind, c)
    <2> DEFINE x == [k EXCEPT !.to[p] = Tail(@)]
    <2>1. k.to[p] # << >>
      BY <1>1
    <2> HIDE DEF k
    <2>2. LessLink(x, k) /\ Wired(x, kind, c)
      BY <1>1, <1>2, <2>1, MessageIsTaken
    <2> HIDE DEF x
    <2>3. l = x
      BY <1>5 DEF x
    <2> QED BY <2>2, <2>3
  <1>7. l.to[p] = Tail(queue) /\ \A q \in Apps : q # p => l.to[q] = k.to[q]
    BY <1>1, <1>2, <1>5 DEF LinkType
  <1>8. world' \in CASE m.type = "Open" -> {IF p = Host THEN SocketAccepted(w, kind, c) ELSE SocketConnected(w, kind, c)}
                     [] m.type = "Closed" -> {SocketDisconnected(w, p, kind, c)}
                     [] OTHER -> SocketRead(w, p, c, m)
    <2>1. w = [world EXCEPT !.link[kind][c].to[p] = Tail(@)]
      BY <1>5
    <2> QED BY <2>1 DEF Handle
  <1> HIDE DEF l
  <1>9. LinkSet(w, world, kind, c, l)
    BY <1>1, <1>4, LinkSetShape
  <1>10. /\ w \in World /\ w.app = world.app /\ w.link = [world.link EXCEPT ![kind][c] = l]
         /\ w.pending = world.pending
    BY <1>1, <1>4 DEF World
  <1> HIDE DEF w
  <1>11. Calm(w, world)
    <2>1. /\ \A q \in l.ends : Running(world, q)
          /\ LessLink(l, world.link[kind][c]) /\ w.pending \subseteq world.pending
          /\ kind = "ctrl" /\ c \in w.pending => Host \in l.ends
      BY <1>2, <1>4, <1>6, <1>10
    <2> HIDE DEF k, m, queue
    <2> QED BY ONLY Good(world), kind \in Kinds, c \in Clients, <1>1, <1>4, <1>6, <1>10, <2>1, LinkIsReplaced
  <1>12. Good(w) /\ Running(w, p) /\ w.link[kind][c] = l
    BY <1>1, <1>9, <1>10, <1>11, CalmKeepsGood DEF Running, LinkSet
  <1>13. ASSUME kind = "ctrl"
         PROVE  /\ Taken(w, p, c, m)
                /\ m.type = "Open" /\ p = Host =>
                     Host \in Ends(w, c) /\ w.app[Host].ctrl # c /\ ~Has(To(w, c, Host), "Open")
                /\ m.type = "Open" /\ p # Host =>
                     /\ NoStats(w, c) /\ w.app[Host].ctrl # c /\ w.app[c].ui = "No"
                     /\ ~Has(To(w, c, Host), "VersionConfig") /\ ~Has(To(w, c, c), "Open")
    <2>1. /\ To(world, c, p) = queue /\ To(w, c, p) = Tail(queue) /\ Ends(w, c) = Ends(world, c)
          /\ \A q \in Apps : q # p => To(w, c, q) = To(world, c, q)
      BY <1>4, <1>7, <1>12, <1>13 DEF To, Ends
    <2> HIDE DEF queue
    <2> QED BY <1>1, <1>10, <1>11, <2>1, NextMessage
  <1>14. ASSUME kind = "data" PROVE m.type \in {"Open", "Closed", "Ping"}
    <2>1. 1 \in 1 .. Len(queue) /\ m = queue[1]
      BY <1>1
    <2> QED BY <1>1, <1>2, <1>14, <2>1 DEF Wired
  <1> HIDE DEF m, k
  <1>15. Fetched(w, m, kind, c, p)
    BY <1>3, <1>4, <1>8, <1>9, <1>12, <1>13, <1>14 DEF Fetched, k
  <1> QED BY <1>15

\* Handle
LEMMA HandleIsGood ==
    ASSUME Good(world), NEW kind \in Kinds, NEW c \in Clients, NEW p \in {Host, c}, Handle(p, kind, c)
    PROVE  Good(world')
  <1>1. PICK w, m : Fetched(w, m, kind, c, p)
    BY MessageIsFetched
  <1>2. /\ Good(w) /\ Running(w, p) /\ m \in Msg /\ p \in Apps /\ kind \in {"ctrl", "data"}
        /\ world' \in CASE m.type = "Open" -> {IF p = Host THEN SocketAccepted(w, kind, c) ELSE SocketConnected(w, kind, c)}
                        [] m.type = "Closed" -> {SocketDisconnected(w, p, kind, c)}
                        [] OTHER -> SocketRead(w, p, c, m)
    BY <1>1, WhoIsWho DEF Fetched, Kinds
  <1>3. CASE m.type = "Open" /\ p = Host
    <2>1. kind = "ctrl" => Host \in Ends(w, c) /\ w.app[Host].ctrl # c /\ ~Has(To(w, c, Host), "Open")
      BY <1>1, <1>3 DEF Fetched
    <2> QED BY <1>2, <1>3, <2>1, SocketAcceptedIsGood
  <1>4. CASE m.type = "Open" /\ p # Host
    <2>1. kind = "ctrl" => /\ NoStats(w, c) /\ w.app[Host].ctrl # c /\ w.app[c].ui = "No"
                           /\ ~Has(To(w, c, Host), "VersionConfig") /\ ~Has(To(w, c, c), "Open")
      BY <1>1, <1>4 DEF Fetched
    <2>2. p = c
      BY <1>4
    <2> QED BY <1>2, <1>4, <2>1, <2>2, SocketConnectedIsGood
  <1>5. CASE m.type = "Closed"
    BY <1>2, <1>5, DisconnectedIsGood
  <1>6. CASE m.type \notin {"Open", "Closed"}
    <2>1. Taken(w, p, c, m)
      BY <1>1, <1>2, <1>6 DEF Fetched, Taken
    <2> QED BY <1>2, <1>6, <2>1, SocketReadIsGood
  <1> QED BY <1>3, <1>4, <1>5, <1>6

\* Every step leaves a good world.
LEMMA StepIsGood ==
    ASSUME Good(world), [Next]_vars
    PROVE  Good(world')
  <1>1. CASE UNCHANGED vars
    BY <1>1 DEF vars
  <1>2. ASSUME NEW c \in Clients, Begin(c) PROVE Good(world')
    BY <1>2, BeginIsGood
  <1>3. ASSUME NEW c \in Clients, TimedOut(c) PROVE Good(world')
    <2>1. c \in Apps /\ Running(world, c) /\ world' = Stop(world, c)
      BY <1>3, WhoIsWho DEF TimedOut
    <2> QED BY <2>1, StopIsGood
  <1>4. ASSUME NEW c \in Clients, PendingTimedOut(c) PROVE Good(world')
    BY <1>4, PendingTimedOutIsGood
  <1>5. ASSUME NEW c \in Clients, Fail(c) PROVE Good(world')
    BY <1>5, FailIsGood
  <1>6. ASSUME NEW p \in Apps, PingTimer(p) PROVE Good(world')
    BY <1>6, PingTimerIsGood
  <1>7. ASSUME NEW p \in Apps, Answer(p) PROVE Good(world')
    BY <1>7, AnswerIsGood
  <1>8. ASSUME NEW p \in Apps, GotUserConfirmation(p) PROVE Good(world')
    BY <1>8, ConfirmationIsGood
  <1>9. ASSUME NEW p \in Apps, OpenGame(p) PROVE Good(world')
    BY <1>9, OpenGameIsGood
  <1>10. ASSUME NEW p \in Apps, Cancel(p) PROVE Good(world')
    <2>1. Running(world, p) /\ world' = Stop(world, p)
      BY <1>10 DEF Cancel, Running
    <2> QED BY <2>1, StopIsGood
  <1>11. ASSUME NEW kind \in Kinds, NEW c \in Clients, NEW p \in {Host, c}, Handle(p, kind, c) PROVE Good(world')
    BY <1>11, HandleIsGood
  <1> QED BY <1>1, <1>2, <1>3, <1>4, <1>5, <1>6, <1>7, <1>8, <1>9, <1>10, <1>11 DEF Next

\* What is at hand then.
LEMMA FetchedFacts ==
    ASSUME Hope(world), NEW kind \in Kinds, NEW c \in Clients, NEW p \in {Host, c}, NEW w, NEW m,
           Fetched(w, m, kind, c, p)
    PROVE  /\ Typed(w) /\ w \in World /\ w.app = world.app /\ w.pending = world.pending /\ HostIsClean(w.app[Host])
           /\ \A d \in Clients : d # c => SteadyOf(w, d) /\ DrivenOf(w, d)
           /\ Steady(w.app[Host], w.app[c], world.link["ctrl"][c], world.link["data"][c], c \in w.pending, c)
           /\ Driven(w.app[Host], w.app[c], world.link["ctrl"][c], c)
           /\ kind = "ctrl" => w.link["data"][c] = world.link["data"][c]
           /\ kind = "data" => w.link["ctrl"][c] = world.link["ctrl"][c]
  <1>1. LinkSet(w, world, kind, c, w.link[kind][c]) /\ Good(w)
    BY DEF Fetched
  <1>2. w \in World /\ w.app = world.app /\ w.pending = world.pending /\ Typed(w) /\ HostIsClean(w.app[Host])
    BY <1>1 DEF LinkSet, Good, Hope
  <1>3. \A d \in Clients : d # c => SteadyOf(w, d) /\ DrivenOf(w, d)
    BY <1>1, LinkSetFrame DEF Hope
  <1>4. SteadyOf(world, c) /\ DrivenOf(world, c)
    BY DEF Hope
  <1>5. /\ kind = "ctrl" => w.link["data"][c] = world.link["data"][c]
        /\ kind = "data" => w.link["ctrl"][c] = world.link["ctrl"][c]
    BY <1>1, WhoIsWho DEF LinkSet
  <1> QED BY <1>2, <1>3, <1>4, <1>5 DEF SteadyOf, DrivenOf

\* A message that is not about the connection itself.
LEMMA ReadsKeepHope ==
    ASSUME Hope(world), NEW kind \in Kinds, NEW c \in Clients, NEW p \in {Host, c}, NEW w, NEW m,
           Fetched(w, m, kind, c, p), m.type \notin {"Open", "Closed"}
    PROVE  Hope(world')
  <1>1. /\ m \in Msg /\ Good(w) /\ Running(w, p) /\ w \in World /\ Typed(w) /\ p \in Apps /\ Host # c /\ c \in Apps
        /\ HostIsClean(w.app[Host])
        /\ AfterRead(w.link[kind][c], world.link[kind][c], c, p, m.type)
        /\ kind \in {"ctrl", "data"}
    BY FetchedFacts, WhoIsWho DEF Fetched, Kinds
  <1>2. world' \in SocketRead(w, p, c, m)
    BY DEF Fetched
  <1> DEFINE k == world.link["ctrl"][c]
             l == world.link["data"][c]
  <1>3. /\ Steady(w.app[Host], w.app[c], k, l, c \in w.pending, c) /\ Driven(w.app[Host], w.app[c], k, c)
        /\ \A d \in Clients : d # c => SteadyOf(w, d) /\ DrivenOf(w, d)
    BY FetchedFacts
  <1> HIDE DEF k, l
  <1>4. CASE kind = "ctrl"
    <2>1. w.link["data"][c] = l /\ AfterRead(w.link["ctrl"][c], k, c, p, m.type) /\ Taken(w, p, c, m)
      BY <1>1, <1>4, FetchedFacts DEF Fetched, k, l
    <2>2. SteadyOf(w, c)
      BY <1>3, <2>1, ReadIsSteady DEF SteadyOf
    <2>3. HalfRead(w, p, c, m.type, k)
      BY <1>1, <1>3, <2>1, <2>2 DEF HalfRead, HopeBut, Steady
    <2>4. CASE p = Host
      BY <1>1, <1>2, <2>1, <2>3, <2>4, HostReadKeepsHope
    <2>5. CASE p = c
      BY <1>1, <1>2, <2>1, <2>3, <2>5, ClientReadKeepsHope
    <2> QED BY <2>4, <2>5
  <1>5. CASE kind = "data"
    <2>1. w.link["ctrl"][c] = k /\ AfterRead(w.link["data"][c], l, c, p, m.type) /\ m.type = "Ping"
      BY <1>1, <1>5, FetchedFacts DEF Fetched, k, l
    <2>2. SteadyOf(w, c) /\ DrivenOf(w, c)
      BY <1>3, <2>1, ReadIsSteady DEF SteadyOf, DrivenOf
    <2>3. Hope(w)
      BY <1>1, <1>3, <2>2 DEF Hope
    <2> DEFINE t == [w EXCEPT !.app[p].timeout = FALSE]
    <2>4. Hope(t) /\ Good(t) /\ Running(t, p) /\ t.app[p].ctrl = w.app[p].ctrl
      BY <1>1, <2>3, TimerStops
    <2>5. world' = IF w.app[p].ctrl = None THEN t ELSE GotPong(t, p, m.from)
      BY <1>2, <2>1 DEF SocketRead
    <2> HIDE DEF t
    <2>6. ASSUME w.app[p].ctrl # None PROVE Hope(GotPong(t, p, m.from))
      <3>1. Typed(t) /\ HostInOrder(t) /\ m.from \in Apps
        BY <1>1, <2>1, <2>4, GoodFacts, MsgFields
      <3>2. PICK e \in Clients : p \in {Host, e} /\ (p = Host => t.app[Host].ctrl = e)
        BY <2>4, <2>6, <3>1 DEF HostInOrder
      <3> QED BY <1>1, <2>4, <3>1, <3>2, GotPongKeepsHope
    <2> QED BY <2>4, <2>5, <2>6
  <1> QED BY <1>1, <1>4, <1>5

\* What a client needs when only its own part of the world has changed.
LEMMA OneClientHopes ==
    ASSUME NEW v, NEW w, NEW c \in Clients, \A d \in Clients : d # c => SteadyOf(w, d) /\ DrivenOf(w, d),
           HostIsClean(v.app[Host]), v.app[Host] = w.app[Host], SteadyOf(v, c), DrivenOf(v, c),
           \A d \in Clients : d # c => /\ v.app[d] = w.app[d] /\ (d \in v.pending <=> d \in w.pending)
                                       /\ v.link["ctrl"][d] = w.link["ctrl"][d]
                                       /\ v.link["data"][d] = w.link["data"][d]
    PROVE  Hope(v)
  <1>1. ASSUME NEW d \in Clients PROVE SteadyOf(v, d) /\ DrivenOf(v, d)
    <2>1. CASE d = c
      BY <2>1
    <2>2. CASE d # c
      <3>1. Steady(w.app[Host], w.app[d], w.link["ctrl"][d], w.link["data"][d], d \in w.pending, d)
        BY <2>2 DEF SteadyOf
      <3>2. Steady(v.app[Host], v.app[d], v.link["ctrl"][d], v.link["data"][d], d \in v.pending, d)
        <4>1. /\ v.app[d] = w.app[d] /\ v.link["ctrl"][d] = w.link["ctrl"][d] /\ v.link["data"][d] = w.link["data"][d]
              /\ (d \in v.pending) = (d \in w.pending)
          BY <2>2
        <4> QED BY <3>1, <4>1 DEF Steady, Known
      <3>3. Driven(v.app[Host], v.app[d], v.link["ctrl"][d], d)
        BY <2>2 DEF DrivenOf
      <3> QED BY <3>2, <3>3 DEF SteadyOf, DrivenOf
    <2> QED BY <2>1, <2>2
  <1> QED BY <1>1 DEF Hope

\* A client takes that its control connection k is there, and sends a VersionConfig.
LEMMA ClientOpensCtrl ==
    ASSUME NEW c \in Clients, NEW h, NEW b, NEW k, NEW l, NEW pend, Steady(h, b, k, l, pend, c), Driven(h, b, k, c),
           h.ctrl # c, NEW y, AfterRead(y, k, c, c, "Open"), NEW x, AfterSend(x, y, c, Host, "VersionConfig")
    PROVE  Steady(h, b, x, l, pend, c) /\ Driven(h, b, x, c)
  <1>1. Host # c /\ Peer(c, c) = Host /\ Peer(Host, c) = c
    BY TwoEnds DEF Peer
  <1>2. /\ x.ends = k.ends
        /\ \A z : /\ Has(k.to[Host], z) => Has(x.to[Host], z)
                  /\ Has(x.to[Host], z) => Has(k.to[Host], z) \/ z = "VersionConfig"
                  /\ Has(x.to[c], z) => Has(k.to[c], z)
                  /\ Has(k.to[c], z) => Has(x.to[c], z) \/ z = "Open"
    BY <1>1 DEF AfterRead, AfterSend
  <1>3. Has(k.to[c], "Open")
    BY DEF AfterRead
  <1>4. NotYet(b, x, c) => NotYet(b, k, c)
    BY <1>3 DEF NotYet
  <1>5. Linked(k, l, c) /\ Attached(b, k, l, c) /\ Known(h, b, k, l, pend, c) /\ Early(b, k, l, c)
    BY DEF Steady
  <1>6. Linked(x, l, c)
    <2>1. Noticed(x, c)
      BY <1>5 DEF Linked, AfterRead, AfterSend
    <2>2. Orderly(y, c)
      BY <1>5 DEF Linked, AfterRead
    <2>3. ~Has(k.to[Host], "InitialConfig") /\ y.to[Host] = k.to[Host]
      BY <1>1, <1>3, <1>5 DEF Linked, Orderly, AfterRead
    <2>4. Orderly(x, c)
      BY <2>2, <2>3 DEF AfterSend
    <2> QED BY <1>2, <1>5, <2>1, <2>4 DEF Linked
  <1>7. Attached(b, x, l, c)
    BY <1>2, <1>5 DEF Attached
  <1>8. Known(h, b, x, l, pend, c)
    BY <1>2, <1>5 DEF Known, Expected
  <1>9. Early(b, x, l, c)
    BY <1>2, <1>4, <1>5 DEF Early
  <1>10. Driven(h, b, x, c)
    <2>1. Sound(x, c) => Sound(k, c)
      BY <1>2 DEF Sound
    <2>2. Begun(k, c) => Begun(x, c)
      BY <1>2 DEF Begun
    <2> QED BY <1>4, <2>1, <2>2 DEF Driven
  <1> QED BY <1>6, <1>7, <1>8, <1>9, <1>10 DEF Steady

\* The host takes that the control connection k of c is there, and sends a VersionConfig.
LEMMA HostOpensCtrl ==
    ASSUME NEW c \in Clients, NEW h, NEW b, NEW k, NEW l, NEW pend, Steady(h, b, k, l, pend, c),
           h.ctrl # c, NEW y, AfterRead(y, k, c, Host, "Open"), NEW x, AfterSend(x, y, c, c, "VersionConfig")
    PROVE  Steady(h, b, x, l, TRUE, c) /\ Driven(h, b, x, c)
  <1>1. Host # c /\ Peer(c, c) = Host /\ Peer(Host, c) = c
    BY TwoEnds DEF Peer
  <1>2. /\ x.ends = k.ends /\ y.ends = k.ends
        /\ \A z : /\ Has(x.to[Host], z) => Has(k.to[Host], z)
                  /\ Has(x.to[c], z) => Has(k.to[c], z) \/ z = "VersionConfig"
                  /\ Has(k.to[c], z) => Has(x.to[c], z)
    BY <1>1 DEF AfterRead, AfterSend
  <1>3. x.ends = {Host, c} => Has(x.to[c], "VersionConfig")
    BY <1>2 DEF AfterSend
  <1>4. NotYet(b, x, c) => NotYet(b, k, c)
    BY <1>2 DEF NotYet
  <1>5. Linked(k, l, c) /\ Attached(b, k, l, c) /\ Known(h, b, k, l, pend, c) /\ Early(b, k, l, c)
    BY DEF Steady
  <1>6. Linked(x, l, c)
    <2>1. Noticed(x, c)
      BY <1>5 DEF Linked, AfterRead, AfterSend
    <2>2. Orderly(x, c)
      BY <1>1, <1>5 DEF Linked, AfterRead, AfterSend
    <2> QED BY <1>2, <1>5, <2>1, <2>2 DEF Linked
  <1>7. Attached(b, x, l, c)
    BY <1>2, <1>5 DEF Attached
  <1>8. Known(h, b, x, l, TRUE, c)
    BY <1>5 DEF Known
  <1>9. Early(b, x, l, c)
    BY <1>2, <1>4, <1>5 DEF Early
  <1>10. Driven(h, b, x, c)
    BY <1>3 DEF Driven, Sound, Begun
  <1> QED BY <1>6, <1>7, <1>8, <1>9, <1>10 DEF Steady

\* A client takes that a connection is there.
LEMMA ClientOpensWell ==
    ASSUME Hope(world), NEW kind \in Kinds, NEW c \in Clients, NEW w, NEW m, Fetched(w, m, kind, c, c),
           m.type = "Open"
    PROVE  Hope(world')
  <1> DEFINE k == world.link["ctrl"][c]
             l == world.link["data"][c]
             h == w.app[Host]
             b == w.app[c]
  <1>1. /\ Good(w) /\ w \in World /\ Host # c /\ c \in Apps /\ HostIsClean(h) /\ b \in AppType /\ kind \in {"ctrl", "data"}
        /\ AfterRead(w.link[kind][c], world.link[kind][c], c, c, "Open") /\ c \in w.link[kind][c].ends
        /\ world' = SocketConnected(w, kind, c)
    <2>1. world' = SocketConnected(w, kind, c)
      BY WhoIsWho DEF Fetched
    <2> QED BY <2>1, FetchedFacts, WhoIsWho, GoodFacts DEF Fetched, Kinds, LinkSet
  <1>2. /\ Steady(h, b, k, l, c \in w.pending, c) /\ Driven(h, b, k, c)
        /\ \A d \in Clients : d # c => SteadyOf(w, d) /\ DrivenOf(w, d)
    BY FetchedFacts
  <1> HIDE DEF k, l
  <1>3. CASE kind = "ctrl"
    <2> DEFINE vc == [type |-> "VersionConfig"]
               v == Send(w, "ctrl", c, c, vc)
    <2>1. world' = v
      BY <1>1, <1>3 DEF SocketConnected, SendCtrl, ClientOf
    <2>2. vc \in Msg /\ vc.type = "VersionConfig"
      BY DEF Msg
    <2> HIDE DEF vc
    <2>3. LinkSet(v, w, "ctrl", c, v.link["ctrl"][c]) /\ AfterSend(v.link["ctrl"][c], w.link["ctrl"][c], c, Host, "VersionConfig")
      <3>1. /\ LinkSet(v, w, "ctrl", c, WithMore(w.link["ctrl"][c], c, Peer(c, c), vc))
            /\ AfterSend(v.link["ctrl"][c], w.link["ctrl"][c], c, Peer(c, c), vc.type)
        BY <1>1, <2>2, SendSets, WhoIsWho
      <3> QED BY <1>1, <2>2, <3>1 DEF LinkSet, Peer
    <2> HIDE DEF v
    <2>4. AfterRead(w.link["ctrl"][c], k, c, c, "Open") /\ h.ctrl # c /\ w.link["data"][c] = l
      BY <1>1, <1>3, FetchedFacts DEF Fetched, k, l
    <2>5. Steady(h, b, v.link["ctrl"][c], l, c \in w.pending, c) /\ Driven(h, b, v.link["ctrl"][c], c)
      BY <1>2, <2>3, <2>4, ClientOpensCtrl
    <2>6. v.app = w.app /\ v.pending = w.pending /\ v.link["data"][c] = l
      BY <2>3, <2>4, WhoIsWho DEF LinkSet
    <2>7. SteadyOf(v, c) /\ DrivenOf(v, c)
      BY <2>5, <2>6 DEF SteadyOf, DrivenOf
    <2>8. \A d \in Clients : d # c => SteadyOf(v, d) /\ DrivenOf(v, d)
      BY <1>2, <2>3, LinkSetFrame, WhoIsWho
    <2> QED BY <1>1, <2>1, <2>6, <2>7, <2>8 DEF Hope
  <1>4. CASE kind = "data"
    <2> DEFINE a == [b EXCEPT !.data = "Open", !.timeout = FALSE]
               v == [w EXCEPT !.app[c] = a]
               y == w.link["data"][c]
    <2>1. world' = v
      BY <1>1, <1>4 DEF SocketConnected
    <2>2. /\ a \in AppType /\ a.data = "Open" /\ a.role = b.role /\ a.status = b.status /\ a.ctrl = b.ctrl
          /\ a.ready = b.ready /\ a.final = b.final /\ a.ui = b.ui /\ a.confirmed = b.confirmed /\ a.pinger = b.pinger
      BY <1>1 DEF AppType
    <2> HIDE DEF a
    <2>3. AppSet(v, w, c, a)
      BY <1>1, <2>2, AppSetShape
    <2> HIDE DEF v
    <2>4. AfterRead(y, l, c, c, "Open") /\ w.link["ctrl"][c] = k /\ c \in y.ends
      BY <1>1, <1>4, FetchedFacts DEF l, k
    <2>5. /\ v.app[Host] = h /\ v.app[c] = a /\ v.link = w.link /\ v.pending = w.pending
          /\ \A d \in Clients : d # c => v.app[d] = w.app[d]
      BY <1>1, <2>3, WhoIsWho DEF AppSet
    <2> HIDE DEF y, h, b
    <2>6. Linked(k, l, c) /\ Attached(b, k, l, c) /\ Known(h, b, k, l, c \in w.pending, c) /\ Early(b, k, l, c)
      BY <1>2 DEF Steady
    <2>7. y.ends = l.ends /\ y.to[Host] = l.to[Host] /\ Noticed(y, c)
      <3>1. Peer(c, c) = Host
        BY <1>1 DEF Peer
      <3> QED BY <2>4, <2>6, <3>1 DEF AfterRead, Linked
    <2>8. Steady(h, a, k, y, c \in w.pending, c)
      <3>1. Linked(k, y, c)
        BY <2>6, <2>7 DEF Linked
      <3>2. Attached(a, k, y, c)
        BY <2>2, <2>4, <2>6 DEF Attached
      <3>3. Known(h, a, k, y, c \in w.pending, c)
        BY <2>2, <2>6, <2>7 DEF Known, Expected
      <3>4. ~NotYet(a, k, c)
        BY <2>2, <2>4, <2>6, <2>7 DEF NotYet, Early
      <3> QED BY <3>1, <3>2, <3>3, <3>4 DEF Steady, Early
    <2>9. Driven(h, a, k, c)
      <3>1. NotYet(a, k, c) => NotYet(b, k, c)
        BY <2>2 DEF NotYet
      <3>2. Carried(h, b, k, c) => Carried(h, a, k, c)
        BY <2>2 DEF Carried
      <3> QED BY <1>2, <2>2, <3>1, <3>2 DEF Driven
    <2>10. SteadyOf(v, c) /\ DrivenOf(v, c)
      BY <2>4, <2>5, <2>8, <2>9 DEF SteadyOf, DrivenOf, y
    <2>11. HostIsClean(v.app[Host]) /\ v.app[Host] = w.app[Host]
      BY <1>1, <2>5 DEF h
    <2> QED BY <1>2, <2>1, <2>5, <2>10, <2>11, OneClientHopes
  <1> QED BY <1>1, <1>3, <1>4

\* The host takes that a control connection is there.
LEMMA HostOpensCtrlWell ==
    ASSUME Hope(world), NEW c \in Clients, NEW w, NEW m, Fetched(w, m, "ctrl", c, Host), m.type = "Open"
    PROVE  Hope(SocketAccepted(w, "ctrl", c))
  <1> DEFINE k == world.link["ctrl"][c]
             l == world.link["data"][c]
             h == w.app[Host]
             b == w.app[c]
             t == [w EXCEPT !.pending = @ \cup {c}]
             vc == [type |-> "VersionConfig"]
             v == Send(t, "ctrl", c, Host, vc)
  <1>1. /\ w \in World /\ Host # c /\ c \in Apps /\ HostIsClean(h) /\ w.pending \subseteq Clients /\ "ctrl" \in Kinds
        /\ AfterRead(w.link["ctrl"][c], k, c, Host, "Open") /\ h.ctrl # c /\ w.link["data"][c] = l
    BY FetchedFacts, WhoIsWho, WorldFields DEF Fetched
  <1>2. /\ Steady(h, b, k, l, c \in w.pending, c)
        /\ \A d \in Clients : d # c => SteadyOf(w, d) /\ DrivenOf(w, d)
    BY FetchedFacts, WhoIsWho
  <1>3. SocketAccepted(w, "ctrl", c) = v
    BY DEF SocketAccepted
  <1>4. vc \in Msg /\ vc.type = "VersionConfig"
    BY DEF Msg
  <1>5. t \in World /\ t.app = w.app /\ t.link = w.link /\ t.pending = w.pending \cup {c}
    BY <1>1 DEF World
  <1> HIDE DEF k, l, t, vc
  <1>6. LinkSet(v, t, "ctrl", c, v.link["ctrl"][c]) /\ AfterSend(v.link["ctrl"][c], w.link["ctrl"][c], c, c, "VersionConfig")
    <2>1. /\ LinkSet(v, t, "ctrl", c, WithMore(t.link["ctrl"][c], c, Peer(Host, c), vc))
          /\ AfterSend(v.link["ctrl"][c], t.link["ctrl"][c], c, Peer(Host, c), vc.type)
      BY <1>1, <1>4, <1>5, SendSets
    <2> QED BY <1>4, <1>5, <2>1 DEF LinkSet, Peer
  <1> HIDE DEF v
  <1>7. Steady(h, b, v.link["ctrl"][c], l, TRUE, c) /\ Driven(h, b, v.link["ctrl"][c], c)
    BY <1>1, <1>2, <1>6, HostOpensCtrl
  <1>8. /\ v.app = w.app /\ v.pending = w.pending \cup {c} /\ v.link["data"][c] = l
        /\ \A d \in Clients : d # c => v.link["ctrl"][d] = w.link["ctrl"][d] /\ v.link["data"][d] = w.link["data"][d]
    BY <1>1, <1>5, <1>6, WhoIsWho DEF LinkSet
  <1>9. SteadyOf(v, c) /\ DrivenOf(v, c)
    <2>1. (c \in v.pending) = TRUE
      BY <1>8
    <2> QED BY <1>7, <1>8, <2>1 DEF SteadyOf, DrivenOf
  <1>10. \A d \in Clients : d # c => (d \in v.pending <=> d \in w.pending)
    BY <1>8
  <1> QED BY <1>1, <1>2, <1>3, <1>8, <1>9, <1>10, OneClientHopes

\* The host has read that the data connection of c is there, and not looked at it yet.
LEMMA HostFindsData ==
    ASSUME Hope(world), NEW c \in Clients, NEW w, NEW m, Fetched(w, m, "data", c, Host), m.type = "Open"
    PROVE  LET k == w.link["ctrl"][c]  y == w.link["data"][c]  b == w.app[c] IN
           /\ Linked(k, y, c) /\ Attached(b, k, y, c) /\ Early(b, k, y, c) /\ Host \in y.ends
           /\ (Host \in k.ends => c \in w.pending \/ w.app[Host].ctrl = c \/ Expected(k, Host))
           /\ (w.app[Host].ctrl = c => b.role = "Player")
           /\ \A d \in Clients : DrivenOf(w, d) /\ (d # c => SteadyOf(w, d))
  <1> DEFINE k == w.link["ctrl"][c]
             y == w.link["data"][c]
             l == world.link["data"][c]
             b == w.app[c]
  <1>1. /\ Host # c /\ "data" \in Kinds /\ k = world.link["ctrl"][c] /\ AfterRead(y, l, c, Host, "Open")
        /\ Peer(Host, c) = c /\ Host \in y.ends
    <2>1. Host # c /\ "data" \in Kinds /\ Peer(Host, c) = c
      BY WhoIsWho DEF Peer
    <2>2. k = world.link["ctrl"][c]
      BY <2>1, FetchedFacts
    <2>3. AfterRead(y, l, c, Host, "Open") /\ Host \in y.ends
      BY DEF Fetched
    <2> QED BY <2>1, <2>2, <2>3
  <1>2. /\ Steady(w.app[Host], b, k, l, c \in w.pending, c) /\ Driven(w.app[Host], b, k, c)
        /\ \A d \in Clients : d # c => SteadyOf(w, d) /\ DrivenOf(w, d)
    BY <1>1, FetchedFacts
  <1>3. DrivenOf(w, c)
    BY <1>2 DEF DrivenOf
  <1> HIDE DEF k, y, l, b
  <1>4. Linked(k, l, c) /\ Attached(b, k, l, c) /\ Known(w.app[Host], b, k, l, c \in w.pending, c) /\ Early(b, k, l, c)
    BY <1>2 DEF Steady
  <1>5. y.ends = l.ends /\ y.to[c] = l.to[c] /\ Noticed(y, c)
    BY <1>1, <1>4 DEF AfterRead, Linked
  <1>6. Linked(k, y, c)
    BY <1>4, <1>5 DEF Linked
  <1>7. Attached(b, k, y, c) /\ Early(b, k, y, c)
    BY <1>4, <1>5 DEF Attached, Early, Expected
  <1>8. /\ (Host \in k.ends => c \in w.pending \/ w.app[Host].ctrl = c \/ Expected(k, Host))
        /\ (w.app[Host].ctrl = c => b.role = "Player")
    BY <1>4 DEF Known
  <1> QED BY <1>1, <1>2, <1>3, <1>6, <1>7, <1>8 DEF k, y, b

\* The host takes the data connection that it waits for.
LEMMA HostTakesData ==
    ASSUME Hope(world), NEW c \in Clients, NEW w, NEW m, Fetched(w, m, "data", c, Host), m.type = "Open",
           Connected(w, Host, "ctrl"), w.app[Host].data = "Listening"
    PROVE  Hope(SocketAccepted(w, "data", c))
  <1> DEFINE h == w.app[Host]
             e == h.ctrl
             a == [h EXCEPT !.data = "Open", !.peer = c]
             t == [w EXCEPT !.app[Host] = a]
  <1>1. /\ Good(w) /\ w \in World /\ Typed(w) /\ Host # c /\ c \in Apps /\ Host \in Apps /\ HostIsClean(h) /\ h \in AppType
        /\ Running(w, Host) /\ HostInOrder(w) /\ Connected(w, Host, "ctrl") /\ h.data = "Listening"
    <2>1. Good(w) /\ Running(w, Host) /\ HostIsClean(h)
      BY FetchedFacts, WhoIsWho DEF Fetched
    <2> QED BY <2>1, WhoIsWho, GoodFacts
  <1>2. SocketAccepted(w, "data", c) = PingerStart(t, Host)
    BY <1>1 DEF SocketAccepted
  <1>3. e \in Clients /\ e # None
    BY <1>1, WhoIsWho DEF HostInOrder, Connected, ClientOf
  <1>4. /\ a \in AppType /\ a.data = "Open" /\ a.peer = c /\ a.status = h.status /\ a.ctrl = e
        /\ a.ready = h.ready /\ a.ui = h.ui /\ a.pinger = h.pinger
    BY <1>1 DEF AppType
  <1>5. h.peer = None /\ HostIsClean(a)
    BY <1>1, <1>3, <1>4 DEF HostIsClean, Running
  <1> HIDE DEF a
  <1>6. AppSet(t, w, Host, a)
    BY <1>1, <1>4, AppSetShape
  <1> HIDE DEF t
  <1>7. /\ t.app[Host] = a /\ t.link = w.link /\ t.pending = w.pending /\ \A d \in Clients : t.app[d] = w.app[d]
    BY <1>1, <1>6, WhoIsWho DEF AppSet
  <1>8. Typed(t) /\ Running(t, Host)
    <2>1. Running(t, Host) /\ a.status \in {"Running", "Starting"}
      BY <1>1, <1>4, <1>7 DEF Running
    <2> QED BY <1>1, <1>6, <2>1, AppSetIsTyped
  <1> HIDE DEF h, e
  <1>9. ASSUME NEW d \in Clients PROVE SteadyOf(t, d) /\ (d # e => DrivenOf(t, d))
    <2>1. SteadyOf(t, d)
      <3>1. CASE d # c
        <4>1. Steady(h, w.app[d], w.link["ctrl"][d], w.link["data"][d], d \in w.pending, d)
          BY <3>1, HostFindsData DEF SteadyOf, h
        <4>2. d # None
          BY WhoIsWho
        <4>3. Known(a, w.app[d], w.link["ctrl"][d], w.link["data"][d], d \in w.pending, d)
          BY <1>4, <1>5, <4>1, <4>2 DEF Steady, Known, e
        <4> QED BY <1>7, <4>1, <4>3 DEF SteadyOf, Steady
      <3>2. CASE d = c
        <4> DEFINE k == w.link["ctrl"][c]
                   y == w.link["data"][c]
                   b == w.app[c]
        <4>1. /\ Linked(k, y, c) /\ Attached(b, k, y, c) /\ Early(b, k, y, c)
              /\ (Host \in k.ends => c \in w.pending \/ h.ctrl = c \/ Expected(k, Host))
              /\ (h.ctrl = c => b.role = "Player")
          BY HostFindsData DEF h
        <4> HIDE DEF k, y, b
        <4>2. Known(a, b, k, y, c \in w.pending, c)
          BY <1>4, <4>1 DEF Known, e
        <4>3. Steady(a, b, k, y, c \in w.pending, c)
          BY <4>1, <4>2 DEF Steady
        <4> QED BY <1>7, <3>2, <4>3 DEF SteadyOf, k, y, b
      <3> QED BY <3>1, <3>2
    <2>2. d # e => DrivenOf(t, d)
      <3>1. Driven(h, w.app[d], w.link["ctrl"][d], d)
        BY HostFindsData DEF DrivenOf, h
      <3>2. d # e => Driven(a, w.app[d], w.link["ctrl"][d], d)
        BY <1>4, <3>1 DEF Driven
      <3> QED BY <1>7, <3>2 DEF DrivenOf
    <2> QED BY <2>1, <2>2
  <1>10. HopeBut(t, e)
    BY <1>5, <1>7, <1>9 DEF HopeBut
  <1>11. Driven(Pinging(t.app[Host]), t.app[e], t.link["ctrl"][e], e)
    <2> DEFINE g == Pinging(a)
               b == w.app[e]
               x == w.link["ctrl"][e]
    <2>1. Driven(h, b, x, e)
      BY <1>3, HostFindsData DEF DrivenOf, h
    <2>2. g.ctrl = e /\ g.ready = h.ready /\ g.ui = h.ui /\ g.pinger.on
      BY <1>4, PingingShape
    <2> HIDE DEF g, b, x
    <2>3. Carried(h, b, x, e) => Carried(g, b, x, e)
      BY <2>2 DEF Carried
    <2>4. Driven(g, b, x, e)
      BY <2>1, <2>2, <2>3 DEF Driven, e
    <2> QED BY <1>3, <1>7, <2>4 DEF g, b, x
  <1>12. t.app[Host].ctrl = e
    BY <1>4, <1>7
  <1>13. Hope(PingerStart(t, Host))
    BY <1>3, <1>8, <1>10, <1>11, <1>12, HostPingsWell
  <1> QED BY <1>2, <1>13

\* The host closes a data connection that it does not wait for.
LEMMA HostRefusesData ==
    ASSUME Hope(world), NEW c \in Clients, NEW w, NEW m, Fetched(w, m, "data", c, Host), m.type = "Open"
    PROVE  Hope(Close(w, "data", c, Host))
  <1> DEFINE k == w.link["ctrl"][c]
             y == w.link["data"][c]
             b == w.app[c]
             h == w.app[Host]
             z == Cut(y, c, Host)
             v == Close(w, "data", c, Host)
  <1>1. /\ w \in World /\ Typed(w) /\ Host # c /\ "data" \in Kinds /\ "ctrl" \in Kinds /\ HostIsClean(h) /\ "data" # "ctrl"
    BY FetchedFacts, WhoIsWho
  <1>2. y \in LinkType /\ y.ends \subseteq {Host, c} /\ (Host \notin y.ends => y.to[Host] = << >>) /\ k.ends \subseteq {Host, c}
    BY <1>1, Wires
  <1>3. AfterCut(z, y, c, Host)
    BY <1>2, CutShape
  <1>4. v = [w EXCEPT !.link["data"][c] = z]
    BY <1>1, WorldFields DEF Close
  <1> HIDE DEF z
  <1>5. LinkSet(v, w, "data", c, z)
    <2>1. z \in LinkType
      BY <1>3 DEF AfterCut
    <2> HIDE DEF v
    <2> QED BY <1>1, <1>4, <2>1, LinkSetShape
  <1> HIDE DEF v
  <1>6. /\ Linked(k, y, c) /\ Attached(b, k, y, c) /\ Early(b, k, y, c)
        /\ (Host \in k.ends => c \in w.pending \/ h.ctrl = c \/ Expected(k, Host))
        /\ (h.ctrl = c => b.role = "Player")
        /\ \A d \in Clients : DrivenOf(w, d) /\ (d # c => SteadyOf(w, d))
    BY HostFindsData
  <1> HIDE DEF k, y, b, h
  <1>7. Linked(k, z, c) /\ Attached(b, k, z, c) /\ Early(b, k, z, c)
    <2>1. MayBeCut(k, k, c, Host) /\ MayBeCut(z, y, c, Host)
      BY <1>3 DEF MayBeCut
    <2> QED BY <1>2, <1>6, <2>1, CutConnections
  <1>8. Known(h, b, k, z, c \in w.pending, c)
    BY <1>3, <1>6 DEF Known, AfterCut
  <1>9. SteadyOf(v, c) /\ v.app = w.app
    <2>1. v.app = w.app /\ v.pending = w.pending /\ v.link["data"][c] = z /\ v.link["ctrl"][c] = k
      BY <1>1, <1>5 DEF LinkSet, k
    <2> QED BY <1>7, <1>8, <2>1 DEF SteadyOf, Steady, b, h
  <1>10. \A d \in Clients : DrivenOf(v, d) /\ (d # c => SteadyOf(v, d))
    BY <1>1, <1>5, <1>6, LinkSetFrame
  <1>11. HostIsClean(v.app[Host])
    BY <1>1, <1>9 DEF h
  <1>12. \A d \in Clients : SteadyOf(v, d) /\ DrivenOf(v, d)
    BY ONLY <1>9, <1>10
  <1> QED BY <1>11, <1>12 DEF Hope, v

\* The host takes that a connection is there.
LEMMA HostOpensWell ==
    ASSUME Hope(world), NEW kind \in Kinds, NEW c \in Clients, NEW w, NEW m, Fetched(w, m, kind, c, Host),
           m.type = "Open"
    PROVE  Hope(world')
  <1>1. world' = SocketAccepted(w, kind, c)
    BY DEF Fetched
  <1>2. CASE kind = "ctrl"
    BY <1>1, <1>2, HostOpensCtrlWell
  <1>3. CASE kind = "data"
    <2>1. CASE Connected(w, Host, "ctrl") /\ w.app[Host].data = "Listening"
      BY <1>1, <1>3, <2>1, HostTakesData
    <2>2. CASE ~(Connected(w, Host, "ctrl") /\ w.app[Host].data = "Listening")
      <3>1. world' = Close(w, "data", c, Host)
        BY <1>1, <1>3, <2>2 DEF SocketAccepted
      <3> QED BY <1>3, <3>1, HostRefusesData
    <2> QED BY <2>1, <2>2
  <1> QED BY <1>2, <1>3 DEF Kinds

\* The end of p is gone, and it has been told so: the other end gets to know.
LEMMA GoneShape ==
    ASSUME NEW c \in Clients, NEW p \in {Host, c}, NEW l, Noticed(l, c), l.ends \subseteq {Host, c},
           NEW y, AfterRead(y, l, c, p, "Closed"), NEW z, z = [to |-> [y.to EXCEPT ![p] = << >>], ends |-> y.ends \ {p}]
    PROVE  AfterCut(z, l, c, p)
  <1> DEFINE o == Peer(p, c)
  <1>1. /\ o \in {Host, c} /\ o # p /\ o \in Apps /\ p \in Apps /\ Host # c
        /\ o = (IF p = Host THEN c ELSE Host)
    BY TwoEnds DEF Peer
  <1> HIDE DEF o
  <1>2. y \in LinkType /\ y.ends = l.ends /\ y.to[o] = l.to[o] /\ Has(l.to[p], "Closed") /\ (Orderly(l, c) => Orderly(y, c))
    BY DEF AfterRead, o
  <1>3. z \in LinkType /\ z.ends = l.ends \ {p} /\ z.to[p] = << >> /\ z.to[o] = l.to[o]
    BY <1>1, <1>2 DEF LinkType
  <1>4. \A x : ~Has(z.to[p], x)
    BY <1>3, EmptyQueue
  <1>5. l.ends = {Host, c} => Has(l.to[o], "Closed")
    BY <1>1, <1>2 DEF Noticed
  <1>6. Orderly(l, c) => Orderly(z, c)
    <2>1. SUFFICES ASSUME Orderly(y, c) PROVE Orderly(z, c)
      BY <1>2
    <2>2. \A q \in {Host, c} : z.to[q] = y.to[q] \/ z.to[q] = << >>
      BY <1>1, <1>2, <1>3
    <2>3. \A type : ~Has(<< >>, type)
      BY EmptyQueue
    <2>4. 1 .. Len(<< >>) = {}
      OBVIOUS
    <2> QED BY <2>1, <2>2, <2>3, <2>4 DEF Orderly
  <1> QED BY <1>3, <1>4, <1>5, <1>6 DEF AfterCut, o

\* What socketDisconnected begins with: p has lost its end, and has read so.
LEMMA LostShape ==
    ASSUME Hope(world), NEW kind \in Kinds, NEW c \in Clients, NEW p \in {Host, c}, NEW w, NEW m,
           Fetched(w, m, kind, c, p), m.type = "Closed"
    PROVE  LET t == Gone(w, p, kind, c) IN
           /\ LinkSet(t, w, kind, c, t.link[kind][c])
           /\ AfterCut(t.link[kind][c], world.link[kind][c], c, p)
           /\ t = [t EXCEPT !.pending = w.pending]
  <1> DEFINE t == Gone(w, p, kind, c)
             l == world.link[kind][c]
             y == w.link[kind][c]
             z == [to |-> [y.to EXCEPT ![p] = << >>], ends |-> y.ends \ {p}]
  <1>1. /\ w \in World /\ y \in LinkType /\ AfterRead(y, l, c, p, "Closed") /\ LinkSet(w, world, kind, c, y)
        /\ p \in Apps
    <2>1. p \in Apps
      BY TwoEnds
    <2> QED BY ONLY Zenon, <2>1, Fetched(w, m, kind, c, p), m.type = "Closed" DEF Fetched, LinkSet
  <1>2. t = [w EXCEPT !.link[kind][c] = z]
    BY DEF Gone
  <1>3. z \in LinkType
    BY <1>1 DEF LinkType
  <1> HIDE DEF z
  <1>4. LinkSet(t, w, kind, c, z)
    BY <1>1, <1>2, <1>3, LinkSetShape
  <1>5. Typed(w) /\ Steady(w.app[Host], w.app[c], world.link["ctrl"][c], world.link["data"][c], c \in w.pending, c)
    BY FetchedFacts
  <1>6. Noticed(l, c)
    BY <1>5 DEF Steady, Linked, Kinds
  <1>7. y.ends \subseteq {Host, c} /\ l.ends = y.ends
    BY <1>1, <1>5, Wires DEF AfterRead
  <1>8. AfterCut(z, l, c, p)
    BY <1>1, <1>6, <1>7, GoneShape DEF z
  <1>9. t = [t EXCEPT !.pending = w.pending]
    <2>1. w = [app |-> w.app, link |-> w.link, pending |-> w.pending]
      BY <1>1, WorldFields
    <2> QED BY <2>1 DEF Gone
  <1> QED BY <1>4, <1>8, <1>9 DEF LinkSet

\* The host may lose an end at any time.
LEMMA HostMayLose ==
    ASSUME Hope(world), NEW kind \in Kinds, NEW c \in Clients, NEW w, NEW m, Fetched(w, m, kind, c, Host),
           m.type = "Closed", NEW v, LET t == Gone(w, Host, kind, c) IN
             /\ v.app = t.app /\ v.link = t.link
             /\ \A d \in Clients : kind = "data" \/ d # c => (d \in v.pending <=> d \in w.pending)
    PROVE  Hope(v)
  <1> DEFINE t == Gone(w, Host, kind, c)
             k == world.link["ctrl"][c]
             l == world.link["data"][c]
             x == t.link["ctrl"][c]
             y == t.link["data"][c]
             h == w.app[Host]
             b == w.app[c]
  <1>1. /\ w \in World /\ Typed(w) /\ HostIsClean(h) /\ Host # c /\ kind \in {"ctrl", "data"} /\ Host \in {Host, c}
        /\ LinkSet(t, w, kind, c, t.link[kind][c]) /\ AfterCut(t.link[kind][c], world.link[kind][c], c, Host)
        /\ "ctrl" \in Kinds /\ "data" \in Kinds /\ "ctrl" # "data"
    BY FetchedFacts, LostShape, WhoIsWho DEF Kinds
  <1>2. /\ Steady(h, b, k, l, c \in w.pending, c) /\ Driven(h, b, k, c)
        /\ \A d \in Clients : d # c => SteadyOf(w, d) /\ DrivenOf(w, d)
        /\ kind = "ctrl" => w.link["data"][c] = l
        /\ kind = "data" => w.link["ctrl"][c] = k
    BY <1>1, FetchedFacts
  <1>3. /\ t.app = w.app
        /\ kind = "ctrl" => AfterCut(x, k, c, Host) /\ y = l
        /\ kind = "data" => AfterCut(y, l, c, Host) /\ x = k
        /\ \A d \in Clients : d # c => t.link["ctrl"][d] = w.link["ctrl"][d] /\ t.link["data"][d] = w.link["data"][d]
    BY <1>1, <1>2 DEF LinkSet
  <1>4. k.ends \subseteq {Host, c} /\ l.ends \subseteq {Host, c}
    <2>1. LinkSet(w, world, kind, c, w.link[kind][c]) /\ w.link[kind][c].ends = world.link[kind][c].ends
      BY DEF Fetched, AfterRead
    <2>2. w.link["ctrl"][c].ends \subseteq {Host, c} /\ w.link["data"][c].ends \subseteq {Host, c}
      BY <1>1, Wires
    <2> QED BY <1>1, <1>2, <2>1, <2>2
  <1> HIDE DEF k, l, x, y, h, b, t
  <1>5. Linked(k, l, c) /\ Attached(b, k, l, c) /\ Known(h, b, k, l, c \in w.pending, c) /\ Early(b, k, l, c)
    BY <1>2 DEF Steady
  <1>6. MayBeCut(x, k, c, Host) /\ MayBeCut(y, l, c, Host)
    BY <1>1, <1>3 DEF MayBeCut
  <1>7. /\ Linked(x, y, c) /\ (x = k \/ ~Sound(x, c)) /\ Attached(b, x, y, c) /\ Early(b, x, y, c)
    BY <1>1, <1>4, <1>5, <1>6, CutConnections
  <1>8. Known(h, b, x, y, c \in v.pending, c)
    <2>1. CASE kind = "ctrl"
      BY <1>3, <1>5, <2>1 DEF Known, AfterCut
    <2>2. CASE kind = "data"
      <3>1. c \in v.pending <=> c \in w.pending
        BY <2>2
      <3> QED BY <1>3, <1>5, <2>2, <3>1 DEF Known, AfterCut
    <2> QED BY <1>1, <2>1, <2>2
  <1>9. Driven(h, b, x, c)
    BY <1>2, <1>7 DEF Driven
  <1>10. v.app = w.app /\ v.link = t.link
    BY <1>3 DEF t
  <1>11. SteadyOf(v, c) /\ DrivenOf(v, c) /\ HostIsClean(v.app[Host])
    BY <1>1, <1>7, <1>8, <1>9, <1>10 DEF SteadyOf, DrivenOf, Steady, x, y, h, b
  <1>12. \A d \in Clients : d # c => (d \in v.pending <=> d \in w.pending)
    OBVIOUS
  <1>13. \A d \in Clients : d # c => /\ v.app[d] = w.app[d] /\ (d \in v.pending <=> d \in w.pending)
                                      /\ v.link["ctrl"][d] = w.link["ctrl"][d]
                                      /\ v.link["data"][d] = w.link["data"][d]
    BY <1>3, <1>10, <1>12
  <1>14. v.app[Host] = w.app[Host] /\ \A d \in Clients : d # c => SteadyOf(w, d) /\ DrivenOf(w, d)
    BY <1>2, <1>10
  <1> QED BY ONLY c \in Clients, <1>11, <1>13, <1>14, OneClientHopes

\* socketDisconnected of the host.
LEMMA HostLosesWell ==
    ASSUME Hope(world), NEW kind \in Kinds, NEW c \in Clients, NEW w, NEW m, Fetched(w, m, kind, c, Host),
           m.type = "Closed"
    PROVE  Hope(SocketDisconnected(w, Host, kind, c))
  <1> DEFINE t == Gone(w, Host, kind, c)
             h == w.app[Host]
  <1>1. /\ Good(w) /\ w \in World /\ Typed(w) /\ HostInOrder(w) /\ Host \in Apps /\ Host # c /\ Running(w, Host)
        /\ t.app = w.app /\ t.pending = w.pending /\ t = [t EXCEPT !.pending = w.pending]
    <2>1. LinkSet(t, w, kind, c, t.link[kind][c]) /\ t = [t EXCEPT !.pending = w.pending] /\ Good(w) /\ Running(w, Host)
      BY LostShape, TwoEnds DEF Fetched
    <2> QED BY <2>1, FetchedFacts, GoodFacts, WhoIsWho DEF LinkSet
  <1>2. CASE c # ClientOf(w, Host, kind)
    <2> DEFINE v == [t EXCEPT !.pending = IF kind = "ctrl" THEN @ \ {c} ELSE @]
    <2>1. SocketDisconnected(w, Host, kind, c) = v
      BY <1>2 DEF SocketDisconnected
    <2> HIDE DEF t
    <2>2. v.app = t.app /\ v.link = t.link
      OBVIOUS
    <2>3. \A d \in Clients : kind = "data" \/ d # c => (d \in v.pending <=> d \in w.pending)
      <3>1. v.pending = IF kind = "ctrl" THEN w.pending \ {c} ELSE w.pending
        BY <1>1
      <3> QED BY <3>1
    <2> HIDE DEF v
    <2>4. Hope(v)
      BY <2>2, <2>3, HostMayLose DEF t
    <2> QED BY <2>1, <2>4
  <1>3. CASE c = ClientOf(w, Host, kind)
    <2>1. c = (IF kind = "ctrl" THEN h.ctrl ELSE h.peer)
      BY <1>3 DEF ClientOf
    <2>2. h.ctrl \in Clients
      BY <1>1, <2>1, WhoIsWho DEF HostInOrder
    <2>3. h.ctrl \notin w.pending
      <3>1. Single(w, h.ctrl)
        BY <1>1, <2>2, GoodFacts DEF TermsOf
      <3> QED BY <3>1 DEF Single
    <2> HIDE DEF t
    <2>4. Hope(t)
      BY <1>1, HostMayLose DEF t
    <2>5. Typed(t)
      <3>1. kind = "ctrl" => c \notin w.pending
        BY <2>1, <2>3
      <3>2. Calm([t EXCEPT !.pending = w.pending], w)
        BY <1>1, <3>1, GoneIsCalm DEF t
      <3> QED BY <1>1, <3>2 DEF Calm
    <2>6. SocketDisconnected(w, Host, kind, c) \in {ResetHost(t, h.ctrl), t, Stop(t, Host)}
      BY <1>3 DEF SocketDisconnected, t
    <2>7. Hope(ResetHost(t, h.ctrl))
      <3>1. HopeBut(t, h.ctrl) /\ t.app[Host].ctrl = h.ctrl /\ h.ctrl \notin t.pending
        BY <1>1, <2>2, <2>3, <2>4, HopeIsWhole
      <3> HIDE DEF h
      <3> QED BY <2>2, <2>5, <3>1, ResetKeepsHope
    <2>8. Hope(Stop(t, Host))
      BY <1>1, <2>4, <2>5, HopeIsWhole, StoppingKeepsHope
    <2> QED BY <2>4, <2>6, <2>7, <2>8
  <1> QED BY <1>2, <1>3

\* socketDisconnected of a client.
LEMMA ClientLosesWell ==
    ASSUME Hope(world), NEW kind \in Kinds, NEW c \in Clients, NEW w, NEW m, Fetched(w, m, kind, c, c),
           m.type = "Closed"
    PROVE  Hope(SocketDisconnected(w, c, kind, c))
  <1> DEFINE t == Gone(w, c, kind, c)
             k == world.link["ctrl"][c]
             l == world.link["data"][c]
             x == t.link["ctrl"][c]
             y == t.link["data"][c]
             h == w.app[Host]
             b == w.app[c]
  <1>1. /\ w \in World /\ Typed(w) /\ HostIsClean(h) /\ Host # c /\ kind \in {"ctrl", "data"} /\ c \in {Host, c} /\ c \in Apps
        /\ LinkSet(t, w, kind, c, t.link[kind][c]) /\ AfterCut(t.link[kind][c], world.link[kind][c], c, c)
        /\ "ctrl" \in Kinds /\ "data" \in Kinds /\ "ctrl" # "data" /\ t = [t EXCEPT !.pending = w.pending]
    BY FetchedFacts, LostShape, WhoIsWho DEF Kinds
  <1>2. /\ Steady(h, b, k, l, c \in w.pending, c) /\ Driven(h, b, k, c)
        /\ \A d \in Clients : d # c => SteadyOf(w, d) /\ DrivenOf(w, d)
        /\ kind = "ctrl" => w.link["data"][c] = l
        /\ kind = "data" => w.link["ctrl"][c] = k
    BY <1>1, FetchedFacts
  <1>3. /\ t.app = w.app /\ t.pending = w.pending
        /\ kind = "ctrl" => AfterCut(x, k, c, c) /\ y = l
        /\ kind = "data" => AfterCut(y, l, c, c) /\ x = k
    BY <1>1, <1>2 DEF LinkSet
  <1>4. k.ends \subseteq {Host, c} /\ l.ends \subseteq {Host, c}
    <2>1. LinkSet(w, world, kind, c, w.link[kind][c]) /\ w.link[kind][c].ends = world.link[kind][c].ends
      BY DEF Fetched, AfterRead
    <2>2. w.link["ctrl"][c].ends \subseteq {Host, c} /\ w.link["data"][c].ends \subseteq {Host, c}
      BY <1>1, Wires
    <2> QED BY <1>1, <1>2, <2>1, <2>2
  <1>5. \A d \in Clients : d # c => SteadyOf(t, d) /\ DrivenOf(t, d)
    BY <1>1, <1>2, LinkSetFrame
  <1>6. Typed(t)
    <2>1. Calm([t EXCEPT !.pending = w.pending], w)
      BY <1>1, GoneIsCalm
    <2> QED BY <1>1, <2>1 DEF Calm
  <1>7. SocketDisconnected(w, c, kind, c) = IF (b.confirmed /\ b.final) \/ LosesView(w, c, kind) THEN t ELSE Stop(t, c)
    BY <1>1 DEF SocketDisconnected
  <1> HIDE DEF k, l, x, y, h, b, t
  <1>8. Linked(k, l, c) /\ Attached(b, k, l, c) /\ Known(h, b, k, l, c \in w.pending, c) /\ Early(b, k, l, c)
    BY <1>2 DEF Steady
  <1>9. MayBeCut(x, k, c, c) /\ MayBeCut(y, l, c, c)
    BY <1>1, <1>3 DEF MayBeCut
  <1>10. Linked(x, y, c) /\ (x = k \/ ~Sound(x, c)) /\ Known(h, b, x, y, c \in w.pending, c)
    BY <1>1, <1>4, <1>8, <1>9, CutConnections
  <1>11. Hope(Stop(t, c))
    <2>1. Ended(Stop(t, c), t, c)
      BY <1>1, <1>6, StopEnds DEF Typed
    <2>2. HostIsClean(t.app[Host])
      BY <1>1, <1>3 DEF h
    <2>3. Known(t.app[Host], t.app[c], x, y, c \in t.pending, c)
      BY <1>3, <1>10 DEF h, b
    <2> QED BY <1>5, <1>6, <1>10, <2>1, <2>2, <2>3, ClientEndsWell DEF x, y
  <1>12. CASE (b.confirmed /\ b.final) \/ LosesView(w, c, kind)
    <2>1. Attached(b, x, y, c)
      BY <1>1, <1>3, <1>8, <1>12 DEF Attached, LosesView, b
    <2>2. Early(b, x, y, c)
      <3>1. NotYet(b, x, c) => NotYet(b, k, c)
        BY <1>1, <1>3, TwoEnds DEF NotYet, AfterCut, Peer
      <3>2. \A z : z # "Closed" /\ Has(x.to[c], z) => Has(k.to[c], z)
        BY <1>1, <1>3 DEF AfterCut
      <3>3. y.ends \subseteq l.ends
        BY <1>1, <1>3 DEF AfterCut
      <3> QED BY <1>8, <3>1, <3>2, <3>3 DEF Early
    <2>3. Driven(h, b, x, c)
      BY <1>2, <1>10 DEF Driven
    <2>4. SteadyOf(t, c) /\ DrivenOf(t, c) /\ HostIsClean(t.app[Host])
      BY <1>1, <1>3, <1>10, <2>1, <2>2, <2>3 DEF SteadyOf, DrivenOf, Steady, x, y, h, b
    <2>5. Hope(t)
      BY <1>5, <2>4 DEF Hope
    <2> QED BY <1>7, <1>12, <2>5
  <1> QED BY <1>7, <1>11, <1>12

\* A message is handled.
LEMMA HandleKeepsHope ==
    ASSUME Good(world), Hope(world), NEW kind \in Kinds, NEW c \in Clients, NEW p \in {Host, c}, Handle(p, kind, c)
    PROVE  Hope(world')
  <1>1. PICK w, m : Fetched(w, m, kind, c, p)
    BY MessageIsFetched
  <1>2. CASE m.type \notin {"Open", "Closed"}
    BY <1>1, <1>2, ReadsKeepHope
  <1>3. CASE m.type = "Open"
    BY <1>1, <1>3, ClientOpensWell, HostOpensWell
  <1>4. CASE m.type = "Closed"
    <2>1. world' = SocketDisconnected(w, p, kind, c)
      BY <1>1, <1>4 DEF Fetched
    <2> QED BY <1>1, <1>4, <2>1, ClientLosesWell, HostLosesWell
  <1> QED BY <1>2, <1>3, <1>4

\* Whoever is over keeps hope.
LEMMA EndingKeepsHope ==
    ASSUME NEW w, Typed(w), Hope(w), NEW p \in Apps, NEW v, Ended(v, w, p)
    PROVE  Hope(v)
  <1>1. CASE p = Host
    <2>1. ASSUME NEW d \in Clients PROVE LeftAlone(w, d) /\ (w.app[Host].ctrl = d => w.app[d].role = "Player")
      BY DEF Hope, SteadyOf, Steady, LeftAlone, Known
    <2> QED BY <1>1, <2>1, HostEndsWell
  <1>2. CASE p # Host
    <2>1. p \in Clients
      BY <1>2, WhoIsWho
    <2> QED BY <2>1, HopeIsWhole, StopKeepsHope
  <1> QED BY <1>1, <1>2

-----------------------------------------------------------------------------
(* The steps keep hope.                                                    *)

\* Begin
LEMMA BeginKeepsHope ==
    ASSUME Good(world), Hope(world), NEW c \in Clients, Begin(c)
    PROVE  Hope(world')
  <1> DEFINE there == Running(world, Host)
             E == IF there THEN {Host, c} ELSE {c}
             m == IF there THEN [type |-> "Open"] ELSE [type |-> "Closed"]
             y == [to |-> Told(E, m), ends |-> E]
             a == [world.app[c] EXCEPT !.status = "Running", !.ctrl = Host,
                                       !.timeout = (world.app[c].role # "Spectator")]
             x == [world EXCEPT !.link["ctrl"][c] = y]
             v == [x EXCEPT !.app[c] = a]
             h == world.app[Host]
             b == world.app[c]
             k == world.link["ctrl"][c]
             l == world.link["data"][c]
  <1>1. /\ world \in World /\ b \in AppType /\ c \in Apps /\ Host \in Apps /\ c # Host /\ b.status = "Idle"
        /\ "ctrl" \in Kinds /\ TermsOf(world, c)
    BY GoodFacts, WhoIsWho DEF Begin
  <1>2. x = Connect(world, "ctrl", c, Running(world, Host))
    BY DEF Connect
  <1>3. /\ a \in AppType /\ a.status = "Running" /\ a.ctrl = Host /\ a.role = b.role /\ a.data = b.data
        /\ a.ready = b.ready /\ a.ui = b.ui /\ a.confirmed = b.confirmed
    BY <1>1 DEF AppType
  <1>4. E \in SUBSET {Host, c} /\ c \in E /\ m \in Msg /\ m.type = IF Host \in E THEN "Open" ELSE "Closed"
    BY <1>1 DEF Msg
  <1>5. y \in LinkType /\ y.ends = E /\ \A p \in Apps : y.to[p] = IF p \in E THEN << m >> ELSE << >>
    <2> HIDE DEF E, m
    <2>1. y \in LinkType
      BY <1>4, NewLink
    <2>2. \A p \in Apps : y.to[p] = IF p \in E THEN << m >> ELSE << >>
      BY DEF Told
    <2> QED BY <2>1, <2>2
  <1> HIDE DEF E, m, y
  <1>6. \A q \in {Host, c} : \A z : Has(y.to[q], z) <=> q \in E /\ z = m.type
    BY <1>1, <1>4, <1>5, OneMessage, EmptyQueue
  <1>7. LinkSet(x, world, "ctrl", c, y)
    BY <1>1, <1>5, LinkSetShape
  <1>8. world' = v
    <2>1. world' = [Connect(world, "ctrl", c, Running(world, Host)) EXCEPT
                      !.app[c] = [@ EXCEPT !.status = "Running", !.ctrl = Host,
                                           !.timeout = (world.app[c].role # "Spectator")]]
      BY DEF Begin
    <2>2. x.app[c] = world.app[c]
      BY <1>1, <1>7 DEF LinkSet
    <2> HIDE DEF x
    <2> QED BY <1>2, <2>1, <2>2
  <1> HIDE DEF x, a
  <1>9. AppSet(v, x, c, a)
    BY <1>1, <1>3, <1>7, AppSetShape DEF LinkSet
  <1> HIDE DEF v
  <1>10. /\ v.app[Host] = h /\ v.app[c] = a /\ v.pending = world.pending /\ v.link["ctrl"][c] = y /\ v.link["data"][c] = l
         /\ \A d \in Clients : d # c => /\ v.app[d] = world.app[d] /\ (d \in v.pending <=> d \in world.pending)
                                        /\ v.link["ctrl"][d] = world.link["ctrl"][d]
                                        /\ v.link["data"][d] = world.link["data"][d]
    BY <1>1, <1>7, <1>9, WhoIsWho DEF LinkSet, AppSet
  <1>11. h.ctrl # c /\ b.ui = "No"
    <2>1. Untried(world, c)
      BY <1>1 DEF Untried
    <2> QED BY <1>1, <2>1 DEF TermsOf, Stages
  <1>12. Steady(h, b, k, l, c \in world.pending, c)
    BY DEF Hope, SteadyOf
  <1> HIDE DEF h, b, k, l
  <1>13. b.data = "None" /\ ~b.ready /\ l.ends = {} /\ Linked(k, l, c)
    BY <1>1, <1>12 DEF Steady, Early, NotYet
  <1>14. Linked(y, l, c)
    <2>1. Noticed(y, c)
      BY <1>1, <1>4, <1>5, <1>6 DEF Noticed
    <2>2. \A q \in {Host, c} : y.to[q] = << m >> \/ y.to[q] = << >>
      BY <1>1, <1>5
    <2>3. ~Has(y.to[Host], "InitialConfig") /\ ~Has(y.to[Host], "VersionConfig") /\ ~Has(y.to[Host], "Ping")
          /\ ~Has(y.to[c], "Ping")
      BY <1>4, <1>6
    <2>4. \A i \in 1 .. Len(y.to[c]) : i = 1
      <3>1. Len(<< m >>) = 1 /\ Len(<< >>) = 0
        OBVIOUS
      <3>2. Len(y.to[c]) = 1 \/ Len(y.to[c]) = 0
        BY <2>2, <3>1, Zenon
      <3>3. \A n : n = 1 \/ n = 0 => \A i \in 1 .. n : i = 1
        OBVIOUS
      <3> QED BY ONLY <3>2, <3>3
    <2>5. Orderly(y, c)
      BY <2>3, <2>4 DEF Orderly, Has
    <2> QED BY <1>13, <2>1, <2>3, <2>5 DEF Linked
  <1>15. Steady(h, a, y, l, c \in v.pending, c)
    <2>1. Attached(a, y, l, c)
      BY <1>3, <1>4, <1>5, <1>11, <1>13 DEF Attached
    <2>2. Known(h, a, y, l, c \in v.pending, c)
      BY <1>4, <1>5, <1>6, <1>11, <1>13 DEF Known, Expected
    <2>3. Early(a, y, l, c)
      BY <1>3, <1>4, <1>6, <1>13 DEF Early
    <2> QED BY <1>14, <2>1, <2>2, <2>3 DEF Steady
  <1>16. Driven(h, a, y, c)
    BY <1>4, <1>5, <1>6, <1>11 DEF Driven, Sound, Begun
  <1>17. SteadyOf(v, c) /\ DrivenOf(v, c) /\ HostIsClean(v.app[Host]) /\ v.app[Host] = world.app[Host]
    BY <1>10, <1>15, <1>16 DEF SteadyOf, DrivenOf, Hope, h
  <1>18. \A d \in Clients : d # c => SteadyOf(world, d) /\ DrivenOf(world, d)
    BY DEF Hope
  <1> QED BY <1>8, <1>10, <1>17, <1>18, OneClientHopes

\* PendingTimedOut
LEMMA PendingOutKeepsHope ==
    ASSUME Good(world), Hope(world), NEW c \in Clients, PendingTimedOut(c)
    PROVE  Hope(world')
  <1> DEFINE k == world.link["ctrl"][c]
             l == world.link["data"][c]
             b == world.app[c]
             h == world.app[Host]
             z == Cut(k, c, Host)
             x == [world EXCEPT !.link["ctrl"][c] = z]
             v == [x EXCEPT !.pending = @ \ {c}]
  <1>1. world \in World /\ Typed(world) /\ "ctrl" \in Kinds /\ "data" \in Kinds /\ "ctrl" # "data" /\ Host \in {Host, c}
    BY GoodFacts, WhoIsWho
  <1>2. k \in LinkType /\ k.ends \subseteq {Host, c} /\ (Host \notin k.ends => k.to[Host] = << >>) /\ l.ends \subseteq {Host, c}
    BY <1>1, Wires
  <1>3. AfterCut(z, k, c, Host)
    BY <1>2, CutShape
  <1>4. world' = v
    BY DEF PendingTimedOut, Close
  <1> HIDE DEF z
  <1>5. LinkSet(x, world, "ctrl", c, z)
    <2>1. z \in LinkType
      BY <1>3 DEF AfterCut
    <2> HIDE DEF x
    <2> QED BY <1>1, <2>1, LinkSetShape DEF x
  <1> HIDE DEF x
  <1>6. v.app = x.app /\ v.link = x.link /\ v.pending = world.pending \ {c}
    <2>1. x = [app |-> x.app, link |-> x.link, pending |-> x.pending] /\ x.pending = world.pending
      BY <1>5, WorldFields DEF LinkSet
    <2> QED BY <2>1
  <1> HIDE DEF v
  <1>7. /\ v.app = world.app /\ v.link["ctrl"][c] = z /\ v.link["data"][c] = l
        /\ \A d \in Clients : d # c => /\ v.app[d] = world.app[d] /\ (d \in v.pending <=> d \in world.pending)
                                       /\ v.link["ctrl"][d] = world.link["ctrl"][d]
                                       /\ v.link["data"][d] = world.link["data"][d]
    BY <1>1, <1>5, <1>6 DEF LinkSet
  <1>8. Steady(h, b, k, l, c \in world.pending, c)
    BY DEF Hope, SteadyOf
  <1> HIDE DEF h, b, k, l
  <1>9. Linked(k, l, c) /\ Attached(b, k, l, c) /\ Known(h, b, k, l, c \in world.pending, c) /\ Early(b, k, l, c)
    BY <1>8 DEF Steady
  <1>10. Linked(z, l, c) /\ Attached(b, z, l, c) /\ Early(b, z, l, c)
    <2>1. MayBeCut(z, k, c, Host) /\ MayBeCut(l, l, c, Host)
      BY <1>3 DEF MayBeCut
    <2> QED BY <1>1, <1>2, <1>9, <2>1, CutConnections
  <1>11. Host \notin z.ends
    BY <1>3 DEF AfterCut
  <1>12. Known(h, b, z, l, c \in v.pending, c) /\ Driven(h, b, z, c)
    BY <1>9, <1>11 DEF Known, Driven, Sound
  <1>13. SteadyOf(v, c) /\ DrivenOf(v, c) /\ HostIsClean(v.app[Host]) /\ v.app[Host] = world.app[Host]
    BY <1>7, <1>10, <1>12 DEF SteadyOf, DrivenOf, Steady, Hope, h, b
  <1>14. \A d \in Clients : d # c => SteadyOf(world, d) /\ DrivenOf(world, d)
    BY DEF Hope
  <1> QED BY <1>4, <1>7, <1>13, <1>14, OneClientHopes

\* Fail
LEMMA FailKeepsHope ==
    ASSUME Good(world), Hope(world), NEW c \in Clients, Fail(c)
    PROVE  Hope(world')
  <1> DEFINE k == world.link["ctrl"][c]
             l == world.link["data"][c]
             b == world.app[c]
             h == world.app[Host]
             m == [type |-> "Closed"]
             E == {Host, c}
             z == [k EXCEPT !.to = Told(E, m)]
             v == [world EXCEPT !.link["ctrl"][c] = z]
  <1>1. world \in World /\ "ctrl" \in Kinds /\ k \in LinkType /\ k.ends = E /\ world' = v /\ Host \in Apps /\ c \in Apps
        /\ Host # c
    BY GoodFacts, WhoIsWho, WorldFields DEF Fail
  <1>2. m \in Msg /\ m.type = "Closed"
    BY DEF Msg
  <1> HIDE DEF m
  <1>3. z \in LinkType /\ z.ends = k.ends /\ z.to[Host] = << m >> /\ z.to[c] = << m >>
    <2>1. Told(E, m) \in [Apps -> Seq(Msg)]
      BY <1>2 DEF Told
    <2> QED BY <1>1, <2>1 DEF LinkType, Told
  <1> HIDE DEF z
  <1>4. LinkSet(v, world, "ctrl", c, z)
    BY <1>1, <1>3, LinkSetShape
  <1> HIDE DEF v
  <1>5. \A q \in {Host, c} : \A y : Has(z.to[q], y) <=> y = "Closed"
    BY <1>2, <1>3, OneMessage
  <1>6. Steady(h, b, k, l, c \in world.pending, c)
    BY DEF Hope, SteadyOf
  <1>7. v.app = world.app /\ v.pending = world.pending /\ v.link["ctrl"][c] = z /\ v.link["data"][c] = l
    BY <1>4, WhoIsWho DEF LinkSet
  <1> HIDE DEF h, b, k, l
  <1>8. Linked(z, l, c)
    <2>1. Noticed(z, c)
      BY <1>5 DEF Noticed
    <2>2. \A i \in 1 .. Len(z.to[c]) : z.to[c][i].type # "Open"
      BY <1>5 DEF Has
    <2>3. \A i \in 1 .. Len(z.to[Host]) : z.to[Host][i].type # "VersionConfig"
      BY <1>5 DEF Has
    <2>4. Orderly(z, c)
      BY <1>5, <2>2, <2>3 DEF Orderly
    <2> QED BY <1>5, <1>6, <2>1, <2>4 DEF Steady, Linked
  <1>9. Attached(b, z, l, c) /\ Known(h, b, z, l, c \in world.pending, c) /\ Early(b, z, l, c)
    <2>1. Attached(b, z, l, c)
      BY <1>3, <1>6 DEF Steady, Attached
    <2>2. Known(h, b, z, l, c \in world.pending, c)
      BY <1>5, <1>6 DEF Steady, Known, Expected
    <2>3. NotYet(b, z, c) => NotYet(b, k, c)
      BY <1>5 DEF NotYet
    <2>4. Early(b, z, l, c)
      BY <1>5, <1>6, <2>3 DEF Steady, Early
    <2> QED BY <2>1, <2>2, <2>4
  <1>10. Driven(h, b, z, c)
    BY <1>5 DEF Driven, Sound
  <1>11. SteadyOf(v, c) /\ DrivenOf(v, c)
    BY <1>7, <1>8, <1>9, <1>10 DEF SteadyOf, DrivenOf, Steady, h, b
  <1>12. \A d \in Clients : d # c => SteadyOf(v, d) /\ DrivenOf(v, d)
    BY <1>1, <1>4, LinkSetFrame DEF Hope
  <1> QED BY <1>1, <1>7, <1>11, <1>12 DEF Hope

\* Answer
LEMMA AnswerKeepsHope ==
    ASSUME Good(world), Hope(world), NEW p \in Apps, Answer(p)
    PROVE  Hope(world')
  <1>1. PICK yes \in BOOLEAN : world' = [world EXCEPT !.app[p] = [@ EXCEPT !.ui = "Answered", !.confirmed = yes]]
    BY DEF Answer
  <1> DEFINE b == world.app[p]
             a == [b EXCEPT !.ui = "Answered", !.confirmed = yes]
             v == [world EXCEPT !.app[p] = a]
  <1>2. /\ world \in World /\ b \in AppType /\ Running(world, p) /\ b.ui = "Asked"
    BY GoodFacts DEF Answer
  <1>3. /\ a \in AppType /\ a.ctrl = b.ctrl /\ a.data = b.data /\ a.peer = b.peer /\ a.role = b.role
        /\ a.pinger = b.pinger /\ a.status = b.status /\ a.ready = b.ready /\ a.ui = "Answered" /\ a.final = b.final
    BY <1>2 DEF AppType
  <1>4. world' = v
    BY <1>1
  <1> HIDE DEF a
  <1>5. AppSet(v, world, p, a)
    BY <1>2, <1>3, AppSetShape
  <1> HIDE DEF v
  <1>6. Answering(a, b)
    BY <1>2, <1>3 DEF Answering
  <1>7. CASE p = Host
    <2>1. AppSet(v, world, Host, a)
      BY <1>5, <1>7
    <2>2. Hope(v)
      BY <1>3, <1>6, <1>7, <2>1, HostGoesOnWell
    <2> QED BY <1>4, <2>2
  <1>8. CASE p # Host
    <2>1. p \in Clients /\ TermsOf(world, p)
      BY <1>8, WhoIsWho, GoodFacts
    <2>2. ~b.confirmed
      BY <1>2, <2>1 DEF TermsOf, Deal
    <2>3. Hope(v)
      BY <1>3, <1>5, <1>6, <2>1, <2>2, ClientGoesOnWell
    <2> QED BY <1>4, <2>3
  <1> QED BY <1>7, <1>8

\* The host has its user's answer, and sends the configuration.
LEMMA HostAgrees ==
    ASSUME NEW w, Good(w), Hope(w), Running(w, Host), w.app[Host].ui # "No", NEW c \in Clients, w.app[Host].ctrl = c,
           NEW t, NEW g \in AppType, AppSet(t, w, Host, g), LET h == w.app[Host] IN
             /\ g.status = h.status /\ g.ctrl = h.ctrl /\ g.peer = h.peer /\ g.ready = h.ready /\ g.data = h.data
             /\ g.pinger = h.pinger /\ g.ui = "Taken",
           NEW m \in Msg, m.type = "NetplayConfig"
    PROVE  Hope(SendCtrl(t, Host, m)) /\ SendCtrl(t, Host, m) \in World /\ Running(SendCtrl(t, Host, m), Host)
  <1> DEFINE h == w.app[Host]
             b == w.app[c]
             k == w.link["ctrl"][c]
             u == SendCtrl(t, Host, m)
             x == u.link["ctrl"][c]
  <1>1. HostIsClean(g) /\ w \in World
    BY GoodFacts, WhoIsWho DEF Hope, HostIsClean
  <1>2. HopeBut(w, c) /\ DrivenOf(w, c) /\ c # None /\ Host # c /\ Peer(Host, c) = c
    BY HopeIsWhole, WhoIsWho DEF Peer
  <1>3. HopeBut(t, c) /\ t \in World /\ t.app[Host] = g /\ t.app[c] = b /\ t.link = w.link
    BY <1>1, <1>2, HostKeepsHope
  <1>4. u = Send(t, "ctrl", c, Host, m)
    BY <1>3 DEF SendCtrl, ClientOf
  <1>5. /\ HopeBut(u, c) /\ u \in World /\ u.app = t.app
        /\ AfterSend(x, k, c, c, "NetplayConfig")
        /\ DrivenOf(u, c) <=> Driven(g, b, x, c)
    <2> HIDE DEF u
    <2>1. m.type \notin {"Open", "Closed", "Ping"} /\ m.type # "InitialConfig"
      OBVIOUS
    <2>2. LET y == Send(t, "ctrl", c, Host, m) IN
          /\ HopeBut(y, c) /\ y \in World /\ y.app = t.app
          /\ AfterSend(y.link["ctrl"][c], t.link["ctrl"][c], c, Peer(Host, c), m.type)
          /\ DrivenOf(y, c) <=> Driven(t.app[Host], t.app[c], y.link["ctrl"][c], c)
      BY <1>2, <1>3, <2>1, SendKeepsHope
    <2> QED BY <1>2, <1>3, <1>4, <2>2
  <1> HIDE DEF u, x, k, h, b
  <1>6. Driven(h, b, k, c)
    BY <1>2 DEF DrivenOf, h, b, k
  <1>7. Driven(h, b, x, c) /\ (Sound(x, c) => Has(x.to[c], "NetplayConfig"))
    <2>1. AfterSend(x, k, c, c, "NetplayConfig") /\ "NetplayConfig" \notin {"Open", "Closed"} /\ c \in {Host, c}
      BY <1>5
    <2>2. Driven(h, b, x, c)
      BY <1>6, <2>1, MoreDrives
    <2>3. Sound(x, c) => Has(x.to[c], "NetplayConfig")
      BY <2>1 DEF AfterSend, Sound
    <2> QED BY <2>2, <2>3
  <1>8. Driven(g, b, x, c)
    <2>1. Carried(h, b, x, c) /\ Has(x.to[c], "NetplayConfig") => Carried(g, b, x, c)
      BY DEF Carried, h
    <2>2. g.ctrl = h.ctrl
      BY DEF h
    <2> QED BY <1>7, <2>1, <2>2 DEF Driven
  <1>9. Running(u, Host)
    BY <1>3, <1>5 DEF Running
  <1> QED BY <1>5, <1>8, <1>9, HopeIsWhole DEF u

\* A client has its user's answer.
LEMMA ClientAgrees ==
    ASSUME NEW w, Typed(w), Hope(w), NEW c \in Clients, Running(w, c), w.app[c].ui # "No",
           NEW t, NEW a \in AppType, AppSet(t, w, c, a), LET b == w.app[c] IN
             /\ a.role = b.role /\ a.status = b.status /\ a.ctrl = b.ctrl /\ a.data = b.data /\ a.ready = b.ready
             /\ a.final = b.final /\ a.pinger = b.pinger /\ a.confirmed = b.confirmed /\ a.ui = "Taken"
    PROVE  (a.confirmed => Hope(StartGameIfReady(t, c))) /\ Hope(Stop(t, c))
  <1> DEFINE b == w.app[c]
             k == w.link["ctrl"][c]
             l == w.link["data"][c]
             h == w.app[Host]
  <1>1. HopeBut(w, c) /\ DrivenOf(w, c) /\ SteadyOf(w, c)
    BY HopeIsWhole
  <1>2. Steady(h, b, k, l, c \in w.pending, c) /\ Driven(h, b, k, c)
    BY <1>1 DEF SteadyOf, DrivenOf
  <1>3. /\ Host # c /\ t.app[c] = a /\ t.app[Host] = h /\ t.link = w.link /\ t.pending = w.pending /\ t \in World
        /\ \A d \in Clients : d # c => t.app[d] = w.app[d]
    BY WhoIsWho DEF AppSet
  <1> HIDE DEF b, k, l, h
  <1>4. Carried(h, b, k, c) => Carried(h, a, k, c)
    BY DEF Carried, b
  <1>5. ASSUME a.confirmed, a.final PROVE Hope(StartGameIfReady(t, c))
    <2>1. h.ctrl = c /\ Sound(k, c) => Carried(h, a, k, c)
      BY <1>2, <1>4 DEF Driven
    <2>2. a.ctrl = Host
      <3>1. b.ctrl = Host
        BY <1>2 DEF Steady, Attached, Running, b
      <3> QED BY <3>1 DEF b
    <2>3. Hope(StartGameIfReady(t, c))
      BY <1>1, <1>5, <2>1, <2>2, ClientStartsWell DEF h, k
    <2> QED BY <1>5, <2>3
  <1>6. ASSUME a.confirmed, ~a.final PROVE Hope(StartGameIfReady(t, c))
    <2>1. StartGameIfReady(t, c) = t
      BY <1>3, <1>6 DEF StartGameIfReady
    <2>2. Attached(a, k, l, c)
      BY <1>2, <1>6 DEF Steady, Attached, b
    <2>3. Early(a, k, l, c)
      BY <1>2 DEF Steady, Early, NotYet, b
    <2>4. Driven(h, a, k, c)
      BY <1>2, <1>4 DEF Driven, NotYet, b
    <2>5. Hope(t)
      BY <1>1, <2>2, <2>3, <2>4, ClientKeepsHope, HopeIsWhole DEF h, k, l
    <2> QED BY <1>6, <2>1, <2>5
  <1>7. Hope(Stop(t, c))
    <2>1. a.status \in {"Running", "Starting"}
      BY DEF Running
    <2>2. Typed(t)
      BY <2>1, AppSetIsTyped, WhoIsWho
    <2>3. ASSUME NEW d \in Clients, d # c PROVE SteadyOf(t, d) /\ DrivenOf(t, d)
      BY <1>3, <2>3 DEF Hope, SteadyOf, DrivenOf, h
    <2>4. Linked(t.link["ctrl"][c], t.link["data"][c], c)
      BY <1>2, <1>3 DEF Steady, k, l
    <2>5. Known(t.app[Host], t.app[c], t.link["ctrl"][c], t.link["data"][c], c \in t.pending, c)
      <3>1. Known(h, a, k, l, c \in w.pending, c)
        BY <1>2 DEF Steady, Known, b
      <3> QED BY <1>3, <3>1 DEF k, l
    <2>6. Ended(Stop(t, c), t, c)
      BY <1>3, StopEnds, WhoIsWho
    <2>7. HostIsClean(t.app[Host])
      BY <1>3 DEF Hope, h
    <2>8. Hope(Stop(t, c))
      BY <2>2, <2>3, <2>4, <2>5, <2>6, <2>7, ClientEndsWell
    <2> QED BY <2>8
  <1> QED BY <1>5, <1>6, <1>7

\* GotUserConfirmation
LEMMA ConfirmationKeepsHope ==
    ASSUME Good(world), Hope(world), NEW p \in Apps, GotUserConfirmation(p)
    PROVE  Hope(world')
  <1> DEFINE b == world.app[p]
             a == [b EXCEPT !.ui = "Taken"]
             w == [world EXCEPT !.app[p] = a]
             g == [a EXCEPT !.session = 1]
             t == [w EXCEPT !.app[Host] = g]
             m == [type |-> "NetplayConfig", session |-> 1]
             u == SendCtrl(t, Host, m)
  <1>1. /\ world \in World /\ Typed(world) /\ b \in AppType /\ Running(world, p) /\ b.ui = "Answered"
    BY GoodFacts DEF GotUserConfirmation
  <1>2. /\ a \in AppType /\ a.ctrl = b.ctrl /\ a.data = b.data /\ a.peer = b.peer /\ a.role = b.role
        /\ a.pinger = b.pinger /\ a.status = b.status /\ a.ready = b.ready /\ a.ui = "Taken" /\ a.final = b.final
        /\ a.confirmed = b.confirmed
    BY <1>1 DEF AppType
  <1>3. AppSet(w, world, p, a)
    <2> HIDE DEF a
    <2> QED BY <1>1, <1>2, AppSetShape
  <1>4. world' = IF ~w.app[p].confirmed \/ ~Connected(w, p, "ctrl") THEN Stop(w, p)
                 ELSE IF p # Host THEN StartGameIfReady(w, p)
                 ELSE StartGameIfReady(SendCtrl([w EXCEPT !.app[Host].session = 1], p, m), p)
    BY DEF GotUserConfirmation
  <1> HIDE DEF w
  <1>5. w.app[p] = a /\ w \in World /\ w.link = world.link
    BY <1>3 DEF AppSet
  <1>6. Typed(w) /\ Running(w, p)
    <2>1. a.status \in {"Running", "Starting"}
      BY <1>1, <1>2 DEF Running
    <2> HIDE DEF a
    <2> QED BY <1>1, <1>3, <1>5, <2>1, AppSetIsTyped DEF Running
  <1> HIDE DEF m
  <1>7. CASE p = Host
    <2> HIDE DEF a
    <2>1. AppSet(w, world, Host, a)
      BY <1>3, <1>7
    <2>2. ASSUME NEW d \in Clients PROVE LeftAlone(w, d) /\ (w.app[Host].ctrl = d => w.app[d].role = "Player")
      <3>1. Steady(world.app[Host], world.app[d], world.link["ctrl"][d], world.link["data"][d], d \in world.pending, d)
        BY DEF Hope, SteadyOf
      <3>2. w.app[d] = world.app[d] /\ w.link = world.link /\ w.app[Host].ctrl = world.app[Host].ctrl
        BY <1>2, <1>5, <1>7, <2>1, WhoIsWho DEF AppSet
      <3> QED BY <3>1, <3>2 DEF Steady, LeftAlone, Known
    <2>3. Hope(Stop(w, Host))
      BY <1>5, <1>6, <2>2, StopEnds, HostEndsWell, WhoIsWho
    <2>4. ASSUME Connected(w, p, "ctrl"), a.confirmed PROVE Hope(world')
      <3> DEFINE c == world.app[Host].ctrl
      <3>1. c \in Clients
        <4>1. ClientOf(w, p, "ctrl") # None
          BY <2>4 DEF Connected
        <4>2. ClientOf(w, p, "ctrl") = c
          BY <1>2, <1>5, <1>7 DEF ClientOf
        <4> QED BY <4>1, <4>2, GoodFacts, WhoIsWho DEF HostInOrder
      <3>2. /\ g \in AppType /\ g.status = b.status /\ g.ctrl = b.ctrl /\ g.peer = b.peer /\ g.ready = b.ready
            /\ g.data = b.data /\ g.pinger = b.pinger /\ g.ui = "Taken"
        BY <1>2 DEF AppType
      <3> HIDE DEF g
      <3>3. AppSet(t, world, Host, g)
        <4>1. AppSet(t, w, Host, g)
          BY <1>5, <3>2, AppSetShape, WhoIsWho
        <4> QED BY <2>1, <4>1 DEF AppSet
      <3>4. t = [w EXCEPT !.app[Host].session = 1]
        BY <1>5, <1>7 DEF g
      <3> HIDE DEF t
      <3>5. m \in Msg /\ m.type = "NetplayConfig"
        BY DEF m, Msg
      <3>6. Hope(u) /\ u \in World /\ Running(u, Host)
        <4>1. Running(world, Host) /\ world.app[Host].ui # "No"
          BY <1>1, <1>7
        <4> HIDE DEF c
        <4> QED BY <1>7, <3>1, <3>2, <3>3, <3>5, <4>1, HostAgrees DEF c
      <3>7. world' = StartGameIfReady(u, Host)
        BY <1>4, <1>5, <1>7, <2>4, <3>4
      <3> HIDE DEF u
      <3> QED BY <3>6, <3>7, HostStartsWell
    <2>5. world' = Stop(w, Host) \/ (Connected(w, p, "ctrl") /\ a.confirmed)
      BY <1>4, <1>5, <1>7
    <2> QED BY <2>3, <2>4, <2>5
  <1>8. CASE p # Host
    <2>1. p \in Clients
      BY <1>8, WhoIsWho
    <2> HIDE DEF a
    <2>2. (a.confirmed => Hope(StartGameIfReady(w, p))) /\ Hope(Stop(w, p))
      BY <1>1, <1>2, <1>3, <2>1, ClientAgrees
    <2>3. world' = Stop(w, p) \/ (a.confirmed /\ world' = StartGameIfReady(w, p))
      BY <1>4, <1>5, <1>8
    <2> QED BY <2>2, <2>3
  <1> QED BY <1>7, <1>8

-----------------------------------------------------------------------------
(* The pings.                                                              *)

\* PingTimer, while pings are to be sent.
LEMMA AnotherPingKeepsHope ==
    ASSUME NEW w, Good(w), Hope(w), NEW p \in Apps, Running(w, p), w.app[p].pinger.on,
           w.app[p].pinger.count < NumPings, NEW x, x = PingerSendPing(w, p, p)
    PROVE  Hope(IF Running(x, p) THEN [x EXCEPT !.app[p].pinger.count = @ + 1] ELSE x)
  <1>1. PICK c \in Clients : p \in {Host, c}
    BY GoodFacts, WhoIsWho DEF HostInOrder
  <1>2. HopeBut(w, c) /\ DrivenOf(w, c) /\ Typed(w) /\ w \in World
    BY HopeIsWhole, GoodFacts
  <1>3. Hope(x) /\ (Running(x, p) => x.app = w.app /\ x \in World)
    BY <1>1, <1>2, PingIsSent, HopeIsWhole
  <1>4. SUFFICES ASSUME Running(x, p) PROVE Hope([x EXCEPT !.app[p].pinger.count = @ + 1])
    BY <1>3
  <1> DEFINE b == x.app[p]
             n == b.pinger.count + 1
             pinger == [b.pinger EXCEPT !.count = n]
             a == [b EXCEPT !.pinger = pinger]
             v == [x EXCEPT !.app[p] = a]
  <1>5. v = [x EXCEPT !.app[p].pinger.count = @ + 1]
    OBVIOUS
  <1>6. b \in AppType /\ b.pinger \in PingerType /\ b.pinger.count < NumPings
    BY <1>3, <1>4, GoodFacts DEF AppType
  <1>7. n \in 0 .. NumPings
    BY <1>6, SetupAssumption DEF PingerType
  <1> HIDE DEF n
  <1>8. pinger \in PingerType /\ pinger.on = b.pinger.on
    BY <1>6, <1>7 DEF PingerType
  <1> HIDE DEF pinger
  <1>9. /\ a \in AppType /\ a.role = b.role /\ a.status = b.status /\ a.ctrl = b.ctrl /\ a.data = b.data
        /\ a.peer = b.peer /\ a.ready = b.ready /\ a.final = b.final /\ a.ui = b.ui /\ a.confirmed = b.confirmed
        /\ a.pinger.on = b.pinger.on
    BY <1>6, <1>8 DEF AppType
  <1> HIDE DEF a
  <1>10. AppSet(v, x, p, a)
    BY <1>3, <1>4, <1>9, AppSetShape
  <1> HIDE DEF v
  <1>11. CASE p = Host
    <2>1. Hope(v)
      BY <1>3, <1>9, <1>10, <1>11, HostGoesOnWell DEF Answering
    <2> QED BY <1>5, <2>1
  <1>12. CASE p = c
    <2>1. Hope(v)
      BY <1>3, <1>9, <1>10, <1>12, ClientGoesOnWell DEF Answering
    <2> QED BY <1>5, <2>1
  <1> QED BY <1>1, <1>11, <1>12

\* PingTimer, of a host that has sent its pings.
LEMMA HostPingsNoMoreWell ==
    ASSUME NEW w, Good(w), Hope(w), Running(w, Host), w.app[Host].pinger.on
    PROVE  Hope([SendCtrl(w, Host, [type |-> "PingStats", samples |-> w.app[Host].pinger.samples])
                   EXCEPT !.app[Host].pinger = [@ EXCEPT !.on = FALSE, !.count = 0]])
  <1> DEFINE c == w.app[Host].ctrl
             h == w.app[Host]
             b == w.app[c]
             k == w.link["ctrl"][c]
             m == [type |-> "PingStats", samples |-> w.app[Host].pinger.samples]
             x == SendCtrl(w, Host, m)
             y == x.link["ctrl"][c]
             a == [h EXCEPT !.pinger = [@ EXCEPT !.on = FALSE, !.count = 0]]
             v == [x EXCEPT !.app[Host].pinger = [@ EXCEPT !.on = FALSE, !.count = 0]]
  <1>1. w \in World /\ HostInOrder(w) /\ h \in AppType /\ Host \in Apps
    BY GoodFacts, WhoIsWho
  <1>2. c \in Clients /\ Peer(Host, c) = c /\ Host # c
    BY <1>1, WhoIsWho DEF HostInOrder, Peer
  <1>3. m \in Msg /\ m.type = "PingStats"
    BY <1>1 DEF Msg, AppType, PingerType
  <1> HIDE DEF m
  <1>4. HopeBut(w, c) /\ Driven(h, b, k, c) /\ HostIsClean(h)
    BY <1>2, HopeIsWhole DEF DrivenOf, Hope
  <1>5. x = Send(w, "ctrl", c, Host, m)
    BY DEF SendCtrl, ClientOf
  <1>6. HopeBut(x, c) /\ x \in World /\ x.app = w.app /\ AfterSend(y, k, c, c, "PingStats")
    BY <1>1, <1>2, <1>3, <1>4, <1>5, SendKeepsHope
  <1> HIDE DEF x
  <1>7. /\ a \in AppType /\ a.ctrl = h.ctrl /\ a.data = h.data /\ a.peer = h.peer /\ a.ready = h.ready
        /\ a.status = h.status /\ a.ui = h.ui
    BY <1>1, PingerIsOver
  <1>8. v = [x EXCEPT !.app[Host] = a]
    BY <1>6
  <1> HIDE DEF a, v
  <1>9. AppSet(v, x, Host, a)
    BY <1>1, <1>6, <1>7, <1>8, AppSetShape
  <1> HIDE DEF y, k
  <1>10. Driven(h, b, y, c) /\ (Sound(y, c) => Has(y.to[c], "PingStats"))
    <2>1. AfterSend(y, k, c, c, "PingStats") /\ "PingStats" \notin {"Open", "Closed"} /\ c \in {Host, c}
      BY <1>6
    <2>2. Driven(h, b, y, c)
      BY <1>2, <1>4, <2>1, MoreDrives
    <2>3. Sound(y, c) => Has(y.to[c], "PingStats")
      BY <2>1 DEF AfterSend, Sound
    <2> QED BY <2>2, <2>3
  <1>11. Driven(a, b, y, c)
    <2>1. Carried(h, b, y, c) /\ Has(y.to[c], "PingStats") => Carried(a, b, y, c)
      BY <1>7 DEF Carried
    <2> QED BY <1>7, <1>10, <2>1 DEF Driven
  <1>12. HostIsClean(a)
    BY <1>4, <1>7 DEF HostIsClean
  <1>13. HopeBut(v, c) /\ DrivenOf(v, c)
    BY <1>2, <1>6, <1>7, <1>9, <1>11, <1>12, HostKeepsHope DEF y
  <1> QED BY Zenon, <1>2, <1>13, HopeIsWhole DEF v, x, m

\* PingTimer, of a client that has sent its pings.
LEMMA ClientPingsNoMoreWell ==
    ASSUME NEW w, Good(w), Hope(w), NEW c \in Clients, Running(w, c), w.app[c].pinger.on,
           NEW t, t = [SendCtrl(w, c, [type |-> "PingStats", samples |-> w.app[c].pinger.samples])
                         EXCEPT !.app[c].pinger = [@ EXCEPT !.on = FALSE, !.count = 0]],
           NEW v \in CheckDelayAndContinue(MergePingStats(t, c), c)
    PROVE  Hope(v)
  <1> DEFINE m == [type |-> "PingStats", samples |-> w.app[c].pinger.samples]
             x == SendCtrl(w, c, m)
             h == w.app[Host]
             b == w.app[c]
             k == w.link["ctrl"][c]
             y == x.link["ctrl"][c]
             z == x.link["data"][c]
  <1>1. /\ w \in World /\ c \in Apps /\ c # Host /\ TermsOf(w, c) /\ Peer(c, c) = Host /\ HopeBut(w, c)
        /\ Driven(h, b, k, c)
    BY Zenon, GoodFacts, WhoIsWho, HopeIsWhole DEF Peer, DrivenOf
  <1>2. b.ui = "No"
    BY Zenon, <1>1 DEF ClientPings, TermsOf, Stages
  <1>3. Sent(x, w, "ctrl", c, Host, m) /\ m \in Msg /\ ClientCounted(v, x, w, c)
    <2>1. t = [x EXCEPT !.app[c].pinger = [@ EXCEPT !.on = FALSE, !.count = 0]]
      BY Zenon
    <2>2. m = [type |-> "PingStats", samples |-> w.app[c].pinger.samples] /\ x = SendCtrl(w, c, m)
      BY Zenon
    <2> HIDE DEF m, x
    <2> QED BY Zenon, <2>1, <2>2, ClientCounts
  <1>4. x = Send(w, "ctrl", c, c, m) /\ m.type = "PingStats"
    BY Zenon, <1>1 DEF SendCtrl, ClientOf
  <1> HIDE DEF m
  <1>5. HopeBut(x, c) /\ x \in World /\ x.app = w.app /\ AfterSend(y, k, c, Host, "PingStats")
    <2>1. m.type \notin {"Open", "Closed", "Ping", "VersionConfig", "InitialConfig"} /\ c \in {Host, c} /\ m \in Msg
      BY Zenon, <1>3, <1>4
    <2> DEFINE r == Send(w, "ctrl", c, c, m)
    <2>2. /\ HopeBut(r, c) /\ r \in World /\ r.app = w.app
          /\ AfterSend(r.link["ctrl"][c], w.link["ctrl"][c], c, Peer(c, c), m.type)
      BY Zenon, <1>1, <2>1, SendKeepsHope
    <2> HIDE DEF r, x
    <2> QED BY Zenon, <1>1, <1>4, <2>2 DEF r
  <1>6. Typed(x)
    BY Zenon, <1>3 DEF Sent
  <1> HIDE DEF x
  <1>7. PICK u, g, a, d : /\ AppSet(u, x, c, a) /\ CountedBy(a, b) /\ a.ui = "No"
                          /\ AppSet(g, x, c, d) /\ CountedBy(d, b) /\ d.ui = "Asked"
                          /\ v \in {g, Stop(u, c)}
    BY Zenon, <1>3 DEF ClientCounted
  <1>8. Steady(h, b, y, z, c \in x.pending, c)
    BY Zenon, <1>5 DEF HopeBut, SteadyOf
  <1> HIDE DEF y, z, b, h, k
  <1>9. ASSUME NEW e \in {a, d} PROVE Attached(e, y, z, c) /\ Early(e, y, z, c) /\ e.role = b.role
    BY Zenon, <1>2, <1>7, <1>8 DEF CountedBy, Steady, Attached, Early, NotYet
  <1>10. HopeBut(u, c) /\ HopeBut(g, c) /\ (Driven(h, d, y, c) => Hope(g))
    <2>1. x.app[c] = b /\ x.app[Host] = h
      BY Zenon, <1>5 DEF b, h
    <2>2. HopeBut(u, c)
      BY <1>5, <1>7, <1>9, <2>1, ClientKeepsHope DEF y, z
    <2>3. HopeBut(g, c) /\ (DrivenOf(g, c) <=> Driven(h, d, y, c))
      BY <1>5, <1>7, <1>9, <2>1, ClientKeepsHope DEF y, z
    <2> QED BY Zenon, <2>2, <2>3, HopeIsWhole
  <1>11. Hope(Stop(u, c))
    <2>1. a.status \in {"Running", "Starting"}
      BY Zenon, <1>7 DEF CountedBy, Running, b
    <2>2. Typed(u)
      BY Zenon, <1>1, <1>6, <1>7, <2>1, AppSetIsTyped
    <2> QED BY Zenon, <1>1, <1>10, <2>2, StoppingKeepsHope
  <1>12. Driven(h, d, y, c)
    <2>1. Driven(h, b, y, c) /\ (Sound(y, c) => Has(y.to[Host], "PingStats"))
      <3>1. AfterSend(y, k, c, Host, "PingStats") /\ "PingStats" \notin {"Open", "Closed"} /\ Host \in {Host, c}
        BY Zenon, <1>5
      <3>2. "PingStats" # "VersionConfig"
        BY Zenon
      <3>3. Driven(h, b, y, c)
        BY Zenon, <1>1, <3>1, <3>2, MoreDrives
      <3>4. Sound(y, c) => Has(y.to[Host], "PingStats")
        BY Zenon, <3>1 DEF AfterSend, Sound
      <3> QED BY Zenon, <3>3, <3>4
    <2>2. Carried(h, b, y, c) /\ Has(y.to[Host], "PingStats") => Carried(h, d, y, c)
      BY Zenon, <1>7 DEF CountedBy, Carried
    <2>3. NotYet(d, y, c) <=> NotYet(b, y, c)
      BY Zenon, <1>7 DEF CountedBy, NotYet
    <2> QED BY Zenon, <1>7, <2>1, <2>2, <2>3 DEF Driven, CountedBy
  <1> QED BY Zenon, <1>7, <1>10, <1>11, <1>12

\* PingTimer
LEMMA PingTimerKeepsHope ==
    ASSUME Good(world), Hope(world), NEW p \in Apps, PingTimer(p)
    PROVE  Hope(world')
  <1> DEFINE m == [type |-> "PingStats", samples |-> world.app[p].pinger.samples]
             t == [SendCtrl(world, p, m) EXCEPT !.app[p].pinger = [@ EXCEPT !.on = FALSE, !.count = 0]]
  <1>1. world.app[p].pinger.on /\ Running(world, p)
    BY Zenon DEF PingTimer
  <1>2. CASE /\ world.app[p].pinger.count < NumPings
             /\ \E x \in {PingerSendPing(world, p, p)} :
                  world' = IF Running(x, p) THEN [x EXCEPT !.app[p].pinger.count = @ + 1] ELSE x
    BY <1>1, <1>2, AnotherPingKeepsHope
  <1>3. CASE world' \in IF p = Host THEN {t} ELSE CheckDelayAndContinue(MergePingStats(t, p), p)
    <2>1. CASE p = Host
      <3>1. world' = [SendCtrl(world, Host, [type |-> "PingStats", samples |-> world.app[Host].pinger.samples])
                        EXCEPT !.app[Host].pinger = [@ EXCEPT !.on = FALSE, !.count = 0]]
        BY <1>3, <2>1
      <3>2. Hope([SendCtrl(world, Host, [type |-> "PingStats", samples |-> world.app[Host].pinger.samples])
                    EXCEPT !.app[Host].pinger = [@ EXCEPT !.on = FALSE, !.count = 0]])
        BY <1>1, <2>1, HostPingsNoMoreWell
      <3> QED BY <3>1, <3>2, Zenon
    <2>2. CASE p # Host
      <3>1. p \in Clients
        BY <2>2, WhoIsWho
      <3> QED BY Zenon, <1>1, <1>3, <2>2, <3>1, ClientPingsNoMoreWell
    <2> QED BY <2>1, <2>2
  <1> QED BY Zenon, <1>2, <1>3 DEF PingTimer

-----------------------------------------------------------------------------
(* Nobody is forgotten, from the beginning on.                             *)

\* Nobody has done anything at the beginning.
LEMMA InitHasHope ==
    ASSUME Init
    PROVE  Hope(world)
  <1>1. PICK role \in RoleChoices :
          world = [app |-> [p \in Apps |-> IF p = Host THEN [NewApp("Player") EXCEPT !.status = "Running"]
                                           ELSE NewApp(role[p])],
                   link |-> [kind \in Kinds |-> [c \in Clients |-> NoLink]],
                   pending |-> {}]
    BY DEF Init
  <1>2. /\ world.app[Host] = [NewApp("Player") EXCEPT !.status = "Running"]
        /\ \A c \in Clients : world.app[c] = NewApp(role[c])
        /\ \A c \in Clients, kind \in Kinds : world.link[kind][c] = NoLink
        /\ NoLink.ends = {} /\ \A p \in Apps : NoLink.to[p] = << >>
    BY <1>1, WhoIsWho DEF NoLink
  <1>3. HostIsClean(world.app[Host]) /\ world.app[Host].ctrl = None
    BY <1>2 DEF HostIsClean, NewApp
  <1>4. ASSUME NEW c \in Clients PROVE SteadyOf(world, c) /\ DrivenOf(world, c)
    <2> DEFINE a == world.app[c]
               h == world.app[Host]
    <2>1. a.status = "Idle" /\ a.data = "None" /\ ~a.ready
      <3>1. \A r : NewApp(r).status = "Idle" /\ NewApp(r).data = "None" /\ ~NewApp(r).ready
        BY DEF NewApp
      <3>2. a = NewApp(role[c])
        BY <1>2
      <3> QED BY <3>1, <3>2
    <2>2. \A type : ~Has(NoLink.to[Host], type) /\ ~Has(NoLink.to[c], type)
      BY <1>2, EmptyQueue, WhoIsWho
    <2>3. world.link["ctrl"][c] = NoLink /\ world.link["data"][c] = NoLink
      BY <1>2, WhoIsWho
    <2>4. NoLink.to[Host] = << >> /\ NoLink.to[c] = << >> /\ NoLink.ends = {} /\ h.ctrl # c
      BY <1>2, <1>3, WhoIsWho
    <2> HIDE DEF a, h
    <2>5. Linked(NoLink, NoLink, c)
      BY <2>2, <2>4 DEF Linked, Noticed, Orderly
    <2>6. Attached(a, NoLink, NoLink, c)
      BY <2>1 DEF Attached
    <2>7. ASSUME NEW pend PROVE Known(h, a, NoLink, NoLink, pend, c)
      BY <2>4 DEF Known
    <2>8. Early(a, NoLink, NoLink, c)
      BY <2>1, <2>2, <2>4 DEF Early
    <2>9. Driven(h, a, NoLink, c)
      BY <2>4 DEF Driven, Sound
    <2> QED BY <2>3, <2>5, <2>6, <2>7, <2>8, <2>9 DEF SteadyOf, Steady, DrivenOf, a, h
  <1> QED BY <1>3, <1>4 DEF Hope

\* Every step leaves hope.
LEMMA StepKeepsHope ==
    ASSUME Good(world), Hope(world), [Next]_vars
    PROVE  Hope(world')
  <1>1. CASE UNCHANGED vars
    BY <1>1 DEF vars
  <1>2. Typed(world) /\ world \in World /\ Clients \subseteq Apps
    BY GoodFacts, WhoIsWho
  <1>3. ASSUME NEW c \in Clients, Begin(c) PROVE Hope(world')
    BY <1>3, BeginKeepsHope
  <1>4. ASSUME NEW p \in Apps, world' = Stop(world, p) \/ world' = [Stop(world, p) EXCEPT !.app[p].status = "InGame"]
        PROVE  Hope(world')
    BY <1>2, <1>4, StopEnds, EndingKeepsHope
  <1>5. ASSUME NEW c \in Clients, TimedOut(c) PROVE Hope(world')
    BY <1>2, <1>4, <1>5 DEF TimedOut
  <1>6. ASSUME NEW c \in Clients, PendingTimedOut(c) PROVE Hope(world')
    BY <1>6, PendingOutKeepsHope
  <1>7. ASSUME NEW c \in Clients, Fail(c) PROVE Hope(world')
    BY <1>7, FailKeepsHope
  <1>8. ASSUME NEW p \in Apps, PingTimer(p) PROVE Hope(world')
    BY <1>8, PingTimerKeepsHope
  <1>9. ASSUME NEW p \in Apps, Answer(p) PROVE Hope(world')
    BY <1>9, AnswerKeepsHope
  <1>10. ASSUME NEW p \in Apps, GotUserConfirmation(p) PROVE Hope(world')
    BY <1>10, ConfirmationKeepsHope
  <1>11. ASSUME NEW p \in Apps, OpenGame(p) PROVE Hope(world')
    BY <1>4, <1>11 DEF OpenGame
  <1>12. ASSUME NEW p \in Apps, Cancel(p) PROVE Hope(world')
    BY <1>4, <1>12 DEF Cancel
  <1>13. ASSUME NEW kind \in Kinds, NEW c \in Clients, NEW p \in {Host, c}, Handle(p, kind, c) PROVE Hope(world')
    BY <1>13, HandleKeepsHope
  <1> QED BY <1>1, <1>3, <1>5, <1>6, <1>7, <1>8, <1>9, <1>10, <1>11, <1>12, <1>13 DEF Next

\* The client c runs, though it is not one that wanted to watch and has lost its connection.
Waits(c) ==
    /\ world.app[c].status = "Running"
    /\ world.app[c].role # "Spectator" \/ c \in world.link["ctrl"][c].ends

\* A client with hope does not run when nothing is going to happen.
LEMMA HopeIsFulfilled ==
    ASSUME Good(world), Hope(world), NothingToDo, NEW c \in Clients
    PROVE  ~Waits(c)
  <1> SUFFICES ASSUME Waits(c) PROVE FALSE
    OBVIOUS
  <1> DEFINE h == world.app[Host]
             a == world.app[c]
             k == world.link["ctrl"][c]
             l == world.link["data"][c]
  <1>1. /\ Typed(world) /\ Deal(world, c) /\ "ctrl" \in Kinds /\ "data" \in Kinds /\ Host \in Apps /\ c \in Apps
    BY GoodFacts, WhoIsWho DEF TermsOf
  <1>2. \A p \in Apps : Running(world, p) => ~world.app[p].pinger.on /\ world.app[p].ui \in {"No", "Taken"}
    BY DEF NothingToDo
  <1>3. ASSUME NEW kind \in Kinds, NEW p \in {Host, c}, NEW type, Has(world.link[kind][c].to[p], type)
        PROVE  type = "Ping"
    <2> DEFINE q == world.link[kind][c].to[p]
    <2>1. /\ world.link[kind][c] \in LinkType /\ p \in Apps
          /\ p \notin world.link[kind][c].ends => q = << >>
          /\ p \in world.link[kind][c].ends => Running(world, p)
      BY <1>1, Wires
    <2>2. q \in Seq(Msg) /\ q # << >>
      BY <1>3, <2>1, EmptyQueue DEF LinkType
    <2>3. \A i \in DOMAIN q : q[i].type = "Ping"
      BY <2>1, <2>2 DEF NothingToDo
    <2> HIDE DEF q
    <2>4. DOMAIN q = 1 .. Len(q)
      BY <2>2
    <2> QED BY <1>3, <2>3, <2>4 DEF Has, q
  <1>4. Steady(h, a, k, l, c \in world.pending, c) /\ Driven(h, a, k, c) /\ c \notin world.pending
    BY DEF Hope, SteadyOf, DrivenOf, NothingToDo
  <1>5. \A type : ~Has(k.to[Host], type) /\ ~Has(k.to[c], type)
    BY <1>1, <1>3, <1>4 DEF Steady, Linked
  <1>6. \A type : type # "Ping" => ~Has(l.to[Host], type) /\ ~Has(l.to[c], type)
    BY <1>1, <1>3
  <1>7. k.ends \subseteq {Host, c} /\ \A p \in k.ends : Running(world, p)
    BY <1>1, Wires
  <1>8. /\ a.ui \in {"No", "Taken"} /\ ~a.pinger.on /\ a.status = "Running"
        /\ Running(world, Host) => h.ui \in {"No", "Taken"} /\ ~h.pinger.on
    BY <1>1, <1>2 DEF Running, Waits
  <1>9. a.confirmed => a.ui \in {"Answered", "Taken"}
    BY <1>1 DEF Deal
  <1> HIDE DEF h, a, k, l
  <1>10. /\ ~(a.confirmed /\ a.final) /\ c \in k.ends /\ a.data \in {"None", "Open"} /\ (a.ui = "Taken" => ~a.final)
         /\ a.data = "Open" => c \in l.ends
    BY <1>4, <1>6, <1>8, <1>9 DEF Steady, Attached, Expected, Waits, a, k
  <1>11. Sound(k, c) /\ Host \in k.ends
    BY <1>4, <1>5, <1>7, <1>10 DEF Steady, Linked, Noticed, Sound
  <1>12. h.ctrl = c /\ Running(world, Host)
    BY <1>4, <1>5, <1>7, <1>11 DEF Steady, Known, Expected
  <1>13. Carried(h, a, k, c)
    BY <1>4, <1>11, <1>12 DEF Driven
  <1>14. CASE a.data = "None"
    BY <1>5, <1>13, <1>14 DEF Carried
  <1>15. CASE a.data = "Open"
    <2>1. Host \in l.ends
      BY <1>4, <1>6, <1>10, <1>15 DEF Steady, Linked, Noticed
    <2>2. h.peer = c
      BY <1>4, <1>6, <2>1 DEF Steady, Known, Expected
    <2>3. a.ui = "Taken" /\ h.ui = "Taken"
      BY <1>5, <1>8, <1>12, <1>13, <2>2 DEF Carried
    <2> QED BY <1>5, <1>10, <1>13, <2>3 DEF Carried
  <1> QED BY <1>10, <1>14, <1>15

-----------------------------------------------------------------------------
(* Theorems.                                                               *)

\* The world is good, and nobody is forgotten, in every reachable state.
LEMMA AlwaysGood == Spec => [](Good(world) /\ Hope(world))
  <1>1. Init => Good(world) /\ Hope(world)
    BY InitIsGood, InitHasHope
  <1>2. Good(world) /\ Hope(world) /\ [Next]_vars => Good(world)' /\ Hope(world)'
    <2>1. ASSUME Good(world), Hope(world), [Next]_vars PROVE Good(world') /\ Hope(world')
      BY <2>1, StepIsGood, StepKeepsHope
    <2>2. (Good(world)' <=> Good(world')) /\ (Hope(world)' <=> Hope(world'))
      OBVIOUS
    <2> QED BY <2>1, <2>2
  <1> QED BY <1>1, <1>2, PTL DEF Spec

\* The sockets are in order: those that the host has accepted are of the clients that it
\* has chosen or may still choose, and stop, resetHost and the timers leave no end of a
\* connection at an application that is over.
THEOREM TypeCorrect == Spec => []TypeOK
  <1>1. ASSUME Good(world) PROVE TypeOK
    <2>1. /\ world \in World /\ Alive(world) /\ Waiting(world) /\ AllWired(world) /\ HostInOrder(world)
          /\ \A c \in Clients : Single(world, c)
      BY <1>1, GoodFacts, WhoIsWho DEF Typed, TermsOf
    <2>2. \A p \in Apps : world.app[p] \in AppType
      BY <2>1, WorldFields
    <2>3. \A p \in Apps : world.app[p].status \in {"Idle", "Running", "Starting", "InGame", "Stopped"}
      BY <2>2 DEF AppType
    <2>4. \A p \in Apps : world.app[p].pinger.count \in 0 .. NumPings
      BY <2>2 DEF AppType, PingerType
    <2>5. world.app[Host].ctrl \in Clients \cup {None} /\ world.app[Host].ctrl \notin world.pending
      <3>1. world.pending \subseteq Clients
        BY <2>1, WorldFields
      <3> QED BY <2>1, <3>1 DEF HostInOrder, Single
    <2>6. \A kind \in Kinds, c \in Clients, p \in Apps :
            p \in world.link[kind][c].ends => Running(world, p) /\ p \in {Host, c}
      BY <2>1 DEF Alive, AllWired, Wired
    <2>7. \A c \in Clients : c \in world.pending => Host \in world.link["ctrl"][c].ends
      BY <2>1 DEF Waiting, Ends
    <2> QED BY <2>3, <2>4, <2>5, <2>6, <2>7 DEF TypeOK
  <1> QED BY <1>1, AlwaysGood, PTL

\* gotUserConfirmation, gotNetplayConfig, gotConfirmConfig and startGameIfReady: however
\* many clients try the host, one at most starts the game, and the host starts when that
\* client's user has confirmed and the client has the configuration.
THEOREM OneGameOnly == Spec => []OneGame
  <1>1. ASSUME Good(world) PROVE OneGame
    <2>1. HostInOrder(world) /\ \A c \in Clients : Deal(world, c)
      BY <1>1, GoodFacts, WhoIsWho DEF TermsOf
    <2>2. \A c, d \in Clients : Started(c) /\ Started(d) => c = d
      BY <2>1 DEF Deal, Started
    <2>3. Started(Host) => world.app[world.app[Host].ctrl].confirmed /\ world.app[world.app[Host].ctrl].final
      BY <2>1 DEF HostInOrder, Deal, Started
    <2> QED BY <2>2, <2>3 DEF OneGame
  <1> QED BY <1>1, AlwaysGood, PTL

\* gotPingStats, mergePingStats and timerExpired: the users of the host and of the client
\* that it has chosen are asked with the same statistics, whatever was answered late, and
\* a client starts with the configuration that the host's user has confirmed.
THEOREM TermsAreTheSame == Spec => []SameTerms
  <1>1. ASSUME Good(world) PROVE SameTerms
    <2>1. ASSUME NEW c \in Clients
          PROVE  /\ Started(c) => world.app[c].session = 1
                 /\ world.app[Host].ctrl = c /\ world.app[Host].ui # "No" /\ world.app[c].ui # "No" =>
                      world.app[Host].stats = world.app[c].stats
      <3>1. Deal(world, c) /\ Figures(world, c)
        BY <1>1, GoodFacts, WhoIsWho DEF TermsOf
      <3> QED BY <3>1 DEF Deal, Figures, Started
    <2> QED BY <2>1 DEF SameTerms
  <1> QED BY <1>1, AlwaysGood, PTL

\* socketAccepted to startGame, with socketDisconnected, resetHost and the timers: however many
\* clients try the host, whatever fails and whoever gives up, no client is left waiting for a
\* message that does not come, but one that wanted to watch and has lost its connection.
THEOREM NobodyIsLeftWaiting == Spec => []NobodyHangs
  <1>1. ASSUME Good(world), Hope(world) PROVE NobodyHangs
    BY <1>1, HopeIsFulfilled DEF NobodyHangs, Waits
  <1> QED BY <1>1, AlwaysGood, PTL
=============================================================================

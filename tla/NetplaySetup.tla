---------------------------- MODULE NetplaySetup ----------------------------
(***************************************************************************)
(* The setting up of a netplay game by MainApp: the "Connect protocol" of  *)
(* a host and the clients that try it, from the accepted control socket to *)
(* the opening of the game, with the Pinger that measures the connection.  *)
(*                                                                         *)
(* Each application is an event loop that runs one callback at a time, and *)
(* a user interface in another thread, which answers by a message.  The    *)
(* world is a record of the applications and of the sockets between them;  *)
(* a callback takes a world to a world, or to a set of them.               *)
(*                                                                         *)
(* The sockets are external: a connection delivers in order, and begins    *)
(* with the callback that says it is there ("Open") and ends with the one  *)
(* that says it is gone ("Closed").  Names, flags, win counts and messages *)
(* to the user are left out.                                               *)
(***************************************************************************)
EXTENDS Integers, Sequences

CONSTANTS
    Host, Clients,    \* the applications
    None,             \* no socket
    NumPings,         \* NUM_PINGS
    PortCleared,      \* whether a host clears the port it has just chosen, as the code does
    RoleChoices,      \* bound: the [Clients -> Roles] considered
    MaxAccidents,     \* bound: connections that fail, and users that cancel
    MaxPings          \* bound: a ping is sent while fewer are under way

\* What a client is: one that plays, one of another version, or one that wants to watch.
Roles == {"Player", "Outdated", "Spectator"}

ASSUME SetupAssumption ==
    /\ Host \notin Clients /\ None \notin Clients \cup {Host} /\ RoleChoices \subseteq [Clients -> Roles]
    /\ NumPings \in Nat \ {0} /\ PortCleared \in BOOLEAN /\ MaxAccidents \in Nat /\ MaxPings \in Nat

VARIABLES
    world,     \* the applications, their connections, the sockets the host has not chosen
    accidents  \* how many of them there were

vars == <<world, accidents>>

Apps == {Host} \cup Clients
Kinds == {"ctrl", "data"}

\* The samples of a Pinger, by the application that sent the ping.
NoSamples == [p \in Apps |-> 0]
NoPinger == [on |-> FALSE, count |-> 0, samples |-> NoSamples]

\* A MainApp; ui is the user's confirmation: not asked for, asked, answered, taken.
NewApp(role) ==
    [role |-> role, status |-> "Idle", ctrl |-> None, data |-> "None", peer |-> None, port |-> 0, ready |-> FALSE,
     final |-> FALSE, ui |-> "No", confirmed |-> FALSE, timeout |-> FALSE, session |-> 0,
     pinger |-> NoPinger, stats |-> NoSamples]

Running(w, p) == w.app[p].status \in {"Running", "Starting"}

-----------------------------------------------------------------------------
(* Connections: of each kind at most one between a client and the host,    *)
(* with the messages on their way to either end, and which ends are there. *)

NoLink == [to |-> [p \in Apps |-> << >>], ends |-> {}]

\* Who is told msg when the connection of client c has the ends of E.
Told(E, msg) == [p \in Apps |-> IF p \in E THEN <<msg>> ELSE << >>]

\* The other end of a connection of client c.
OtherEnd(p, c) == IF p = Host THEN c ELSE Host

\* A message is sent by p over a connection of client c.
Send(w, kind, c, p, msg) ==
    IF w.link[kind][c].ends # {Host, c} THEN w
    ELSE [w EXCEPT !.link[kind][c].to[OtherEnd(p, c)] = Append(@, msg)]

\* The end of p is closed; the other end gets to know after what was sent.
Cut(l, c, p) ==
    IF p \notin l.ends THEN l
    ELSE [to |-> [q \in Apps |-> IF q = p THEN << >>
                                 ELSE IF q = OtherEnd(p, c) /\ l.ends = {Host, c}
                                   THEN Append(l.to[q], [type |-> "Closed"]) ELSE l.to[q]],
          ends |-> l.ends \ {p}]

Close(w, kind, c, p) ==
    [w EXCEPT !.link[kind][c] = Cut(@, c, p),
              !.pending = IF kind = "ctrl" /\ p = Host THEN @ \ {c} ELSE @]

\* All the ends of p are closed.
CloseAll(w, p) ==
    [w EXCEPT !.link = [kind \in Kinds |-> [c \in Clients |-> Cut(w.link[kind][c], c, p)]],
              !.pending = IF p = Host THEN {} ELSE @]

\* A connection is tried: it is there, or it is not.
Connect(w, kind, c, there) ==
    [w EXCEPT !.link[kind][c] =
        IF there THEN [to |-> Told({Host, c}, [type |-> "Open"]), ends |-> {Host, c}]
        ELSE [to |-> Told({c}, [type |-> "Closed"]), ends |-> {c}]]

\* The client that an application's ctrlSocket or dataSocket is a connection of.
ClientOf(w, p, kind) == IF p # Host THEN p ELSE IF kind = "ctrl" THEN w.app[p].ctrl ELSE w.app[p].peer

Connected(w, p, kind) == ClientOf(w, p, kind) # None /\ p \in w.link[kind][ClientOf(w, p, kind)].ends

SendCtrl(w, p, msg) == Send(w, "ctrl", ClientOf(w, p, "ctrl"), p, msg)

-----------------------------------------------------------------------------
(* MainApp and Pinger.                                                     *)

\* Wrong: the sockets stay open.
StopKeepingSockets(w, p) == [w EXCEPT !.app[p].status = "Stopped", !.app[p].pinger = NoPinger]

\* stop: the application ends, and so do its sockets, those the host has not
\* chosen included.
Stop(w, p) == [CloseAll(w, p) EXCEPT !.app[p] = [@ EXCEPT !.status = "Stopped", !.pinger = NoPinger]]

\* resetHost, which lets go of the ctrlSocket c and of serverDataSocket.
Released(w, c) ==
    LET t == IF c \in w.pending THEN w ELSE Close(w, "ctrl", c, Host) IN
    [t EXCEPT !.link["data"] = [d \in Clients |-> Cut(t.link["data"][d], d, Host)]]

\* Wrong: that the first InitialConfig was read is not forgotten.
ResetHostStillReady(w, c) ==
    [Released(w, c) EXCEPT
        !.app[Host] = [NewApp("Player") EXCEPT !.status = "Running", !.ready = w.app[Host].ready]]

ResetHost(w, c) == [Released(w, c) EXCEPT !.app[Host] = [NewApp("Player") EXCEPT !.status = "Running"]]

\* startGame: the game is opened by a timer, to let the last messages through.
StartGame(w, p) == [w EXCEPT !.app[p].status = "Starting"]

\* startGameIfReady
StartGameIfReady(w, p) ==
    IF ~w.app[p].confirmed \/ ~w.app[p].final THEN w
    ELSE StartGame(IF p = Host THEN w ELSE SendCtrl(w, p, [type |-> "ConfirmConfig"]), p)

\* gotVersionConfig, of a client or of a host that has chosen no client.
GotVersionConfig(w, p, c) ==
    IF w.app[c].role = "Outdated"
      THEN IF p = Host THEN Send(w, "ctrl", c, Host, [type |-> "ErrorMessage"]) ELSE Stop(w, p)
    ELSE IF p # Host THEN SendCtrl(w, p, [type |-> "InitialConfig", port |-> 0])
    ELSE IF w.app[c].role = "Spectator" THEN Send(w, "ctrl", c, Host, [type |-> "ErrorMessage"])
    ELSE IF c \notin w.pending THEN w
    ELSE LET port == IF PortCleared THEN 0 ELSE 1
             t == [w EXCEPT !.pending = @ \ {c},
                            !.app[Host] = [@ EXCEPT !.ctrl = c, !.data = "Listening", !.port = port]]
         IN  SendCtrl(t, Host, [type |-> "InitialConfig", port |-> port])

\* gotInitialConfig: the first one is answered, and with the second one a client
\* knows where to connect its dataSocket.
GotInitialConfig(w, p, msg) ==
    IF ~w.app[p].ready
      THEN SendCtrl([w EXCEPT !.app[p].ready = TRUE], p, [type |-> "InitialConfig", port |-> w.app[p].port])
    ELSE IF p = Host THEN w
    ELSE LET there == Running(w, Host) /\ w.app[Host].data = "Listening" /\ msg.port # 0 IN
         Connect([w EXCEPT !.app[p] = [@ EXCEPT !.port = msg.port, !.data = "Connecting"]], "data", p, there)

\* pingerSendPing, for a ping that was first sent by origin.
PingerSendPing(w, p, origin) ==
    IF w.app[p].data # "Open" \/ ~Connected(w, p, "data") THEN Stop(w, p)
    ELSE Send(w, "data", ClientOf(w, p, "data"), p, [type |-> "Ping", from |-> origin])

\* Pinger::start
PingerStart(w, p) ==
    LET t == PingerSendPing(w, p, p) IN
    IF ~Running(t, p) THEN t ELSE [t EXCEPT !.app[p].pinger = [@ EXCEPT !.on = TRUE, !.count = 1]]

\* Wrong: samples are added when the statistics were sent already.
GotPongLate(w, p, origin) ==
    IF p = origin THEN [w EXCEPT !.app[p].pinger.samples[origin] = @ + 1] ELSE PingerSendPing(w, p, origin)

\* Pinger::gotPong: whatever arrives while pinging is taken to be an answer.
GotPong(w, p, origin) ==
    IF w.app[p].pinger.on THEN [w EXCEPT !.app[p].pinger.samples[origin] = @ + 1]
    ELSE PingerSendPing(w, p, origin)

\* getUserConfirmation
GetUserConfirmation(w, p) == [w EXCEPT !.app[p].ui = "Asked"]

\* checkDelayAndContinue: the delay may be more than this user accepts.
CheckDelayAndContinue(w, p) ==
    {GetUserConfirmation(w, p)} \cup
    IF p # Host THEN {Stop(w, p)}
    ELSE LET t == SendCtrl(w, Host, [type |-> "ErrorMessage"]) IN
         {ResetHost(IF Connected(w, Host, "ctrl") THEN [t EXCEPT !.pending = @ \cup {w.app[Host].ctrl}] ELSE t,
                    w.app[Host].ctrl)}

\* mergePingStats, of the own and the other one's samples.
MergePingStats(w, p) ==
    [w EXCEPT !.app[p].stats = [q \in Apps |-> @[q] + w.app[p].pinger.samples[q]]]

\* gotPingStats
GotPingStats(w, p, msg) ==
    LET t == [w EXCEPT !.app[p].stats = msg.samples] IN
    IF p = Host THEN CheckDelayAndContinue(MergePingStats(t, p), p) ELSE {PingerStart(t, p)}

\* gotNetplayConfig, gotConfirmConfig
GotNetplayConfig(w, p, msg) ==
    IF p = Host THEN w
    ELSE StartGameIfReady([w EXCEPT !.app[p] = [@ EXCEPT !.session = msg.session, !.final = TRUE]], p)

GotConfirmConfig(w, p) ==
    IF ~w.app[p].confirmed THEN w ELSE StartGameIfReady([w EXCEPT !.app[p].final = TRUE], p)

\* socketRead, for a message of client c's connection that p reads.  Which socket
\* it came from is not looked at, but for a VersionConfig.
SocketRead(w, p, c, msg) ==
    LET t == [w EXCEPT !.app[p].timeout = FALSE]
        type == msg.type
        Refused == IF p = Host /\ type = "VersionConfig"
                     THEN {Send(t, "ctrl", c, Host, [type |-> "ErrorMessage"])} ELSE {t}
    IN  IF type = "VersionConfig" /\ IF p = Host THEN w.app[p].ctrl = None ELSE w.app[p].role # "Spectator"
          THEN {GotVersionConfig(t, p, c)}
        ELSE IF w.app[p].ctrl = None THEN Refused
        ELSE CASE type = "InitialConfig" -> {GotInitialConfig(t, p, msg)}
               [] type = "PingStats" -> GotPingStats(t, p, msg)
               [] type = "NetplayConfig" -> {GotNetplayConfig(t, p, msg)}
               [] type = "ConfirmConfig" -> {GotConfirmConfig(t, p)}
               [] type = "ErrorMessage" -> {Stop(t, p)}
               [] type = "Ping" -> {GotPong(t, p, msg.from)}
               [] OTHER -> Refused

\* socketAccepted
SocketAccepted(w, kind, c) ==
    IF kind = "ctrl" THEN Send([w EXCEPT !.pending = @ \cup {c}], "ctrl", c, Host, [type |-> "VersionConfig"])
    ELSE IF Connected(w, Host, "ctrl") /\ w.app[Host].data = "Listening"
      THEN PingerStart([w EXCEPT !.app[Host] = [@ EXCEPT !.data = "Open", !.peer = c]], Host)
    ELSE Close(w, "data", c, Host)

\* socketConnected
SocketConnected(w, kind, c) ==
    IF kind = "ctrl" THEN SendCtrl(w, c, [type |-> "VersionConfig"])
    ELSE [w EXCEPT !.app[c] = [@ EXCEPT !.data = "Open", !.timeout = FALSE]]

\* The end of p is gone, with what it did not read.
Gone(w, p, kind, c) ==
    [w EXCEPT !.link[kind][c] = [to |-> [@.to EXCEPT ![p] = << >>], ends |-> @.ends \ {p}]]

\* A spectator's control connection is gone.
LosesView(w, p, kind) == p # Host /\ kind = "ctrl" /\ w.app[p].role = "Spectator"

\* Wrong: a host that asks its user waits for another client instead.
SocketDisconnectedAgain(w, p, kind, c) ==
    LET t == Gone(w, p, kind, c) IN
    IF p = Host /\ c # ClientOf(w, p, kind) THEN [t EXCEPT !.pending = IF kind = "ctrl" THEN @ \ {c} ELSE @]
    ELSE IF p = Host THEN ResetHost(t, w.app[Host].ctrl)
    ELSE IF (w.app[p].confirmed /\ w.app[p].final) \/ LosesView(w, p, kind) THEN t ELSE Stop(t, p)

\* socketDisconnected.  A client that wants to watch tells the game, and does not stop.
SocketDisconnected(w, p, kind, c) ==
    LET t == Gone(w, p, kind, c) IN
    IF p = Host /\ c # ClientOf(w, p, kind) THEN [t EXCEPT !.pending = IF kind = "ctrl" THEN @ \ {c} ELSE @]
    ELSE IF p = Host /\ w.app[Host].ui = "No" THEN ResetHost(t, w.app[Host].ctrl)
    ELSE IF (w.app[p].confirmed /\ w.app[p].final) \/ LosesView(w, p, kind) THEN t ELSE Stop(t, p)

-----------------------------------------------------------------------------
(* Steps.                                                                  *)

Init ==
    /\ \E role \in RoleChoices :
         world = [app |-> [p \in Apps |-> IF p = Host THEN [NewApp("Player") EXCEPT !.status = "Running"]
                                          ELSE NewApp(role[p])],
                  link |-> [kind \in Kinds |-> [c \in Clients |-> NoLink]],
                  pending |-> {}]
    /\ accidents = 0

\* startNetplay and startSpectate: a client tries the host.
Begin(c) ==
    /\ world.app[c].status = "Idle"
    /\ world' = [Connect(world, "ctrl", c, Running(world, Host)) EXCEPT
                   !.app[c] = [@ EXCEPT !.status = "Running", !.ctrl = Host, !.timeout = (world.app[c].role # "Spectator")]]
    /\ UNCHANGED accidents

\* An application's event loop takes the next event of a socket.
Handle(p, kind, c) ==
    LET queue == world.link[kind][c].to[p]
        w == [world EXCEPT !.link[kind][c].to[p] = Tail(@)]
    IN  /\ Running(world, p) /\ queue # << >>
        /\ world' \in CASE Head(queue).type = "Open" ->
                             {IF p = Host THEN SocketAccepted(w, kind, c) ELSE SocketConnected(w, kind, c)}
                        [] Head(queue).type = "Closed" -> {SocketDisconnected(w, p, kind, c)}
                        [] OTHER -> SocketRead(w, p, c, Head(queue))
        /\ UNCHANGED accidents

\* Pinger::timerExpired: another ping, or the end of it.
PingTimer(p) ==
    LET pinger == world.app[p].pinger
        w == SendCtrl(world, p, [type |-> "PingStats", samples |-> pinger.samples])
        t == [w EXCEPT !.app[p].pinger = [@ EXCEPT !.on = FALSE, !.count = 0]]
        c == ClientOf(world, p, "data")
        data == world.link["data"][c].to
    IN  /\ pinger.on /\ Running(world, p)
        /\ \/ /\ pinger.count < NumPings
              /\ Connected(world, p, "data") => Len(data[Host]) + Len(data[c]) < MaxPings
              /\ \E x \in {PingerSendPing(world, p, p)} :
                   world' = IF Running(x, p) THEN [x EXCEPT !.app[p].pinger.count = @ + 1] ELSE x
           \/ /\ pinger.count >= NumPings
              /\ world' \in IF p = Host THEN {t} ELSE CheckDelayAndContinue(MergePingStats(t, p), p)
        /\ UNCHANGED accidents

\* waitForUserConfirmation: in its own thread, the user interface sets the answer
\* and sends a message.
Answer(p) ==
    /\ Running(world, p) /\ world.app[p].ui = "Asked"
    /\ \E yes \in BOOLEAN : world' = [world EXCEPT !.app[p] = [@ EXCEPT !.ui = "Answered", !.confirmed = yes]]
    /\ UNCHANGED accidents

\* gotUserConfirmation
GotUserConfirmation(p) ==
    /\ Running(world, p) /\ world.app[p].ui = "Answered"
    /\ LET w == [world EXCEPT !.app[p].ui = "Taken"]
           t == [w EXCEPT !.app[Host].session = 1]
       IN  world' = IF ~w.app[p].confirmed \/ ~Connected(w, p, "ctrl") THEN Stop(w, p)
                    ELSE IF p # Host THEN StartGameIfReady(w, p)
                    ELSE StartGameIfReady(SendCtrl(t, p, [type |-> "NetplayConfig", session |-> 1]), p)
    /\ UNCHANGED accidents

\* stopTimer, and startTimer, which closes the sockets and opens the game.
TimedOut(c) ==
    /\ Running(world, c) /\ world.app[c].timeout
    /\ world' = Stop(world, c)
    /\ UNCHANGED accidents

OpenGame(p) ==
    /\ world.app[p].status = "Starting"
    /\ world' = [Stop(world, p) EXCEPT !.app[p].status = "InGame"]
    /\ UNCHANGED accidents

\* The timer of a socket that the host has accepted and not chosen.
PendingTimedOut(c) ==
    /\ Running(world, Host) /\ c \in world.pending
    /\ world' = Close(world, "ctrl", c, Host)
    /\ UNCHANGED accidents

\* keyboardEvent: the keyboard is not listened to while the user is asked, nor
\* when the game is about to start.
Cancel(p) ==
    /\ accidents < MaxAccidents
    /\ world.app[p].status = "Running" /\ world.app[p].ui \in {"No", "Taken"}
    /\ world' = Stop(world, p)
    /\ accidents' = accidents + 1

\* A control connection fails, with what is on its way.
Fail(c) ==
    /\ accidents < MaxAccidents /\ world.link["ctrl"][c].ends = {Host, c}
    /\ world' = [world EXCEPT !.link["ctrl"][c].to = Told({Host, c}, [type |-> "Closed"])]
    /\ accidents' = accidents + 1

Next ==
    \/ \E c \in Clients : Begin(c) \/ TimedOut(c) \/ PendingTimedOut(c) \/ Fail(c)
    \/ \E p \in Apps : PingTimer(p) \/ Answer(p) \/ GotUserConfirmation(p) \/ OpenGame(p) \/ Cancel(p)
    \/ \E kind \in Kinds, c \in Clients : Handle(Host, kind, c) \/ Handle(c, kind, c)

Spec == Init /\ [][Next]_vars

-----------------------------------------------------------------------------
(* Correctness.                                                            *)

Started(p) == world.app[p].status \in {"Starting", "InGame"}

\* The host's sockets are those of the client it has chosen and of the clients it has
\* not, and an application that is over has none.
TypeOK ==
    /\ \A p \in Apps : world.app[p].status \in {"Idle", "Running", "Starting", "InGame", "Stopped"}
    /\ \A p \in Apps : world.app[p].pinger.count \in 0 .. NumPings
    /\ world.app[Host].ctrl \in Clients \cup {None} /\ world.app[Host].ctrl \notin world.pending
    /\ \A kind \in Kinds, c \in Clients, p \in Apps :
         p \in world.link[kind][c].ends => Running(world, p) /\ p \in {Host, c}
    /\ \A c \in Clients :
         c \in world.pending => Host \in world.link["ctrl"][c].ends

\* The host plays with one client at most, and starts only when that client's user has
\* confirmed and the client has the configuration.
OneGame ==
    /\ \A c, d \in Clients : Started(c) /\ Started(d) => c = d
    /\ Started(Host) => world.app[world.app[Host].ctrl].confirmed /\ world.app[world.app[Host].ctrl].final

\* A client starts with the NetplayConfig that the host's user has confirmed, and both
\* users are asked with the same statistics, from which each side computes the delay.
SameTerms ==
    \A c \in Clients :
        /\ Started(c) => world.app[c].session = 1
        /\ world.app[Host].ctrl = c /\ world.app[Host].ui # "No" /\ world.app[c].ui # "No" =>
             world.app[Host].stats = world.app[c].stats

\* Nothing is going to happen: no application that runs has an event to handle, pings
\* aside, nor a timer, and no user is asked.
NothingToDo ==
    /\ \A p \in Apps : Running(world, p) =>
         /\ world.app[p].status # "Starting" /\ ~world.app[p].timeout /\ ~world.app[p].pinger.on
         /\ world.app[p].ui \in {"No", "Taken"}
         /\ \A kind \in Kinds, c \in Clients :
              p \in {Host, c} =>
                \A k \in DOMAIN world.link[kind][c].to[p] : world.link[kind][c].to[p][k].type = "Ping"
    /\ world.pending = {}

\* No client is left waiting for a message that does not come: when nothing is going to
\* happen, each one that tried the host is in the game or has stopped.  Only a client that
\* wanted to watch runs on, and only when its control connection was lost.
NobodyHangs ==
    NothingToDo =>
      \A c \in Clients :
        world.app[c].status = "Running" =>
          world.app[c].role = "Spectator" /\ c \notin world.link["ctrl"][c].ends

\* What a comment of gotVersionConfig says (MainApp.cpp:487): the host tells the client
\* the port that it listens on.
PortIsTold == \A c \in Clients : world.app[c].data = "Connecting" => world.app[c].port # 0
=============================================================================

# Verification of the netplay core

CCCaster is the netplay tool of the fighting game Melty Blood Actress Again
Current Code. Two programs run on each computer: the launcher (`targets/MainApp.cpp`
and the menus around it), which finds the other player and agrees on a
configuration, and a DLL injected in the game (`targets/Dll*.cpp`), which keeps
two deterministic copies of the game in step by exchanging controller inputs,
with delay or rollback. Both talk to the network through the same library
(`lib/`): one event loop, timers, sockets, and a reliable protocol over UDP.

This directory holds TLA+ models of that core, the TLC configurations that check
them on small instances, and theorems about them proved with TLAPS. `src/` in
the text below stands for the repository root.

## 1. Inventory

| Component | Code | State it keeps | Operations | What makes it hard |
|---|---|---|---|---|
| Go-Back-N transport | `lib/GoBackN` | sequence numbers, send list and resend cursor, reassembly buffer, keep-alive count, timer | `sendViaGoBackN`, `recvFromSocket`, `timerExpired`, `setKeepAlive`, `reset` | packets lost, duplicated, reordered; the cursor points into a list that acknowledgements shorten; messages cut in pieces |
| UDP connections | `lib/UdpSocket` | connection state, one `GoBackN` per connection, the children of a listening socket, one accepted-socket slot | `listen`, `connect`, `accept`, `disconnect`, `send`, the four GoBackN callbacks, `socketRead` | a handshake made of reliable messages; unreliable disconnects; children that outlive their peer |
| Smart sockets, relay | `lib/SmartSocket`, `scripts/server.py` | the direct socket, the relay socket, the tunnel socket, pending clients and their timers; the relay's hosts and matches | `listen`, `connect`, `accept`, the callbacks of three sockets and two timers, `gotMatch`, `gotTunInfo` | fallback racing a late answer; several relays whose match numbers coincide |
| Timers and event loop | `lib/TimerManager`, `SocketManager`, `EventManager` | the allocated and the active timers and sockets | `check`, `add`, `remove`, `start`, `stop` | callbacks that add and remove what is being iterated |
| Pinger | `lib/Pinger` | ping count, samples, packet loss | `start`, `stop`, `gotPong`, `timerExpired` | answers that come after the statistics were sent |
| Connection set-up | `targets/MainApp` | control and data sockets, configurations, which of them were exchanged and confirmed | the numbered protocol of lines 183-205 | two sides and a user thread that confirms whenever it likes |
| Input history | `netplay/InputsContainer` | inputs by transition index and frame, last changed frame | `get`, `set`, `resize`, `eraseIndexOlderThan` | prediction by repetition, lines erased under the reader |
| Netplay synchronisation | `targets/DllNetplayManager`, `DllMain` | netplay state, transition index and frame, both players' inputs, RNG states, retry menu choices | `frameStep`, `setState`, `setInputs`, `isRemoteInputReady`, the message and disconnection callbacks | two frame loops that wait for each other; unreliable inputs mixed with reliable messages |
| Rollback pool | `targets/DllRollbackManager` | free stack and list of saved states | `allocateStates`, `saveState`, `loadState`, `deallocateStates` | a pool at its limit |
| Spectators | `targets/DllSpectatorManager`, `netplay/SpectatorManager` | spectators, their positions in the input history, what is preserved for them | `pushSpectator`, `popSpectator`, `frameStepSpectators` | a list changed while it is iterated round-robin; a history cut under a slow reader |

The rest of the repository is input devices, menus, drawing, patches of the
game's code, file formats, clients of web services and vendored libraries; it
has no protocol of its own, and `PROJECT.json` lists it with the reasons.

The components interact by callbacks on one thread: `EventManager` polls the
timers, then the sockets; a timer or a socket calls its owner. A `GoBackN` is
owned by a `UdpSocket`, which is owned by `MainApp`, by `DllMain` or by a
`SmartSocket`. Launcher and DLL on one computer exchange messages through a
pipe; the two computers exchange UDP packets. The user interface of the
launcher is a second thread: it sets the user's answer and sends a message to
the first.

The hazards of this code, each at its line with the property that covers it, are
listed in `PROJECT.json`.

### What makes each component correct

| Component | Safety | Liveness | Where |
|---|---|---|---|
| Go-Back-N transport | each message once, whole, in order; nothing forgotten before it was received; something to resend means a running timer | a message sent is delivered and acknowledged | `GoBackN`, `GoBackNLink`, `ReliableChannel` |
| UDP connections | both ends agree on the handshake; nothing read before it; a closed socket is silent | connecting ends; the loss of one end is noticed by the other | `UdpConnection` |
| Netplay synchronisation, one round | inputs known are inputs given; mispredictions are repaired; a round ends on inputs that were given | two peers that wait get on with one window sent again; no wait lasts for ever | `RollbackSync`, `InputWait` |
| Netplay synchronisation, whole session | both peers go through the same states and play the same frames from the same RNG states; both leave the retry menu alike | no two peers wait for each other | `NetplaySession` |
| Input history | the window sent belongs to the index it is labelled with; nothing known is overwritten | - | `InputHistory` within `NetplaySession`, `Spectators`; one index in `RollbackSync` |
| Rollback pool | a loaded state is what was saved; no slot is lost or shared | - | `RollbackPool`, `SavedStates` |
| Spectators | what a spectator still needs is kept; nothing is skipped; its game is the one watched | - | `Spectators` |
| Connection set-up, pinger | one game at most; the same configuration and statistics on both sides | no client is left waiting | `NetplaySetup` |
| Smart sockets, relay | the hole kept for a match is that of the client matched | every attempt to connect ends | `SmartSocket` |
| Timers, event loop | a callback never touches a freed timer or socket | a started timer fires | not modelled; the second is the fairness of section 4 |

## 2. The models and the code

How the modules hang together:

```
ReliableChannel <--implements-- GoBackNLink --EXTENDS--> GoBackN <--EXTENDS-- UdpConnection
                       (MCGoBackNLink, GoBackNLink_proofs)          (UdpConnection_proofs)
NetplaySession  --EXTENDS--> InputHistory <--EXTENDS--  Spectators (MCSpectators)
  (NetplaySession_proofs)
RollbackSync    (MCRollbackSync, RollbackSync_proofs)     the two peers of a round
InputWait       (FrameStep_proofs)                        time within one peer's poll loop
SavedStates     <--implements-- RollbackPool              one peer's pool, over rounds
                                (FrameStep_proofs)
NetplaySetup    (MCNetplaySetup, NetplaySetup_proofs)     host and clients, up to the game
SmartSocket     (MCSmartSocket, SmartSocket_proofs)       host, clients and relays
```

A module that uses a connection takes for granted what the module about it
shows: `NetplaySession` and `NetplaySetup` send their reliable messages over
queues, which is `ReliableChannel`; `RollbackSync` is what `NetplaySession`
leaves out, a round with rollback, and `InputWait` the time that neither of them
has.

Definitions marked "Wrong:" are plausible errors of the code, kept next to the
definition they would replace; no specification uses them. `PROJECT.json` says
under "mutants" which property detects each of them.

### GoBackN: one endpoint

An endpoint is a record with the private members of class `GoBackN`
(`_sendSequence`, `_recvSequence`, `_ackSequence`, `_sendList`, `_sendListPos`,
`_recvBuffer`, `_sendTimer`, the keep-alive count). Every handler is an operator
from endpoint to endpoint: `SendViaGoBackN`, `RecvFromSocket`, `TimerExpired`,
`SetKeepAlive`, `DelayKeepAliveOnce`, `Reset`; beside each stand operators for what it emits
through its owner (`TimerPackets`, `RecvPackets`, `Delivers`, `TimesOut`). The
std::list iterator `_sendListPos` is an index with 0 for `cend()`. A message is
an opaque value; what is kept of a `SplitMessage` is its index and count. Left
out: the byte encoding, and that sequence numbers wrap at 2^32. `save`/`load` and
the copy of an endpoint, which belong to `UdpSocket::share`, are not modelled: no
program of the repository calls it.

### GoBackNLink: two endpoints and a network

The set-up of `tests/Test.GoBackN.cpp`. `ep`, `net`, `closed` are the endpoints,
the packets on their way and the peers whose keep-alive ran out; `log`, `sent`,
`delivered` are histories. Actions: `Send` (a message cut in `count` pieces),
`Expire`, `Receive` (optionally leaving a copy in the network), `Lose`. The
network is a set, so packets are reordered at will; a copy of a packet that is
still under way is the same element. `ReliableChannel` is the promise: two FIFO
channels.

### UdpConnection: handshake and disconnection

A server socket, one client socket per address of `Clients`, and the child the
server keeps for that address, each with the `GoBackN` endpoint of the same
module. `ConnectRequest`, `ConnectReply`, `ConnectFinal` and the owner's messages
are pieces of the reliable stream; `Disconnect` and the owner's unreliable
messages are raw. `ServerReceive` is `socketRead` of the server with its
dispatch to a child or to a new one, `ClientReceive` that of a client;
`ClientExpire` and `ChildExpire` are `timerExpired` followed by `goBackNTimeout`
when nothing was heard for too long; `ClientDisconnect`, `ChildDisconnect`,
`ServerDisconnect` are `disconnect` in its three roles. Assumed: the owner of the server
calls `accept` inside `socketAccepted`, as every owner in the repository does.

### RollbackSync: one round

Two peers in `NetplayState::InGame` with rollback. `BeginFrame` is
`frameStepNormal` up to its poll loop (save the state, count the round-over
timer, record the local input `delay` frames ahead, send the window);
`ReceiveInputs` and `ReceiveIndex` are what the poll loop may be called back
with; `RollBack` and `ContinueFrame` are the way out of it with and without a
rollback; `ChangeFrame` is the latter when the user changed delay (Ctrl +
Number) or rollback (Alt + Number); `RerunFrame` is `frameStepRerun`; `Leave` is
the transition to `Skippable` when the round is over.

`own`, `known` and `changed` are the `InputsContainer` of the two players for
this index, with its `_lastChangedFrame`; `saved` is the list of frames of
`_statesList`; `played` is a history of the remote inputs the game was given.
The game itself is external: its state is a function of its inputs, and the
round is over once some frame got a pair of inputs in `Deciding`.

An input once recorded does not change (which `KnownIsActual` checks, as the
guard in `InputsContainer::set` is part of the model), so a `PlayerInputs`
datagram is named by the end of its window. `sent` keeps all of them for ever: a
datagram may arrive at any time, any number of times, in any order, and one that
is never taken is lost.

### InputWait: how long a peer waits

The same poll loop, seen from one peer and in milliseconds: the resend timer,
the count of polls without data, the three ways of giving up (too many polls, too
many resends, the socket's own disconnection), and what ends the wait after a
disconnection: a client has `isF1Active` set, whoever its host is
(`DllMain.cpp:2379-2382`), so that `restoreOfflineGameMode` is skipped and it
still wants its RngState. Time passes only in `EventManager::poll`, which returns after its
whole timeout. `sinceSent` is a history.

### RollbackPool and SavedStates

The memory pool of `DllRollbackManager` with its free stack and list of states,
over several rounds and connections. `SaveState` includes the eviction with a
full pool, `LoadState` the release of the slots of newer states; `EnterInGame`
and `LeaveInGame` are `allocateStates` and `deallocateStates` with the
condition on `config.rollback` under which they are called; `Disconnect` is
`restoreOfflineGameMode`, in mid-round too, where it leaves the pool as it is;
`Reconnect` is a new configuration, which with `RenewsLost = FALSE` comes only when the
pool is empty. Which frame is loaded
and what the game computes is arbitrary. `SavedStates` is the promise: a list of
states, each of which loads as it was saved; a state may be forgotten to make
room, and all of them are given up when the rollback is zero.

### InputHistory: the inputs of a player

`InputsContainer` as operators on a sequence of sequences: `Get` with its
prediction (the last input known of the index or of those before it), `Resize`,
`Set` and `SetWindow`, `Window`, `EraseIndexOlderThan`, which clears everything
when the index is the newest one. Indexes and frames count from 0 as in the code. `StartFrame` and
`Size` are those of the messages that are labelled with the last frame of their
window.

### NetplaySession: from character select to character select

Two peers without rollback. `peer[p]` is a record of the members of
`NetplayManager` and `DllMain` that decide something: state, transition index,
`_startIndex`, frame, delay, the two histories, the list of RngStates, the
choices of the retry menu, `_localRetryMenuIndex` sent or not,
`lazyDisconnect`, the connection. `SetState`, `SetInput`, `GetInputs`,
`SetInputs`, `SetRemoteIndex`, `SetRngState`, `RngStateReady`,
`RemoteInputReady`, `NetplayStateChanged`, `SocketRead` are the functions of
these names. `Frame` goes from poll loop to poll loop: the rest of one
`frameStep`, the frame of the game, and the next `frameStep` up to its poll
loop; `Deliver` is a callback of that loop, `Resend` its timer, `Disconnect` the
data socket's end. Reliable messages arrive in order; `PlayerInputs` may be
lost, and may overtake the reliable ones sent before them. `log` is a history
of the states and frames of both peers, each up to its disconnection. After that a
host goes offline (`RestoreOfflineGameMode`), while a client, which has `isF1Active`,
keeps its mode, its delay, its state and its wait for an RngState.

Abstracted: the game (when a scene ends is a function of the inputs);
`shouldSyncRngState` of the character intro, which the scene `IntroDone` sets; a
remote player who is ahead may make `getInput` return a guess, which the game is
given as it is. Left out: the path of `gracefulDisconnectCompleted`, the 600
polls without data and the resends at which a client without a connection is closed
(`InputWait`), rollback (`RollbackSync`), sync hashes. A host's
disconnection in `Loading`, `CharaIntro` or `Skippable` closes its game, because
`CharaSelect` is no valid next state, although `DllMain.cpp:1625` logs that it
"should transition to training CSS".

### Spectators: who watches

`game` is the game watched with the part of `NetplayManager` that spectators
need (histories, RngStates, menu choices, `_startIndex`, `_spectateStartIndex`,
`preserveStartIndex`), `stream` is `SpectatorManager` (the list, its iterator as
a position, the positions of the spectators, `currentMinIndex`), `inbox` the TCP
streams, `viewer` the games of the spectators with their own `NetplayManager`.
`StepSpectators` is `frameStepSpectators` with its broadcast multiplier and
interval, `Push` and `Pop` are `pushSpectator` and `popSpectator`, `Accept` and
`GiveUp` the pending sockets. An input is named by its index and frame, so that
a spectator who is given another one is noticed. The two histories of the players
are one: what `getBothInputs` takes is their common part.

Left out: the redirection to another spectator, spectators of spectators, the
RngState of the character intro, more than one round per game.

### NetplaySetup: host and clients before the game

`world` holds one record per `MainApp` (its sockets by name, which configurations
it has read and sent, the user's confirmation, its `Pinger`), the control and data
connections between the host and each client as two queues that begin with "Open"
and end with "Closed", and the sockets the host accepted without choosing one.
Each callback is an operator from a world to a world or, where the outcome
depends on what is left out (the measured delay against the user's limit), to a
set of them: `GotVersionConfig`, `GotInitialConfig`, `GotPingStats`,
`CheckDelayAndContinue`, `GotNetplayConfig`, `GotConfirmConfig`, `ResetHost`,
`SocketAccepted`, `SocketConnected`, `SocketDisconnected` (which does not stop a client that
wants to watch, `MainApp.cpp:1240-1245`), `Stop`, `PingerStart`, `GotPong`. `Handle` takes the next event of a socket; `Answer`
is the user interface's thread, `GotUserConfirmation` the message it sends.
The statistics are counted as samples, by who sent the ping, which is all that
decides whether both sides compute the same delay.

Left out: the address taken over from a running game (F1), broadcast, offline
and synchronisation-test modes, a spectator who confirms, names, flags and win
counts, the exchange with the game's process.

### SmartSocket: direct or through a relay

One `SmartSocket` per application with its three sockets and two timers, the
relays of `scripts/server.py` with their hosts and matches, and the host's
`_pendingClients` and `_pendingTimers`. A relay keeps the match of a client that
leaves it once that client was told of the host's hole (`server.py:134,208-210`). `RelayRead` is the relay reading
a request, `RelayGets` a `UdpData` that opens a hole; `GotMatch`, `GotTunInfo`,
`DirectDisconnected`, `VpsConnected`, `VpsDisconnected`, `TunAccepted`,
`TunConnected`, `TunDisconnected`, `ConnectTimedOut`, `PendingTimedOut` are the
callbacks. A pending client carries the match it is truly of (`of`), which the
code does not know: `SameMatch` compares it with the address the code keeps, in every
behaviour in which no client ever sends for the match of one relay to another relay that has
given the id away (`NoCoincidence`; section 6 says what happens otherwise).

Left out: the framing of relay messages in the TCP stream, a host that
registers twice, and the reset of a relay after an exception.

## 3. The runs

"v" marks a run whose property is stated by a comment of the code and is
violated by what the code does (section 6).

| Run | What it checks | Bounds |
|---|---|---|
| `gobackn` | the inductive invariant of the proofs; the window slides; delivery; the link implements `ReliableChannel`, with its fairness | two messages in one direction of one or two pieces, one packet duplicated |
| `udp_safety` | agreement on the handshake, silence of closed sockets, the owners' streams | one client, two children, a reliable and a raw message on each side, one keep-alive tick, packets repeated at will |
| `udp_liveness` | connecting ends; the loss of either end is noticed | one client, two children, packets lost |
| `rollback_rounds` | what is known was given; mispredictions are repaired; the round ends on inputs that were given; one resend ends a mutual wait | eight frames, rollback 1 to 2, delay 0 to 1, a window of seven inputs, a pool of two states, one press by one peer, one change of settings per peer |
| `wait` | the resend timer serves every wait, no connected peer is closed by a timeout, waits end | the intervals of the code |
| `pool` | no slot lost or shared, and `SavedStates` | four slots, frames up to seven, a connection lost anywhere; a new one finds the pool empty |
| `session` | both peers take the same path, play the same frames, use the right RngState, never wait for each other and leave the menu alike; windows carry the right index | a window of four inputs, delay 1, two frames per index before the players press, two messages under way, transition index up to 6 in versus and 8 in training mode, disconnection up to index 4 |
| `spectators` | what a spectator needs is kept, nothing is skipped, its game is the one watched | two spectators, windows of four inputs, one index more than needed preserved, joining at the start of a game or at the end of a character select or retry menu, up to index 6, playing up to 7 |
| `setup` | one game at most, on the same terms; no client is left waiting but one that wants to watch and lost its control connection | a host, two clients, two pings each way, two accidents (a failing connection or a cancelling user) |
| `setup_port` | v: "host will tell us the correct port" | the same without accidents |
| `smart` | the hole kept for a match is that of the client matched; every connect ends | a host, two clients, two relays; the host's relay connection breaks while it listens, one client's while it connects |
| `smart_loss` | v: the loss of a connection that got a read is reported | the same, no relay breaks |

Why these bounds are enough to meet the interesting cases:

- `gobackn`: two pieces and two messages give a piece that overtakes another, a
  piece of the second message while the first is incomplete, and an
  acknowledgement that shortens the list before, at and behind the resend cursor.
  One duplicate lets an old packet arrive after its message was delivered. Traffic
  goes to one side; the other one still acknowledges. The proofs of section 5 do
  not have these bounds. Keep-alive is off here and exercised by the
  `UdpConnection` runs; the proofs cover both.
- `udp_safety`, `udp_liveness`: two children of an address are what a late copy
  of `ConnectRequest` can open. In the safety run a packet that is delivered
  stays in the network: any repeat and any loss (a packet nobody takes) is among
  the behaviours.
- `rollback_rounds`: the pool of two is full from the third frame on, a peer can
  guess, be corrected within the same poll loop or in a later frame, roll back
  while the rollback timer counts, and reach the round-over timer with a guessed
  input. `NumInputs = 7` is enough for the settings one change of each peer can
  reach.
- `pool`: a round may be left with the pool as it is, when its connection was lost, and the
  rounds after it are played without one. From four slots the second oldest state is evicted twice in a row while
  the oldest is kept; in seven frames with rollbacks among them a slot is freed and
  used again several times.
- `session`: six indexes lead from the first character select through a game and
  the retry menu into the next one (or back to character select); a window of four
  inputs fits the two that a peer can be behind; two messages under way are a datagram
  that overtakes a reliable message and a reliable message that comes after the
  index it belongs to.
- `spectators`: two spectators are a round robin in which one leaves while
  the other is served and in which the minimum of a round is that of the one not
  served. Seven indexes contain a whole game and the erasure of the last one under
  a spectator that is still in it. One message under way makes each spectator slower or
  faster than the game. A spectator that joins in the first frame of a game is counted by a
  round of the list before the next one; one that joins at the end of a character select or
  of a retry menu is not, when `Loading` comes at once. The properties leave out spectators
  that no whole round has counted when a new game starts (`InTime`): the program may drop
  them (section 6).
- `setup`: two clients are one that the host has chosen and one that waits, is
  turned away or takes the place of the first; two accidents are a failure
  during the recovery from another.
- `smart`: two clients and two relays are what makes match numbers coincide. The
  repository's relay list has four; a third adds no new pair. The host moves to the second
  relay with matches of the first one pending, and so does a client.

Every bound that the code does not have is a CONSTANT marked "bound:" in its
module; the other CONSTANTS are constants or settings of the code, made small.
`CHECK_DEADLOCK FALSE` stands wherever the system may really stop: all messages
acknowledged, all sockets closed, the last frame played, the game opened or
closed. The pool never stops, and its run checks for deadlock.

## 4. Fairness

- `GoBackNLink`: weak fairness of `Expire`, because the event loop polls the
  `TimerManager` in every round and a started timer fires; strong fairness of the
  arrival of the piece, or the acknowledgement, with a given number: the network
  may lose it any number of times but not every time. Nothing is assumed of
  duplicates. `ReliableChannel`'s own fairness, that a message is delivered in
  the end, is what `ChannelFairSpec` shows to follow.
- `UdpConnection`: the same for timers and reliable pieces. Nothing is assumed of
  `Disconnect`, which is sent three times and never acknowledged, of the other raw
  packets, or of the owners: they need not send, and need not disconnect.
- `InputWait`: the poll loop runs as long as the peer waits.
- `SmartSocket`: a socket that connects succeeds or fails, as each of them has a
  timeout of its own; the timer of the attempt fires once it is running. Nothing is
  assumed of the relays' answers.
- `RollbackSync`, `NetplaySession`, `NetplaySetup` and `Spectators` assume
  none. What must not stop there is stated of a state: `ResendEndsWait` (of two
  waiting peers, one gets on with the window the other would send now),
  `NoMutualWait` (one of two connected peers does not wait, or what is under way and one
  window sent again end its wait), `MenuEnds` (a choice that the other peer has sent is
  known or under way), `NobodyHangs` (when nothing more is going to happen, each client
  is in the game, has stopped, or wanted to watch and lost its control connection).

## 5. What is proved

The theorems hold for every value of the constants that satisfies the ASSUMEs of
the modules: any number of messages, pieces, duplicates, frames, presses,
changes, slots, any window and game. Their hypotheses are in their statements.

**The link** (`GoBackNLink_proofs`). `Inductive` is `TypeOK`, `UnackedIsTimed` and, for each
direction, `Direction`: the history of pieces is numbered and lists message
after message; the send list is the end of it; what the receiver has lies
between the pieces acknowledged and those created; every data packet under way is a
piece of the history; no acknowledgement under way is above what was received; the
receiver's buffer holds the pieces of the one incomplete message, and it
has delivered the messages before. `UnackedIsTimed` needs nothing else, but the
properties on messages are not inductive alone: `InOrderDelivery` says nothing of the buffer,
`AckedWasReceived` nothing of acknowledgements on their way. From
`LinkInductive` follow `LinkTypeOK`, `LinkUnackedIsTimed`, `LinkInOrderDelivery`,
`LinkReceivedIsDelivered`, `LinkAckedWasReceived`, `LinkSendListIsWindow`,
`LinkReassemblySucceeds`, the action property `LinkWindowSlides`, and
`LinkIsReliable`: every step of the link is a step of `ReliableChannel` or a
stutter. The proof goes by action, and within one by direction: a packet that p
receives changes p's two roles, and lemmas `DirectionSends`, `DirectionAcknowledges`,
`DirectionReceives` treat each role once.

**The connections** (`UdpConnection_proofs`). `UdpInv` says of each socket that it
`SocketHolds`: its endpoint is `Sound`, and nothing of it is left to resend when it is
closed. A sound endpoint has its resend cursor within the send list, which is numbered without a
gap up to the last piece created; without the numbers, an acknowledgement could
be shown to shorten the list but not to take a prefix of it. `UdpTypeCorrect` and
`ClosedStaysSilent` follow. `NoneAcceptedAlone` needs `HandshakeOf`: whoever finds a
ConnectFinal, on its way or kept by the client to be resent, finds a client that is or was
connected; a client is never connecting again. No assumption is made of the network.
`StreamsStayIntact` adds `StreamInv`. As long as a client was given at most one child, a number
stands for one message of a side (`ClientWord`, `ChildWord`: the handshake, then the owner's
messages), wherever a piece with that number is; and the state of a socket, what it sent
and what its owner read determine its sequence numbers (`ClientGot`, `ChildGot`). The
handshake and the owners share one numbering, so that an owner's first message cannot overtake
the ConnectFinal, and a late ConnectReply cannot be taken for one.

**The round** (`RollbackSync_proofs`). `TypeCorrect` needs, beyond `TypeOK`, that the saved
states are in ascending order and before the current frame, that there is always
one to load (`SavedBefore`, `SavedNow`), and that each frame got one input
(`PlayedEach`); otherwise the sequence that `RollBack` cuts would be too short.

`KnownIsActualInFittingRounds` says that no guess is ever taken for an input, whatever the
network loses, in a behaviour whose players never set a rollback above `TopRollback` or a
delay above `TopDelay` (`[]WithinTop`), for any two numbers with

    WindowFits == 2 * TopRollback + 2 * TopDelay + 2 <= NumInputs.

Of the settings that the program offers, up to `MaxRollback` and `MaxDelay`, it thus separates
those for which 30 inputs are enough from those for which they may not be (section 6): nothing
is assumed of the constants of the module. The argument: a peer that still follows the other is at most `TopRollback`
frames ahead of what it knows (`RunBound`), so it has recorded at most
`TopRollback + TopDelay + 1` inputs beyond that (`OwnBound`). This holds for both
peers, and what one knows the other has recorded (`KnownOf`); so the inputs of
one that the other does not know are at most twice as many (`WindowBound`), and a
window that long leaves no gap. `AheadOfLeft` is needed because a peer that
has seen the other in a later state no longer waits: nobody then reads its
inputs. The condition is tight: with `NumInputs` one less, TLC finds a gap (for
instance with rollbacks of 1, no delay and `NumInputs` 3). In terms of the
program's 30 inputs it allows a rollback of at most 5 if delays may be up to 9,
and of at most 14 without delay.

`OneResendEndsWait` has no such hypothesis. A peer has recorded its inputs at least up
to the frame it is in (`CoversInv`), so of two peers that wait, the one at the earlier
frame gets on with the window of the other (`EarlierIsServed`).

**The repair** (`RollbackSync_proofs`). `MispredictionsAreRepaired` shows `PastIsRepaired`
under a condition on the behaviour rather than on the constants: `[][NeverLowered]_vars`,
no Alt + Number lowers the spacing of the rollbacks during the round (section 6 says what
happens otherwise). `RepairInv` says that what the game was given differs from
what is known only after the last changed frame (`RepairsOf`) and not at all when the
countdown is over (`LookedOf`), that the countdown does not exceed the spacing
(`TimerOf`), and that the state of the first frame is never given up (`FirstOf`), without
which a rollback might load a state after the changed frame. The two lemmas that carry it:
a packet changes what is known of a frame only if it contradicts that frame or one
before it (`ReceivedContradicts`), and the state loaded is not after the last
changed frame (`LoadsNotAfter`). A game that always keeps its first state can repair
everything; the pool decides only how much is played again.

**The end of the round** (`RollbackSync_proofs`, last part). `RoundEndsOnRealInputs` shows `RoundEndIsReal`
of the same fitting rounds, under `[][NeverLowered]_vars`, `[][NotRaisedAtEnd]_vars` (no
Alt + Number raises the rollback once the round-over timer counts; before, it may) and

    DelayFits == \A r \in 1 .. MaxRollback : Spacing(r) <= RoundOverDelay + 1,

which the code's spacing of at most 4 and delay of 5 satisfy. `EndInv` follows one frame that
ended the round while the timer runs: it is settled (everything up to it is known and was given as
it is), or it is known and the next look for a rollback comes before the timer is out
(`UntilLook`), or it is not known yet and the timer will not be out before it is and a look has
come (`InTime`). Waiting for inputs turns the third into the second (`PlayEnd`), a look turns the
second into the first, as what is left to repair forces a rollback (`UnsettledChanged`), and a rollback
leaves only settled ends (`RollBackEnd`). `DelayFits` is tight: with `StartRollback` 1,
`RoundOverDelay` 0 and two presses each, TLC finds a round left on a guess that was contradicted one
frame before the next look. `NotRaisedAtEnd` is needed as well (section 6).

**The wait** (`FrameStep_proofs`). `AlwaysResentInTime` holds whenever a poll is
not longer than the resend interval. `ConnectedNeverStops` holds under

    PollsEndFirst == DisconnectTimeoutFrames * PollTimeout
                       < (MaxWaitInputsInterval \div ResendInputsInterval + 1) * ResendInputsInterval,

which the code's 600 * 3 < 10100 satisfies. It needs `PollsCounted`: the
polls since the wait began, each of them one timeout long, are what the count of
polls without data says, so that the resends cannot run ahead of it.

**The session** (`NetplaySession_proofs`). `TypeCorrect` and `WindowAlwaysCurrent` need no
hypothesis. `TypeInv` is inductive: `PeerOK` bounds the number of indexes of a peer's own
history by the indexes since `_startIndex` (`Extent` says how `set`, `resize` and
`eraseIndexOlderThan` change it), and `OwnIsCurrent` says that after each frame
the history reaches the peer's index, with at least one frame. The window would be
labelled wrongly if a transition could leave the history behind, or if the
messages of a peer that is ahead could erase or extend it: a transition forgets (`Forgotten`)
exactly as many indexes as `_startIndex` moves on, and the frame it ends in records an
input (`Pressed`) before the window is taken.
The lemmas on `InputsContainer` (`ResizeFields`, `SetFields`, `SetWindowFields`,
`EraseFields`) say for every history what each operation leaves alone.

**The smart sockets** (`SmartSocket_proofs`). `TypeCorrect` has no hypothesis beyond those on
the constants. That a client whose tunnel is being connected has a match depends on what
is on its way: the relay tells of the other end's hole only in a match, a match names
only clients that are connected to the relay and were told of it (`RelayInv`), and
they are told of the match first (`Told`). A relay forgets whoever leaves it at once
(`BecomesInv`); that is what the relay's own TCP connection gives it.
`MatchesAreTheSame` shows `SameMatch` whichever connections to a relay break. What the host keeps
may be of a match of the relay it has left; but before it reads of a hole for an id it has replaced
that (`HostHolds`, `MatchesHold`): a relay tells of a hole only for a match it still has to tell the host
of, and the MatchInfo of that match, which drops what the host kept under its id, is in the inbox
before it (`Ready`). `NoCoincidence`, the hypothesis within `SameMatch`, is needed: without it
TLC finds a client that still sends to the next relay what it opened for match 1 of the last one,
where match 1 is another client's.

**The set-up** (`NetplaySetup_proofs`). `TypeCorrect`, `OneGameOnly`, `TermsAreTheSame` and
`NobodyIsLeftWaiting` have no hypothesis beyond the ASSUME: any number of clients of any role, pings and accidents. The properties
are far from inductive, as what makes them hold is on its way in the queues. `Good` is
the invariant of the first three. `Typed` says that every end of a connection belongs to an application that
runs and that nothing is queued for an end that is gone. `Stages` says where a client is in the
protocol: at each point one thing carries it on (a PingStats message, a pinger that
runs, the user who is asked), and there is never a second one, so that no statistics come
twice or after the user was asked. `Single` says that the messages that matter are sent
once, `Deal` that a configuration exists only after the host's user agreed, and `Figures`
that the host's samples and the client's, wherever they are by now, add up to what each side
has. Pongs that arrive late are the danger: a host counts them as long as its own pinger
is on, and `Figures` ties the message to the samples that are frozen when it stops. Most
handlers only take something away (a socket closed, an application stopped, a
message read): `Calm` says so once, `CalmKeepsGood` shows that the invariant stands, and only
the dozen changes that carry a client on (`HostChooses`, `HostPingsNow`, `HostTellsStats`,
`ClientTakesStats`, ...) are shown one by one.

`NobodyHangs` needs the converse: `Good` says that there is never a second thing that carries a
client on, and `Hope` that there is always one. It has two parts for each client. `Steady` holds
whatever fails: an end of a connection that has lost the other one is told so (`Noticed`), a
client that runs holds its ends and waits for no connection that nothing announces (`Attached`), the
host's ends are those of clients it knows of or is about to hear of (`Known`), and a client that the
host has not looked at has done nothing yet (`Early`). `Driven` holds as long as the control
connection is sound: a client that was not looked at has its connection, its VersionConfig or its
InitialConfig under way (`Begun`), and the one that the host has chosen has what comes next
(`Carried`): the InitialConfigs until it connects, then a pinger or the PingStats, then the users'
answers and the NetplayConfig. The delicate point is the first of these: the host sends an
InitialConfig of its own and answers the client's with another, and the client acts on the second one
only, so that two of them must still be under way while neither was read. `HopeIsFulfilled` then
takes a client that still runs when nothing is going to happen: its connection has no message left,
so it is sound, and `Driven` names something that is. TLC checked `Hope` as an invariant of the
instance of the `setup` run before it was proved.

**The pool** (`FrameStep_proofs`), of the behaviours in which no new connection starts on what a
round lost in its middle left (`[][RenewsEmpty]_vars`; section 6 says what one that does meets). The loss
itself is among the behaviours, and so are the rounds after it. `PoolInv`
is `TypeOK`, `SharesInv`, `PhaseInv`, `FramesInv` and `OrderInv`.
`SharesInv` says that free stack and list of states, taken together, name each
slot once while a round with rollback lasts, and are empty otherwise; it is
stated of positions (`Shared`), as saving, evicting and rolling back move slots
from one to the other at several places. `PhaseInv` says where within a frame and a
rollback the round stands; `FramesInv` that the saved frames are past ones and that a
rollback finds one to load; `OrderInv` that they ascend, without which a rollback
could keep a state newer than the one it loaded. `PoolTypeCorrect`, `NoSlotIsLost` and the refinement
`PoolKeepsPromise` follow: each step maps to one of `SavedStates` or a stutter,
as what a slot holds is written only while it is on the free stack.

**Checked by TLC only.** Liveness under fairness, and what rests on ENABLED, is
out of the proof system's reach: `ConnectSettles`, `GoneIsNoticed`, `WaitEnds`,
`ClientSettles`, and that the link implements the fairness of `ReliableChannel`.
The properties of `Spectators` are not theorems: that a spectator is kept depends on how long
the states of the game last (section 6), so that they hold on the instances above and not for
every value of the constants. Nor are those of `NetplaySession` that compare the two peers
(`SamePath`, `SameFrames`, `RngSlotIsFilled`, `MenuEnds`, `NoMutualWait`): a burst of losses longer
than the delay breaks them (section 6), so that they too hold on the instance only.

## 6. Where the code and its documents disagree

With a run:

1. **The client connects to port 0** (`setup_port`). The host opens
   `serverDataSocket` and stores its port in `initialConfig.dataPort`
   (`MainApp.cpp:477`), then clears it in `gotVersionConfig` (line 488), where a
   comment says that the host will tell the correct one; it is the host that runs
   this line, and nothing sets the port again. `NetplaySetup` has the assignment as
   the constant `PortCleared`; the `setup` run takes it out, to see the
   rest of the protocol.
2. **A lost direct connection is not reported** (`smart_loss`). `SmartSocket.cpp:274`
   asks `gotGoodRead()` of the `SmartSocket`, whose flag is never set, as the direct
   socket does the reading. The client takes the loss of an established connection
   for a failure to connect, goes to the relays while it stays `Connected`, and
   its owner is not told, not even after the last relay. The other models let the data socket of
   a client report its loss, as that of a host does.

Seen while modelling, without a run; each can be reproduced by the change named:

- **The window is too short for the settings offered.** The change log offers
  rollbacks up to 15 and `NUM_INPUTS` is 30 (`Constants.hpp:10`). If one peer's
  datagrams are lost for as long as both can go on, the next window to arrive
  starts after the last input known; `InputsContainer::resize` fills the gap with
  the last input, later windows do not reach back to it, and the games diverge.
  `KnownIsActual` fails with `NumInputs` below `WindowFits`.
- **Lowering the rollback may stop all rollbacks.** Alt + Number recomputes
  `minRollbackSpacing` but not `rollbackTimer`, which is compared with it for
  equality (`DllMain.cpp:841`). From 3 to 2 the timer stays above the spacing and
  mispredictions are not repaired for the rest of the round: `PastIsRepaired` with
  `StartRollback` and `MaxRollback` 3.
- **Raising the rollback may end the round on a guess.** The round-over timer starts at
  `getRollback()` + 5 (`DllMain.cpp:1458`) and is not extended when Alt + Number then raises the
  rollback, so that it may run out before the inputs of the deciding frame are known:
  `RoundEndIsReal` with `StartRollback` 2, `MaxRollback` 4, `NumInputs` 12 and `MaxFrame` 9.
- **Ten seconds are 1.8.** `DISCONNECT_TIMEOUT_FRAMES` = 600 is commented as ten
  seconds of frames; it counts polls of 3 ms within one frame
  (`DllMain.cpp:215,687`). This is why `PollsEndFirst` holds, and
  `MAX_WAIT_INPUTS_INTERVAL` is not reached while the socket is connected.
- **A lost connection leaves the pool allocated.** `restoreOfflineGameMode` zeroes
  `config.rollback` during the round, so that leaving the round skips
  `deallocateStates` (`DllMain.cpp:1272`); after a new connection `allocateStates`
  pushes all slots again. `RenewsLost = TRUE` violates `EverySlotOnce`.
- **A client on its own may wait for ever.** `isF1Active` is set on every client
  (`DllMain.cpp:2379-2382`), so that `restoreOfflineGameMode` is skipped when its data socket is
  lost, and `isRngStateReady` wants the host's RngState in every later `CharaSelect` and
  `InGame`. After a plain disconnection the resends end that wait, and the game ("Timed out!").
  After 600 polls without data `isDisconnecting` is set as well, which makes `delayedStop` do
  nothing (`DllMain.cpp:1407`): such a client waits for ever, although `DllMain.cpp:692-694`
  say that the "game should unfreeze". `WaitEnds` leaves out just this case,
  and fails without that.
- `frameStepRerun` saves no states, so that rollbacks in quick succession load
  the same old state and rerun more and more frames.
- A peer that has seen the other in a later state stops waiting, and its
  `getInput` may be a guess. If rollback plus delay exceed
  `ROLLBACK_ROUND_OVER_DELAY` - 1 and it missed the deciding inputs, it plays on in a
  round that is over for the other. Without rollback, `SameFrames` fails if a peer can send
  more than its delay of frames between two polls of the other (`MaxBurst` 2, delay 1).
- A host's disconnection in `Loading`, `CharaIntro` or `Skippable` closes its game, although
  `DllMain.cpp:1625` logs a transition to training.
- A child that is still connecting ignores `Disconnect`; it is closed by its
  keep-alive. A late copy of `ConnectRequest` after its child was closed opens another
  child, whose keep-alive keeps the client from noticing: hence the second disjunct
  of `GoneIsNoticed`.
- Set-up: a client that wants to watch and loses its control connection before the game is
  opened sends the game an ErrorMessage and runs on (`MainApp.cpp:1240-1245`); `NobodyHangs` fails
  without its exception. `socketRead` takes messages of any pending client, and the stale client's
  data socket may be accepted by a `serverDataSocket` opened for another; answers to
  a ping that come after the end are counted (`Pinger.cpp:90`); the user interface
  sets `userConfirmed` before its message is handled.
- Spectators: each round of the list sets `preserveStartIndex` to the least position of those it
  has counted (`DllSpectatorManager.cpp:154`), UINT_MAX after the first of all, whoever has joined
  in the meantime. If `Loading` comes before a whole round has counted a spectator, the inputs it
  needs may be erased, and the ASSERT at `DllNetplayManager.cpp:950` fails: `SpectatorIsKept`
  with `Watchers` for `InTime`. A
  spectator that joins in a later character select starts at index 1; from 46 spectators
  on the interval is 0 and the modulo a division by zero; `popSpectator` may run from a
  failing send inside `frameStepSpectators`.
- Smart sockets: the connect timer is started again when a connected client loses its
  relay and the next one connects, and then closes the established tunnel (hence no
  break of a "Connected" one in the run); `gotMatch` of the next relay replaces a live `_tunSocket`; every relay
  numbers its matches from 1, so that the id of a client that stays with the last match
  of its old relay while the host is already at the next one may name another client's there:
  `SameMatch` fails without `NoCoincidence`; a key left in `_pendingTimers` keeps the send timer
  running; after the last relay, `_vpsAddress` is past the end when
  `SmartSocket.cpp:403` asserts that it is not.

## 7. What is left

In order of what would add most:

1. Rollback within `NetplaySession`: its `Frame` replaced by the steps of `RollbackSync`.
   The product is beyond TLC with the bounds above, so it has to come with a refinement.
2. The redirection of spectators and spectators of spectators; the RngState of the
   character intro.
3. The iteration of `TimerManager` and `SocketManager` over what callbacks change: the
   interesting case is an address that the allocator gives out again.

## 8. Not modelled

- In the modules above: the wrap of sequence numbers and frame counters at 2^32, the
  sound-effect history and the replay tables of the rollback manager,
  `UdpSocket::share` and the copy of endpoints, the F1 menu's hand-over of a connection,
  broadcast and offline modes, and what section 2 names for each module.
- TCP sockets, byte encoding, compression and checksums: a corrupt packet counts as a
  lost one. Named pipes, process creation and hooks in the game: input and output
  without a protocol.
- Most of the repository by size: menus and drawing (`MainUi`, `Dll*Ui`, the overlay),
  controllers and keyboards, palettes, replays and trials, file formats, clients of web
  services, plugins, vendored libraries. It reacts to one user on one
  thread, keeps no state that another component relies on, and what could be wrong in
  it is the content of a screen or a file rather than an order of events.

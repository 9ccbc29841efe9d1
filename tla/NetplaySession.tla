--------------------------- MODULE NetplaySession ---------------------------
(***************************************************************************)
(* A netplay session of two peers without rollback: NetplayManager, and    *)
(* DllMain's frameStep, netplayStateChanged and socket callbacks.          *)
(*                                                                         *)
(* Each peer runs its own copy of the game.  A change of the game's scene  *)
(* moves NetplayManager to its next state, and the peer announces the      *)
(* index it reached with a TransitionIndex.  In CharaSelect and InGame     *)
(* the peers run in lockstep: a frame is played when the remote input for  *)
(* it is there, and the host's RngState at the start of the state.  In     *)
(* the other states a peer runs on its own.                                *)
(*                                                                         *)
(* TransitionIndex, MenuIndex and RngState are reliable and ordered.       *)
(* PlayerInputs are plain datagrams: they can be lost, and can overtake    *)
(* the reliable messages sent before them, but not each other.             *)
(*                                                                         *)
(* The game is external.  Character select ends in the frame in which      *)
(* both players press, a round in the one in which either player hits; a   *)
(* round both win is played again.  In training a press opens the retry    *)
(* menu.                                                                   *)
(***************************************************************************)
EXTENDS InputHistory, SequencesExt

CONSTANTS
    Host, Client,     \* the two peers
    Delays,           \* the delays a player may set, config.delay
    MaxBurst,         \* how many PlayerInputs in a row the network may lose
    MaxInFlight,      \* bound: a frame ends when fewer messages are on their way
    MaxFrame,         \* bound: by this frame of an index the players have pressed
    MaxIndexVersus,   \* bound: transitions played in versus mode
    MaxIndexTraining, \* and in training mode; 0 not to play the mode
    MaxIndexLost      \* bound: the last index in which the data socket disconnects

ASSUME SessionAssumption ==
    /\ Host # Client
    /\ Delays \subseteq Nat /\ Delays # {}
    /\ MaxBurst \in Nat /\ MaxInFlight \in Nat /\ MaxFrame \in Nat
    /\ MaxIndexVersus \in Nat /\ MaxIndexTraining \in Nat /\ MaxIndexLost \in Nat

VARIABLES
    peer,     \* [Peers -> the state of DllMain and NetplayManager]
    inbox,    \* [Peers -> messages on their way to the peer, in the order sent]
    burst,    \* [Peers -> how many of the last PlayerInputs sent were lost]
    log       \* history: [Peers -> for each index, its state and the frames played,
              \* up to the disconnection of the peer]

vars == <<peer, inbox, burst, log>>

MaxIndex == IF MaxIndexVersus > MaxIndexTraining THEN MaxIndexVersus ELSE MaxIndexTraining

Peers == {Host, Client}
Other(p) == IF p = Host THEN Client ELSE Host

None == -1
NoScene == "none"

\* An RngState is named by the index for which the host took it.
OwnRng(p) == IF p = Host THEN -1 ELSE -2

-----------------------------------------------------------------------------
(* NetplayManager.                                                         *)

\* isValidNext
ValidNext ==
    [Initial     |-> {"AutoCharaSelect", "CharaSelect", "ReplayMenu"},
     CharaSelect |-> {"Loading"},
     Loading     |-> {"Skippable", "CharaIntro", "InGame"},
     CharaIntro  |-> {"InGame"},
     Skippable   |-> {"InGame", "RetryMenu"},
     InGame      |-> {"Skippable", "CharaSelect", "ReplayMenu", "RetryMenu"},
     RetryMenu   |-> {"Loading", "CharaSelect", "ReplayMenu"}]

\* Entering Loading drops what is older, and the decision of the retry menu.
\* Nobody watches here, so that preserveStartIndex does not hold it back.
Forgotten(r) ==
    LET offset == r.index - r.startIndex IN
    IF offset = 0 THEN [r EXCEPT !.localMenu = None, !.remoteMenu = None]
    ELSE [r EXCEPT !.own = EraseIndexOlderThan(@, offset),
                   !.remote = EraseIndexOlderThan(@, offset),
                   !.rngStates = SubSeq(@, offset + 1, Len(@)),
                   !.startIndex = r.index,
                   !.localMenu = None, !.remoteMenu = None]

\* Wrong: the answers are dropped when the retry menu is entered.
SetStateDropped(r, state) ==
    LET t == [r EXCEPT !.index = @ + 1, !.frame = 0, !.target = None, !.state = state] IN
    IF state = "Loading" THEN Forgotten(t)
    ELSE IF state = "RetryMenu" THEN [t EXCEPT !.localMenu = None, !.remoteMenu = None]
    ELSE t

\* setState
SetState(r, state) ==
    LET t == [r EXCEPT !.index = @ + 1, !.frame = 0, !.target = None, !.state = state] IN
    IF state = "Loading" THEN Forgotten(t) ELSE t

\* setInput: the input of this frame takes effect after the delay, except in
\* the retry menu.
SetInput(r, input) ==
    LET f == IF r.state = "RetryMenu" THEN r.frame ELSE r.frame + r.delay IN
    [r EXCEPT !.own = Set(@, r.index - r.startIndex, f, input)]

\* getInputs: the window is labelled with the newest index of the history.
GetInputs(r) ==
    LET end == NewestEndFrame(r.own) - 1 IN
    [type |-> "PlayerInputs", index |-> r.index, start |-> StartFrame(end),
     inputs |-> Window(r.own, r.index - r.startIndex, StartFrame(end), Size(end))]

\* setInputs
SetInputs(r, msg) ==
    IF msg.index + 1 < r.index \/ msg.index < r.startIndex THEN r
    ELSE [r EXCEPT !.remote = SetWindow(@, msg.index - r.startIndex, msg.start, msg.inputs)]

\* setRemoteIndex
SetRemoteIndex(r, msg) ==
    IF msg.index < r.startIndex THEN r
    ELSE [r EXCEPT !.remote = Resize(@, msg.index - r.startIndex, 0, 0)]

\* setRngState: a slot of an index without an RngState stays empty.
SetRngState(r, rng) ==
    LET slot == rng - r.startIndex + 1 IN
    IF r.offline \/ rng < r.startIndex THEN r
    ELSE [r EXCEPT !.rngStates =
            [k \in 1 .. IF slot > Len(@) THEN slot ELSE Len(@) |->
               IF k = slot THEN rng ELSE IF k <= Len(@) THEN @[k] ELSE None]]

RngSlot(r) == r.index - r.startIndex + 1

\* Wrong: an older RngState will do.
RngStateReadyAny(p, r) == p = Client /\ r.shouldSync => r.rngStates # << >>

\* isRngStateReady looks at the number of RngStates only.
RngStateReady(p, r) ==
    \/ ~r.shouldSync \/ p = Host \/ r.offline \/ r.state = "Initial"
    \/ r.rngStates # << >> /\ Len(r.rngStates) >= RngSlot(r)

Lockstep == {"CharaSelect", "InGame"}

\* Wrong: one frame too early.
RemoteInputReadyEarly(r) ==
    \/ r.disconnected \/ r.state \notin Lockstep
    \/ r.startIndex + EndIndex(r.remote) - 1 > r.index
    \/ /\ r.startIndex + EndIndex(r.remote) - 1 = r.index
       /\ NewestEndFrame(r.remote) >= r.frame

\* Wrong: a remote player who is ahead is waited for.
RemoteInputReadySame(r) ==
    \/ r.disconnected \/ r.state \notin Lockstep
    \/ /\ r.startIndex + EndIndex(r.remote) - 1 = r.index
       /\ NewestEndFrame(r.remote) > r.frame

\* isRemoteInputReady: a remote player who is ahead is not waited for.
RemoteInputReady(r) ==
    \/ r.disconnected \/ r.state \notin Lockstep
    \/ r.startIndex + EndIndex(r.remote) - 1 > r.index
    \/ /\ r.startIndex + EndIndex(r.remote) - 1 = r.index
       /\ NewestEndFrame(r.remote) > r.frame

Ready(p, r) == RemoteInputReady(r) /\ RngStateReady(p, r)

-----------------------------------------------------------------------------
(* DllMain.                                                                *)

\* delayedStop
Stop(r) == [r EXCEPT !.stopped = TRUE]

\* netplayStateChanged.  A data socket lost in the retry menu is forgiven until
\* the menu is left.
NetplayStateChanged(r, state) ==
    LET lazy == r.lazy /\ r.state \notin {"Skippable", "CharaIntro"}
        t == [r EXCEPT !.lazy = FALSE,
                       !.shouldSync = @ \/ state \in Lockstep]
    IN  IF state \notin ValidNext[r.state] THEN Stop(r)
        ELSE IF state = "RetryMenu"
          THEN SetState([t EXCEPT !.lazy = TRUE, !.menuSent = FALSE], state)
        ELSE IF lazy /\ ~r.connected THEN Stop(t)
        ELSE SetState(t, state)

\* What the change monitor reports at the start of a frame.
Changed(r) ==
    CASE r.scene = NoScene     -> r
      [] r.scene = "IntroDone" -> [r EXCEPT !.shouldSync = TRUE]
      [] OTHER                 -> NetplayStateChanged(r, r.scene)

Announced(r, t) ==
    IF t.index # r.index THEN <<[type |-> "TransitionIndex", index |-> t.index]>> ELSE << >>

\* socketRead
SocketRead(r, msg) ==
    CASE msg.type = "PlayerInputs"    -> SetInputs(r, msg)
      [] msg.type = "TransitionIndex" -> SetRemoteIndex(r, msg)
      [] msg.type = "RngState"        -> SetRngState(r, msg.index)
      [] msg.type = "MenuIndex"       -> [r EXCEPT !.remoteMenu = msg.menu]

\* Wrong: the option of the retry menu is sent before it is chosen.
OutgoingUnchosen(p, r) ==
    (IF r.state = "RetryMenu" /\ ~r.menuSent
       THEN <<[type |-> "MenuIndex", index |-> r.index, menu |-> r.localMenu]>> ELSE << >>)
    \o (IF p = Host /\ r.shouldSync /\ r.state # "RetryMenu"
          THEN <<[type |-> "RngState", index |-> r.index]>> ELSE << >>)

\* What r sends, besides its inputs, in frameStepNormal.
Outgoing(p, r) ==
    (IF r.state = "RetryMenu" /\ r.localMenu # None /\ ~r.menuSent
       THEN <<[type |-> "MenuIndex", index |-> r.index, menu |-> r.localMenu]>> ELSE << >>)
    \o (IF p = Host /\ r.shouldSync /\ r.state # "RetryMenu"
          THEN <<[type |-> "RngState", index |-> r.index]>> ELSE << >>)

\* The state of a peer after it sent that.  In the retry menu the frame ends
\* early, and with the data socket gone it ends the session once an option is chosen.
Sent(p, r) ==
    IF r.state = "RetryMenu"
      THEN IF r.localMenu # None /\ ~r.connected
             THEN IF r.lazy THEN Stop([r EXCEPT !.lazy = FALSE]) ELSE r
             ELSE [r EXCEPT !.menuSent = @ \/ r.localMenu # None]
      ELSE IF p = Host /\ r.shouldSync
        THEN [SetRngState(r, r.index) EXCEPT !.shouldSync = FALSE, !.rng = r.index]
      ELSE r

-----------------------------------------------------------------------------
(* The game and its players.                                               *)

\* What the player of r may press in this frame; elsewhere presses do nothing.
\* (Bound: at character select they press at once.)
Presses(r) ==
    CASE r.state = "CharaSelect" -> {1}
      [] r.state = "InGame" /\ r.frame + r.delay < MaxFrame -> {0, 1}
      [] r.state = "InGame" /\ r.frame + r.delay >= MaxFrame -> {1}
      [] OTHER -> {0}

\* getInput for the two players, the host's first.  A remote player who is gone
\* does nothing.
Inputs(p, r) ==
    LET mine == Get(r.own, r.index - r.startIndex, r.frame)
        theirs == IF r.disconnected /\ r.state # "CharaSelect" THEN 0
                  ELSE Get(r.remote, r.index - r.startIndex, r.frame)
    IN  IF p = Host THEN <<mine, theirs>> ELSE <<theirs, mine>>

\* The scene after a frame played with these inputs, unless one was asked for.
NextScene(r, in) ==
    IF r.scene # NoScene THEN r.scene ELSE
    CASE r.state = "CharaSelect" /\ in = <<1, 1>> -> "Loading"
      [] r.state = "Loading" -> IF r.versus THEN "CharaIntro" ELSE "InGame"
      [] r.state = "CharaIntro" -> IF r.frame = 0 THEN "IntroDone" ELSE "InGame"
      [] r.state = "InGame" /\ in # <<0, 0>> -> IF r.versus THEN "Skippable" ELSE "RetryMenu"
      [] r.state = "Skippable" -> IF r.draw THEN "InGame" ELSE "RetryMenu"
      [] r.state = "RetryMenu" /\ r.target = 0 -> "Loading"
      [] r.state = "RetryMenu" /\ r.target = 1 -> "CharaSelect"
      [] OTHER -> NoScene

\* Wrong: each peer follows its own player.
MenuInputOwn(r, choice) ==
    IF r.localMenu # None /\ r.remoteMenu # None THEN [r EXCEPT !.target = r.localMenu]
    ELSE IF r.localMenu = None THEN [r EXCEPT !.localMenu = choice]
    ELSE r

\* getRetryMenuInput: the option is the greater one of those that both players
\* confirmed.  The player confirms the choice, None for not yet.
MenuInput(r, choice) ==
    IF r.localMenu # None /\ r.remoteMenu # None
      THEN LET most == IF r.localMenu > r.remoteMenu THEN r.localMenu ELSE r.remoteMenu IN
           [r EXCEPT !.target = IF most > 1 THEN 1 ELSE most]
    ELSE IF r.localMenu = None THEN [r EXCEPT !.localMenu = choice]
    ELSE r

\* The client takes the host's RngState, if there is one for this index.
Synced(p, r) ==
    [r EXCEPT !.shouldSync = FALSE,
              !.rng = IF /\ r.shouldSync /\ ~r.offline
                         /\ Len(r.rngStates) >= RngSlot(r) /\ r.rngStates[RngSlot(r)] # None
                        THEN r.rngStates[RngSlot(r)] ELSE @]

\* The frame is played.  (Bound: outside lockstep, frames after the first are not
\* told apart.)
Played(r, in, choice, delay) ==
    LET t == IF r.state = "RetryMenu" /\ r.target = None THEN MenuInput(r, choice) ELSE r IN
    [t EXCEPT !.frame = IF r.state \in Lockstep \/ @ = 0 THEN @ + 1 ELSE @, !.scene = NextScene(r, in),
              !.draw = IF r.state = "InGame" THEN in = <<1, 1>> ELSE @,
              !.delay = IF r.offline THEN 0 ELSE delay]

-----------------------------------------------------------------------------
(* Steps.                                                                  *)

MenuChoices(r) == IF r.state = "RetryMenu" THEN {0, 1} ELSE {None}
DelaysOf(r) == IF r.state \in Lockstep THEN Delays ELSE {r.delay}

\* The history, with the frames of r played and the state of s.  Frames of an
\* index that both peers left before are compared and forgotten.
Logged(p, frames, s) ==
    LET k == Len(log[p])
        added == IF frames = << >> THEN log[p] ELSE [log[p] EXCEPT ![k].frames = @ \o frames]
        mine == IF s.index = k THEN added ELSE Append(added, [state |-> s.state, frames |-> << >>])
        theirs == log[Other(p)]
        Kept(l) == [i \in DOMAIN l |->
                      IF i + 1 < Len(mine) /\ i + 1 < Len(theirs) THEN [l[i] EXCEPT !.frames = << >>] ELSE l[i]]
    IN  [q \in Peers |-> Kept(IF q = p THEN mine ELSE theirs)]

\* Bound: how far is played; alone, up to the next character select.
AtBound(r) ==
    \/ r.index >= IF r.versus THEN MaxIndexVersus ELSE MaxIndexTraining
    \/ r.disconnected /\ r.state = "CharaSelect" /\ r.scene = NoScene

Fresh(p, delay, versus) ==
    [versus |-> versus, state |-> "Initial", index |-> 0, startIndex |-> 0, frame |-> 0, delay |-> delay,
     own |-> << >>, remote |-> << >>, rngStates |-> << >>, shouldSync |-> FALSE,
     rng |-> OwnRng(p), localMenu |-> None, remoteMenu |-> None, target |-> None,
     menuSent |-> FALSE, lazy |-> FALSE, connected |-> TRUE, disconnected |-> FALSE,
     offline |-> FALSE, stopped |-> FALSE, scene |-> "CharaSelect", draw |-> FALSE]

\* The data sockets are connected, and the games are started.
Init ==
    /\ \E delay \in Delays, versus \in BOOLEAN : peer = [p \in Peers |-> Fresh(p, delay, versus)]
    /\ inbox = [p \in Peers |-> << >>]
    /\ burst = [p \in Peers |-> 0]
    /\ log = [p \in Peers |-> << >>]

\* p sends reliable messages, then its inputs, if any, which may be lost, and
\* then the rest.  (Bound: only inputs of lockstep states, those that are played,
\* are lost.)
Send(p, first, window, last) ==
    LET Deliver(msgs) ==
          inbox' = IF peer[p].connected /\ peer[Other(p)].connected
                     THEN [inbox EXCEPT ![Other(p)] = @ \o msgs] ELSE inbox
    IN  IF window = << >> THEN Deliver(first \o last) /\ UNCHANGED burst
        ELSE \/ Deliver(first \o window \o last) /\ burst' = [burst EXCEPT ![p] = 0]
             \/ /\ burst[p] < MaxBurst /\ peer'[p].state \in Lockstep
                /\ Deliver(first \o last) /\ burst' = [burst EXCEPT ![p] = @ + 1]

\* What the peer is after the frame it is in: played with the inputs in, the
\* player of the retry menu making choice, and the delay then set.
AfterFrame(p, in, choice, delay) == Played(Synced(p, peer[p]), in, choice, delay)

\* The next frame of r, in which its player presses input.
Pressed(p, r, input) ==
    LET s == [r EXCEPT !.scene = NoScene, !.rng = IF r.state \in Lockstep THEN @ ELSE OwnRng(p)]
    IN  IF r.state = "Initial" THEN s ELSE SetInput(s, input)

WindowOf(r) == IF r.state \in {"Initial", "RetryMenu"} THEN << >> ELSE <<GetInputs(r)>>

FramePlayed(r, in, rng) ==
    IF r.state \notin Lockstep THEN << >> ELSE <<[inputs |-> in, rng |-> rng]>>

\* From poll loop to poll loop: the rest of a frameStep, the frame of the game,
\* and the start of the next frameStep.
Frame(p) ==
    /\ ~peer[p].stopped /\ ~AtBound(peer[p])
    /\ Len(inbox[Other(p)]) < MaxInFlight
    /\ peer[p].lazy \/ Ready(p, peer[p])
    /\ \E in \in {Inputs(p, peer[p])}, rng \in {Synced(p, peer[p]).rng},
          choice \in MenuChoices(peer[p]), delay \in DelaysOf(peer[p]) :
       \E r \in {AfterFrame(p, in, choice, delay)} : \E s \in {Changed(r)} :
       \E input \in Presses(s) : \E t \in {Pressed(p, s, input)} :
         IF s.stopped
           THEN peer' = [peer EXCEPT ![p] = s] /\ UNCHANGED <<inbox, burst, log>>
           ELSE /\ peer' = [peer EXCEPT ![p] = Sent(p, t)]
                /\ Send(p, Announced(r, s), WindowOf(t), Outgoing(p, t))
                /\ log' = IF s.disconnected THEN log ELSE Logged(p, FramePlayed(peer[p], in, rng), s)

\* timerExpired: the inputs are sent again while the remote ones are waited for.
\* (Bound: not while a window that says the same is still on its way.)
Resend(p) ==
    /\ ~peer[p].stopped /\ ~peer[p].lazy /\ ~Ready(p, peer[p])
    /\ \A k \in DOMAIN inbox[Other(p)] : inbox[Other(p)][k] # GetInputs(peer[p])
    /\ UNCHANGED <<peer, log>>
    /\ Send(p, << >>, <<GetInputs(peer[p])>>, << >>)

\* A message arrives in the poll loop: the oldest one, or the oldest inputs
\* ahead of the reliable messages before them.
Deliver(p, k) ==
    /\ ~peer[p].stopped /\ peer[p].connected
    /\ k > 1 => /\ inbox[p][k].type = "PlayerInputs"
                /\ \A j \in 1 .. k - 1 : inbox[p][j].type # "PlayerInputs"
    /\ peer' = [peer EXCEPT ![p] = SocketRead(@, inbox[p][k])]
    /\ inbox' = [inbox EXCEPT ![p] = SubSeq(@, 1, k - 1) \o SubSeq(@, k + 1, Len(@))]
    /\ UNCHANGED <<burst, log>>

\* restoreOfflineGameMode: offline, without delay, and at character select.
RestoreOfflineGameMode(r) ==
    [r EXCEPT !.offline = TRUE, !.delay = 0,
              !.scene = IF r.state = "CharaSelect" THEN NoScene ELSE "CharaSelect"]

\* socketDisconnected, in the poll loop: unless it is in the retry menu, the peer
\* goes on alone.  A client has isF1Active, and stays a client, in the state,
\* with the delay and with the wait for an RngState that it has.
Disconnect(p) ==
    /\ peer[p].index <= MaxIndexLost
    /\ ~peer[p].stopped /\ peer[p].connected
    /\ LET r == [peer[p] EXCEPT !.connected = FALSE]
           alone == [r EXCEPT !.disconnected = TRUE]
       IN  peer' = [peer EXCEPT ![p] = IF r.lazy THEN r
                                       ELSE IF p = Host THEN RestoreOfflineGameMode(alone) ELSE alone]
    /\ inbox' = [inbox EXCEPT ![p] = << >>]
    /\ UNCHANGED <<burst, log>>

Next ==
    \E p \in Peers :
        \/ Frame(p) \/ Resend(p) \/ Disconnect(p)
        \/ \E k \in 1 .. Len(inbox[p]) : Deliver(p, k)

Spec == Init /\ [][Next]_vars

-----------------------------------------------------------------------------
(* Correctness.                                                            *)

InputsType == Seq(Seq({0, 1}))

MessageType ==
    [type : {"PlayerInputs"}, index : 1 .. MaxIndex, start : Nat, inputs : Seq({0, 1})]
    \cup [type : {"TransitionIndex", "RngState"}, index : 1 .. MaxIndex]
    \cup [type : {"MenuIndex"}, index : 1 .. MaxIndex, menu : {0, 1}]

PeerType ==
    [versus : BOOLEAN, state : DOMAIN ValidNext, index : 0 .. MaxIndex, startIndex : 0 .. MaxIndex,
     frame : Nat, delay : Delays \cup {0}, own : InputsType, remote : InputsType,
     rngStates : Seq(1 .. MaxIndex \cup {None}), shouldSync : BOOLEAN,
     rng : -2 .. MaxIndex, localMenu : {None, 0, 1}, remoteMenu : {None, 0, 1},
     target : {None, 0, 1}, menuSent : BOOLEAN, lazy : BOOLEAN, connected : BOOLEAN,
     disconnected : BOOLEAN, offline : BOOLEAN, stopped : BOOLEAN,
     scene : (UNION {ValidNext[s] : s \in DOMAIN ValidNext}) \cup {NoScene, "IntroDone"},
     draw : BOOLEAN]

\* Every variable has the shape of the members of DllMain and NetplayManager.
TypeOK ==
    /\ \A p \in Peers : peer[p] \in PeerType
    /\ \A p \in Peers : \A k \in DOMAIN inbox[p] : inbox[p][k] \in MessageType
    /\ burst \in [Peers -> 0 .. MaxBurst]

\* What getInputs asserts and takes for granted: whenever a peer sends a window,
\* the newest index of its own history is its current one, and not empty, so that
\* the frame and the index of the label belong together.
WindowIsCurrent ==
    \A p \in Peers :
        peer[p].state \notin {"Initial", "RetryMenu"} =>
            /\ peer[p].startIndex + EndIndex(peer[p].own) - 1 = peer[p].index
            /\ NewestEndFrame(peer[p].own) >= 1

Prefix(a, b) == Len(a) <= Len(b) /\ SubSeq(b, 1, Len(a)) = a
Agree(a, b) == Prefix(a, b) \/ Prefix(b, a)

\* The peers walk through the same states, index by index: no choice of the
\* retry menu, no round and no character select ends differently for the two.
SamePath ==
    LET States(p) == [i \in DOMAIN log[p] |-> log[p][i].state] IN
    Agree(States(Host), States(Client))

\* Frame by frame, both play the same inputs for both players from the same
\* RngState.
SameFrames ==
    \A i \in DOMAIN log[Host] \cap DOMAIN log[Client] :
        Agree(log[Host][i].frames, log[Client][i].frames)

\* When the client goes on because it has enough RngStates, the one for this
\* index is among them.
RngSlotIsFilled ==
    \A p \in Peers :
        LET r == peer[p] IN
        p = Client /\ ~r.stopped /\ ~r.disconnected /\ ~r.lazy
            /\ r.shouldSync /\ RngStateReady(p, r) =>
            RngSlot(r) \in DOMAIN r.rngStates /\ r.rngStates[RngSlot(r)] = r.index

\* Whether r gets on once it read everything on its way to it and, if it waits
\* for inputs, what q then sends again.
Unblocked(p, q) ==
    LET read == FoldLeft(SocketRead, peer[p], inbox[p])
    IN  \/ Ready(p, read)
        \/ /\ ~Ready(q, peer[q]) /\ Ready(p, SocketRead(read, GetInputs(peer[q])))

\* The peers never wait for each other: as long as both are connected, one of
\* them is not waiting, or what is on its way or sent again ends its wait.
NoMutualWait ==
    (\A p \in Peers : peer[p].connected /\ ~peer[p].stopped /\ ~AtBound(peer[p])) =>
        \E p \in Peers : peer[p].lazy \/ Unblocked(p, Other(p))

\* When both players answered the retry menu, both peers know or will be told
\* both answers: the menu is left by both.
MenuEnds ==
    \A p \in Peers :
        LET q == Other(p)
            told == FoldLeft(SocketRead, peer[p], inbox[p])
        IN  /\ peer[p].connected /\ peer[q].connected
            /\ peer[p].state = "RetryMenu"
            /\ peer[q].index >= peer[p].index /\ peer[q].menuSent
            => told.remoteMenu # None

=============================================================================

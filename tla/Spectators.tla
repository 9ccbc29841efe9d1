----------------------------- MODULE Spectators -----------------------------
(***************************************************************************)
(* A netplay game that is watched: SpectatorManager, the state that        *)
(* NetplayManager keeps for it, and the games of the spectators.           *)
(*                                                                         *)
(* A spectator starts at the beginning of the current game.  In turn, each *)
(* spectator is sent the next window of the inputs that both players gave, *)
(* and once, the RngState and the retry menu's outcome of the index it is  *)
(* at.  What the spectators still need is preserved when a new game starts.*)
(*                                                                         *)
(* The game watched is external: it goes through its states, knows the     *)
(* inputs of a frame of CharaSelect or InGame when it plays it, and keeps  *)
(* an RngState for those states.  The spectators' games run on their own,  *)
(* and end a state as the game watched did, given the same inputs.  The    *)
(* connections are TCP: messages arrive in order.                          *)
(***************************************************************************)
EXTENDS InputHistory, SequencesExt

CONSTANTS
    Sockets,          \* the sockets that spectators connect with
    MaxSpectators,    \* MAX_ROOT_SPECTATORS or MAX_SPECTATORS
    PreserveBuffer,   \* PRESERVE_START_INDEX_BUFFER
    Rollbacks,        \* whether the game is played with rollback
    FramesOf,         \* bound: [state -> how many frames it may last]
    JoinFrames,       \* bound: [state -> in which of its frames spectators join]
    MaxJoinIndex,     \* bound: and until which index
    MaxIndex,         \* bound: transitions played
    MaxInFlight       \* bound: a frame begins when fewer messages are on their way

States == {"CharaSelect", "Loading", "CharaIntro", "InGame", "Skippable", "RetryMenu"}
Lockstep == {"CharaSelect", "InGame"}

\* Number of times to broadcast per frame, and of frames between broadcasts.
Multiplier(n) == 1 + (n * 2) \div (NumInputs + 1)
Interval(n) == ((Multiplier(n) * NumInputs) \div 2) \div n

ASSUME SpectatorsAssumption ==
    /\ MaxSpectators \in Nat /\ PreserveBuffer \in Nat /\ Rollbacks \subseteq BOOLEAN
    /\ FramesOf \in [States -> SUBSET (Nat \ {0})] /\ \A s \in States : FramesOf[s] # {}
    /\ JoinFrames \in [States -> SUBSET Nat] /\ MaxJoinIndex \in Nat
    /\ MaxIndex \in Nat \ {0} /\ MaxInFlight \in Nat
    /\ \A s \in SUBSET Sockets : s # {} => Interval(Cardinality(s)) > 0

VARIABLES
    game,      \* the game watched and its NetplayManager
    pending,   \* the sockets accepted that have not said who they are
    stream,    \* SpectatorManager: the list of spectators, and what to preserve
    inbox,     \* [Sockets -> messages on their way to the spectator]
    viewer,    \* [Sockets -> the spectator's game and its NetplayManager]
    log        \* history: for each index, its state and how many frames it lasted

vars == <<game, pending, stream, inbox, viewer, log>>

UintMax == MaxIndex + PreserveBuffer + 1
Lesser(a, b) == IF a < b THEN a ELSE b

\* The inputs that both players gave for a frame, each named by the frame.
Input(i, f) == 1000 * i + f + 1

-----------------------------------------------------------------------------
(* The game watched.                                                       *)

\* Wrong: nothing is preserved.
StartIndexNow(g, i) == i

\* setState, entering Loading: what is older than this index is dropped, unless a
\* spectator needs it.
StartIndex(g, i) ==
    LET buffered == IF g.preserve = UintMax THEN UintMax
                    ELSE IF g.preserve <= PreserveBuffer THEN 0
                    ELSE g.preserve - PreserveBuffer
    IN  Lesser(buffered, i)

\* Entering a state.  A spectator added from now on starts at this index, if it
\* begins a character select or a game.
Entered(g, state) ==
    LET t == [g EXCEPT !.state = state, !.index = @ + 1, !.frame = 0,
                       !.spectateStart = IF state \in {"CharaSelect", "Loading"} THEN g.index + 1 ELSE @]
        start == StartIndex(g, t.index)
    IN  IF state # "Loading" \/ start <= g.startIndex THEN t
        ELSE [t EXCEPT !.startIndex = start,
                       !.inputs = EraseIndexOlderThan(@, start - g.startIndex),
                       !.rngs = {i \in @ : i >= start},
                       !.menus = {m \in @ : m.index >= start}]

Following == [CharaSelect |-> {"Loading"}, Loading |-> {"CharaIntro"}, CharaIntro |-> {"InGame"},
              InGame |-> {"Skippable"}, Skippable |-> {"RetryMenu"}]

\* The game goes on with its state, or to the next one.
Continued(g) ==
    {[g EXCEPT !.frame = @ + 1] : n \in {n \in FramesOf[g.state] : g.frame + 1 < n}}
    \cup {Entered(g, state) : state \in
            IF g.frame + 1 \notin FramesOf[g.state] THEN {}
            ELSE IF g.state = "RetryMenu" THEN {m.next : m \in {m \in g.menus : m.index = g.index}}
            ELSE Following[g.state]}

\* What is known in this frame: in CharaSelect and InGame the inputs of both
\* players and the RngState; elsewhere the inputs of the other player may be
\* missing, and in the retry menu they are.
Known(g) ==
    LET i == g.index - g.startIndex
        Without == Resize(g.inputs, i, 0, 0)
        With == Set(g.inputs, i, g.frame, Input(g.index, g.frame))
    IN  {[g EXCEPT !.inputs = inputs, !.rngs = IF g.state \in Lockstep THEN @ \cup {g.index} ELSE @] :
           inputs \in CASE g.state \in Lockstep -> {With}
                        [] g.state = "RetryMenu" -> {Without}
                        [] OTHER -> {With, Without}}

-----------------------------------------------------------------------------
(* SpectatorManager.                                                       *)

\* What both players gave in the index of pos, as far as it is final.
CommonEnd(g, pos) ==
    LET end == IF pos.index < g.startIndex THEN 0 ELSE EndFrame(g.inputs, pos.index - g.startIndex)
        unsure == IF g.rollback /\ g.state = "InGame" /\ pos.index = g.index THEN 2 * NumInputs ELSE 0
    IN  IF end > unsure THEN end - unsure ELSE 0

\* Wrong: an index that is over is left after its last whole window.
BothInputsWhole(g, pos) ==
    IF pos.index <= g.index /\ pos.frame + 1 <= CommonEnd(g, pos)
      THEN <<[type |-> "BothInputs", index |-> pos.index, start |-> StartFrame(pos.frame),
              inputs |-> Window(g.inputs, pos.index - g.startIndex, StartFrame(pos.frame), Size(pos.frame))]>>
      ELSE << >>

\* getBothInputs: the window at pos, or the rest of an index that is over.
BothInputs(g, pos) ==
    LET end == CommonEnd(g, pos)
        last == Lesser(pos.frame, end - 1)
    IN  IF pos.index > g.index \/ end = 0 \/ (pos.index = g.index /\ pos.frame + 1 > end) THEN << >>
        ELSE <<[type |-> "BothInputs", index |-> pos.index, start |-> StartFrame(last),
                inputs |-> Window(g.inputs, pos.index - g.startIndex, StartFrame(last), Size(last))]>>

\* The position after that.
Moved(g, pos) ==
    IF pos.index > g.index THEN pos
    ELSE IF pos.frame + 1 <= CommonEnd(g, pos) THEN [pos EXCEPT !.frame = @ + NumInputs]
    ELSE IF pos.index = g.index THEN pos
    ELSE [index |-> pos.index + 1, frame |-> NumInputs - 1]

\* The RngState of the index, once.
RngOf(g, w) == {i \in g.rngs : i = w.pos.index /\ ~w.sentRng}

\* The outcome of its retry menu, once, or twice when the index is left.
MenuOf(g, w) ==
    {m \in g.menus : m.index = w.pos.index /\ (~w.sentMenu \/ Moved(g, w.pos).index > w.pos.index)}

RngMessages(rngs) == SetToSeq({[type |-> "RngState", index |-> i] : i \in rngs})
MenuMessages(menus) == SetToSeq({[type |-> "MenuIndex", index |-> m.index, next |-> m.next] : m \in menus})

\* The spectator after it was sent that.
Served(g, w) ==
    LET left == Moved(g, w.pos).index > w.pos.index IN
    [w EXCEPT !.pos = Moved(g, @),
              !.sentRng = ~left /\ (@ \/ RngOf(g, w) # {}),
              !.sentMenu = (~left /\ @) \/ MenuOf(g, w) # {}]

\* At the end of the list a new round begins: what was needed in the round
\* before is preserved.
Restarted(st) ==
    IF st.pos <= Len(st.list) THEN st
    ELSE [st EXCEPT !.pos = 1, !.preserve = st.currentMin, !.currentMin = UintMax,
                    !.watcher = [s \in DOMAIN @ |-> [@[s] EXCEPT !.rounds = Lesser(@ + 1, 2)]]]

\* The next spectator of the list is served.
ServeNext(g, st) ==
    LET r == Restarted(st)
        s == r.list[r.pos]
        w == r.watcher[s]
        t == Served(g, w)
    IN  [r EXCEPT !.pos = @ + 1, !.watcher[s] = t, !.currentMin = Lesser(@, t.pos.index),
                  !.inbox[s] = @ \o BothInputs(g, w.pos) \o RngMessages(RngOf(g, w)) \o MenuMessages(MenuOf(g, w))]

\* frameStepSpectators
FrameStepSpectators(g, st) ==
    LET n == Len(st.list) IN
    IF n = 0 THEN [st EXCEPT !.pos = 1, !.preserve = UintMax, !.currentMin = UintMax]
    ELSE IF g.timer % Interval(n) # 0 THEN st
    ELSE FoldLeft(LAMBDA r, k : ServeNext(g, r), st, [k \in 1 .. Multiplier(n) |-> k])

\* pushSpectator: the RngState of the first index where one is needed.
FirstRng(g) ==
    IF g.state = "CharaSelect" THEN g.rngs \cap {g.spectateStart}
    ELSE IF g.state = "Loading" THEN {}
    ELSE g.rngs \cap {g.spectateStart + 2}

\* The new spectator comes after the one served last.
Pushed(st, s) ==
    LET at == IF st.pos > Len(st.list) THEN 1 ELSE st.pos + 1 IN
    [st EXCEPT !.list = InsertAt(@, at, s), !.pos = IF at = 1 THEN @ + 1 ELSE @]

\* Wrong: the position in the list is left alone.
PoppedStill(st, s) == [st EXCEPT !.list = RemoveAt(@, CHOOSE k \in DOMAIN st.list : st.list[k] = s)]

\* popSpectator: the round goes on with the next one.
Popped(st, s) ==
    LET at == CHOOSE k \in DOMAIN st.list : st.list[k] = s IN
    [st EXCEPT !.list = RemoveAt(@, at), !.pos = IF at < @ THEN @ - 1 ELSE @]

-----------------------------------------------------------------------------
(* The games of the spectators.                                            *)

NotWatching == [state |-> "None"]

\* A spectator's game is started.
NewViewer == [state |-> "PreInitial", first |-> "None", index |-> 0, startIndex |-> 0, frame |-> 0,
              inputs |-> << >>, rngs |-> {}, menus |-> {}, sync |-> FALSE]

\* socketRead of a spectator
ViewerRead(v, msg) ==
    CASE msg.type = "InitialGameState" -> [v EXCEPT !.state = "Initial", !.first = msg]
      [] msg.type = "BothInputs" ->
           IF msg.index + 1 < v.index \/ msg.index < v.startIndex THEN v
           ELSE [v EXCEPT !.inputs = SetWindow(@, msg.index - v.startIndex, msg.start, msg.inputs)]
      [] msg.type = "RngState" ->
           IF msg.index < v.startIndex THEN v ELSE [v EXCEPT !.rngs = @ \cup {msg.index}]
      [] msg.type = "MenuIndex" ->
           IF msg.index < v.startIndex THEN v
           ELSE [v EXCEPT !.menus = @ \cup {[index |-> msg.index, next |-> msg.next]}]

\* setState of a spectator, whom nobody watches.
ViewerEntered(v, state, index) ==
    LET t == [v EXCEPT !.state = state, !.index = index, !.frame = 0,
                       !.sync = @ \/ state \in Lockstep]
    IN  IF state # "Loading" \/ index <= v.startIndex THEN t
        ELSE [t EXCEPT !.startIndex = index,
                       !.inputs = EraseIndexOlderThan(@, index - v.startIndex),
                       !.rngs = {i \in @ : i >= index}, !.menus = {m \in @ : m.index >= index}]

\* Wrong: the game goes on with inputs that are not there.
ViewerReadyEarly(v) == v.startIndex + EndIndex(v.inputs) - 1 >= v.index

\* isRemoteInputReady and isRngStateReady of a spectator
ViewerReady(v) ==
    /\ \/ v.startIndex + EndIndex(v.inputs) - 1 > v.index
       \/ v.startIndex + EndIndex(v.inputs) - 1 = v.index /\ NewestEndFrame(v.inputs) > v.frame
    /\ v.sync => \E i \in v.rngs : i >= v.index

\* The states that a spectator's game may go to: it starts where it was told to;
\* a state that inputs end is over when it is for the game watched.
ViewerNext(v) ==
    CASE v.state = "Initial" ->
           IF v.first.state = "CharaSelect" THEN {ViewerEntered(v, "CharaSelect", 1)}
           ELSE {ViewerEntered(v, "Loading", v.first.index)}
      [] v.state \in Lockstep ->
           IF v.index < Len(log) /\ v.frame = log[v.index].frames
             THEN {ViewerEntered(v, state, v.index + 1) : state \in Following[v.state]} ELSE {}
      [] v.state = "RetryMenu" ->
           {ViewerEntered(v, m.next, v.index + 1) : m \in {m \in v.menus : m.index = v.index}}
      [] v.state \in {"Loading", "CharaIntro", "Skippable"} ->
           {ViewerEntered(v, state, v.index + 1) : state \in Following[v.state]}
      [] OTHER -> {}

-----------------------------------------------------------------------------
(* Steps.                                                                  *)

Watchers == ToSet(stream.list)

NewGame ==
    [state |-> "CharaSelect", index |-> 1, frame |-> 0, startIndex |-> 0, spectateStart |-> 1,
     preserve |-> UintMax, rollback |-> FALSE, inputs |-> << << >> >>, rngs |-> {}, menus |-> {},
     timer |-> 0, polling |-> TRUE]

\* The first frame of the first character select.
Init ==
    /\ \E rollback \in Rollbacks : game \in Known([NewGame EXCEPT !.rollback = rollback])
    /\ pending = {}
    /\ stream = [list |-> << >>, pos |-> 1, watcher |-> [s \in {} |-> 0], currentMin |-> UintMax]
    /\ inbox = [s \in Sockets |-> << >>]
    /\ viewer = [s \in Sockets |-> NotWatching]
    /\ log = <<[state |-> "CharaSelect", frames |-> 1]>>

\* History: the spectators that no whole round has counted when a new game starts.
Counted(next) ==
    IF next.state = "Loading" /\ next.frame = 0
      THEN [stream EXCEPT !.watcher = [s \in DOMAIN @ |-> [@[s] EXCEPT !.late = @ \/ stream.watcher[s].rounds < 2]]]
      ELSE stream

\* frameStep up to the poll loop.
BeginFrame ==
    /\ ~game.polling /\ \A s \in Sockets : Len(inbox[s]) < MaxInFlight
    /\ \E next \in Continued(game) :
         /\ next.index <= MaxIndex
         /\ \E g \in Known(next) :
              game' = [g EXCEPT !.polling = TRUE, !.timer = (@ + 1) % NumInputs]
         /\ log' = IF next.index > Len(log) THEN Append(log, [state |-> next.state, frames |-> 1])
                   ELSE [log EXCEPT ![next.index].frames = @ + 1]
         /\ stream' = Counted(next)
    /\ UNCHANGED <<pending, inbox, viewer>>

\* frameStep after the poll loop.  The players leave the retry menu one way.
StepSpectators ==
    /\ game.polling
    /\ \E next \in IF game.state = "RetryMenu" /\ game.frame = 0 THEN {"Loading", "CharaSelect"} ELSE {"None"} :
       \E st \in {FrameStepSpectators(game, stream @@ [preserve |-> game.preserve, inbox |-> inbox])} :
         /\ game' = [game EXCEPT !.polling = FALSE, !.preserve = st.preserve,
                                 !.menus = IF next = "None" THEN @ ELSE @ \cup {[index |-> game.index, next |-> next]}]
         /\ stream' = [f \in DOMAIN stream |-> st[f]]
         /\ inbox' = st.inbox
    /\ UNCHANGED <<pending, viewer, log>>

\* socketAccepted: with enough spectators, new ones are redirected.
Accept(s) ==
    /\ game.polling /\ game.frame \in JoinFrames[game.state] /\ game.index <= MaxJoinIndex
    /\ s \notin pending /\ viewer[s] = NotWatching /\ inbox[s] = << >>
    /\ Len(stream.list) < MaxSpectators
    /\ pending' = pending \cup {s}
    /\ UNCHANGED <<game, stream, inbox, viewer, log>>

\* popPendingSocket: it was given up, or closed.
GiveUp(s) ==
    /\ game.polling /\ s \in pending
    /\ pending' = pending \ {s}
    /\ UNCHANGED <<game, stream, inbox, viewer, log>>

\* socketRead, pushSpectator
Push(s) ==
    /\ game.polling /\ s \in pending
    /\ game.frame \in JoinFrames[game.state] /\ game.index <= MaxJoinIndex
    /\ pending' = pending \ {s}
    /\ LET pos == [index |-> game.spectateStart, frame |-> NumInputs - 1] IN
       /\ stream' = [Pushed(stream, s) EXCEPT
                       !.watcher = (s :> [pos |-> pos, sentRng |-> FALSE, sentMenu |-> FALSE,
                                         rounds |-> 0, late |-> FALSE]) @@ @]
       /\ game' = [game EXCEPT !.preserve = Lesser(@, pos.index)]
       /\ inbox' = [inbox EXCEPT ![s] = RngMessages(FirstRng(game))
                      \o <<[type |-> "InitialGameState", index |-> pos.index, state |-> game.state]>>]
    /\ viewer' = [viewer EXCEPT ![s] = NewViewer]
    /\ UNCHANGED log

\* socketDisconnected, popSpectator
Pop(s) ==
    /\ game.polling /\ s \in Watchers
    /\ stream' = [Popped(stream, s) EXCEPT !.watcher = [t \in DOMAIN @ \ {s} |-> @[t]]]
    /\ inbox' = [inbox EXCEPT ![s] = << >>]
    /\ viewer' = [viewer EXCEPT ![s] = NotWatching]
    /\ UNCHANGED <<game, pending, log>>

\* A spectator reads a message.
Read(s) ==
    /\ inbox[s] # << >>
    /\ viewer' = [viewer EXCEPT ![s] = ViewerRead(@, Head(inbox[s]))]
    /\ inbox' = [inbox EXCEPT ![s] = Tail(@)]
    /\ UNCHANGED <<game, pending, stream, log>>

\* A spectator plays a frame.
Watch(s) ==
    /\ viewer[s].state \in Lockstep /\ ViewerReady(viewer[s])
    /\ viewer[s].index < Len(log) => viewer[s].frame < log[viewer[s].index].frames
    /\ viewer' = [viewer EXCEPT ![s].frame = @ + 1, ![s].sync = FALSE]
    /\ UNCHANGED <<game, pending, stream, inbox, log>>

\* A spectator's game goes to its next state.
Proceed(s) ==
    /\ viewer[s].state # "None"
    /\ \E v \in ViewerNext(viewer[s]) : viewer' = [viewer EXCEPT ![s] = v]
    /\ UNCHANGED <<game, pending, stream, inbox, log>>

Next ==
    \/ BeginFrame \/ StepSpectators
    \/ \E s \in Sockets : Accept(s) \/ GiveUp(s) \/ Push(s) \/ Pop(s) \/ Read(s) \/ Watch(s) \/ Proceed(s)

Spec == Init /\ [][Next]_vars

-----------------------------------------------------------------------------
(* Correctness.                                                            *)

\* Every variable has the shape of the members of SpectatorManager and
\* NetplayManager; each spectator is once in the list, and in the map.
TypeOK ==
    /\ game.state \in States /\ game.index \in 1 .. MaxIndex /\ game.startIndex \in 0 .. game.index
    /\ game.preserve \in 0 .. UintMax /\ stream.currentMin \in 0 .. UintMax
    /\ pending \subseteq Sockets /\ DOMAIN stream.watcher = Watchers
    /\ stream.pos \in 1 .. Len(stream.list) + 1 /\ Len(stream.list) = Cardinality(Watchers)
    /\ \A s \in Watchers : stream.watcher[s].pos.index \in 1 .. game.index

\* The spectators that every new game since they joined found counted by a whole
\* round of the list.
InTime == {s \in Watchers : ~stream.watcher[s].late}

\* What a spectator is still to be sent is not dropped when a new game starts: the
\* ASSERT of getBothInputs (DllNetplayManager.cpp:950).  It may be dropped if the
\* spectator joined in the round in progress or the one before, which reset
\* preserveStartIndex to what is needed by those it counted (DllSpectatorManager.cpp:154).
SpectatorIsKept == \A s \in InTime : stream.watcher[s].pos.index >= game.startIndex

\* Once a spectator's position has left an index, all that its game needs of that
\* index has been sent: every frame, the RngState and the outcome of the menu.
NothingIsSkipped ==
    \A s \in InTime :
        LET v == FoldLeft(ViewerRead, viewer[s], inbox[s]) IN
        v.state \in States /\ v.index < stream.watcher[s].pos.index =>
            /\ v.state \in Lockstep =>
                 /\ EndFrame(v.inputs, v.index - v.startIndex) >= log[v.index].frames
                 /\ v.sync => v.index \in v.rngs
            /\ v.state = "RetryMenu" => \E m \in v.menus : m.index = v.index

\* A spectator sees the game that is played: the same states, the inputs of the
\* players in every frame, and the RngState at the beginning of the state.
SeesTheGame ==
    \A s \in InTime :
        LET v == viewer[s] IN
        v.state \in States =>
            /\ v.index <= Len(log) => v.state = log[v.index].state
            /\ v.state \in Lockstep /\ ViewerReady(v) /\ (v.index < Len(log) => v.frame < log[v.index].frames) =>
                 /\ Get(v.inputs, v.index - v.startIndex, v.frame) = Input(v.index, v.frame)
                 /\ v.sync => v.index \in v.rngs
=============================================================================

---------------------------- MODULE RollbackSync ----------------------------
(***************************************************************************)
(* The input exchange and rollback loop of one netplay round: two peers,   *)
(* both in NetplayState::InGame with rollback enabled, running             *)
(* DllMain::frameStep once per game frame.  A peer records its own input   *)
(* `delay' frames ahead, sends a window of its last NUM_INPUTS inputs,     *)
(* waits until the remote inputs are at most `rollback' frames behind,     *)
(* predicts the missing ones by repeating the last, and, when a received   *)
(* input contradicts a prediction, loads a saved state and reruns.         *)
(*                                                                         *)
(* PlayerInputs travels as a raw datagram, so it may be lost, repeated or  *)
(* overtaken.  An input is never changed once recorded, so a packet is     *)
(* named by the end of its window; `sent' keeps every packet forever and a *)
(* receiver takes any of them at any time: a packet never taken is a lost  *)
(* one, and the resend timer adds nothing to the set.                      *)
(*                                                                         *)
(* The game is external: what matters of it is that its state is a         *)
(* function of the inputs it was given, and that the round is over once    *)
(* some frame got a pair of inputs of Deciding.                            *)
(***************************************************************************)
EXTENDS Integers, Sequences, FiniteSets

CONSTANTS
    Input,            \* the inputs a player can give
    CarriedInput,     \* the last input of the state before, which a resize fills with
    Deciding,         \* the pairs <<input of 1, input of 2>> that end the round
    StartRollback,    \* config.rollback of each peer when the round starts
    StartDelay,       \* config.rollbackDelay of each peer when the round starts
    MaxRollback,      \* MAX_ROLLBACK, 15 in the code
    MaxDelay,         \* the largest delay Ctrl + Number gives, 9 in the code
    NumInputs,        \* NUM_INPUTS, 30 in the code
    PoolSize,         \* NUM_ROLLBACK_STATES, 60 in the code
    RoundOverDelay,   \* ROLLBACK_ROUND_OVER_DELAY, 5 in the code
    MaxFrame,         \* bound: no peer begins frame MaxFrame
    MaxPresses,       \* bound: inputs other than CarriedInput, of each peer
    MaxChanges        \* bound: changes of delay or rollback, per peer

Peer == {1, 2}
Other(p) == 3 - p

ASSUME InputAssumption == CarriedInput \in Input /\ Deciding \subseteq Input \X Input
ASSUME ConfigAssumption ==
    /\ MaxRollback \in Nat /\ MaxDelay \in Nat
    /\ StartRollback \in [Peer -> 1 .. MaxRollback]
    /\ StartDelay \in [Peer -> 0 .. MaxDelay]
    /\ NumInputs \in Nat \ {0} /\ PoolSize \in Nat \ {0, 1} /\ RoundOverDelay \in Nat
    /\ MaxFrame \in Nat /\ MaxPresses \in [Peer -> Nat] /\ MaxChanges \in Nat

VARIABLES
    frame,        \* getFrame(): the frame the peer is at
    phase,        \* "step": before frameStep; "poll": waiting in its poll loop
    inGame,       \* NetplayState::InGame, until the peer enters Skippable
    ahead,        \* the remote transition index was seen to be ahead of ours
    own,          \* _inputs[localPlayer - 1] of this transition index
    sent,         \* the ends of the windows sent so far
    known,        \* _inputs[remotePlayer - 1] of this transition index
    changed,      \* _lastChangedFrame of the remote inputs, Never if none
    rollback,     \* config.rollback
    delay,        \* config.rollbackDelay
    rollbackTimer,
    roundOverTimer,
    stopFrame,    \* fastFwdStopFrame, 0 when not rerunning
    saved,        \* the frames of _statesList, oldest first
    played,       \* the remote input the game was given at each frame so far
    changes       \* delay and rollback changes made

vars == <<frame, phase, inGame, ahead, own, sent, known, changed, rollback, delay,
          rollbackTimer, roundOverTimer, stopFrame, saved, played, changes>>

Never == -1      \* MaxIndexedFrame

(***************************************************************************)
(* InputsContainer, for the current transition index                       *)
(***************************************************************************)
LastOf(inputs) == IF inputs = <<>> THEN CarriedInput ELSE inputs[Len(inputs)]

\* get: the input of frame f, the last known one repeated beyond the end
InputAt(inputs, f) == IF f < Len(inputs) THEN inputs[f + 1] ELSE LastOf(inputs)

\* resize: n inputs, the new ones repeating the last
Resized(inputs, n) ==
    [i \in 1 .. (IF n > Len(inputs) THEN n ELSE Len(inputs)) |-> InputAt(inputs, i - 1)]

\* Wrong: what was recorded and sent with a longer delay is written over
RecordedOverwriting(inputs, f, input) == [Resized(inputs, f + 1) EXCEPT ![f + 1] = input]

\* set: record one input at frame f unless there is one already
Recorded(inputs, f, input) ==
    IF f < Len(inputs) THEN inputs ELSE [Resized(inputs, f + 1) EXCEPT ![f + 1] = input]

\* BaseInputs: the window of a packet ending before frame e
StartFrame(e) == IF e < NumInputs THEN 0 ELSE e - NumInputs

\* set n: the inputs of the window overwrite, what lies between is filled
Received(inputs, source, e) ==
    [i \in DOMAIN Resized(inputs, e) |->
        IF i > StartFrame(e) /\ i <= e THEN source[i] ELSE Resized(inputs, e)[i]]

\* set n: the frames of the window whose input is not the one get returned
Contradicted(inputs, source, e) ==
    {f \in StartFrame(e) .. e - 1 : InputAt(inputs, f) # source[f + 1]}

Earliest(frames) == CHOOSE f \in frames : \A g \in frames : f <= g

\* Wrong: the newest contradicted window wins
NextChangedLatest(before, contradicted) ==
    IF contradicted = {} THEN before ELSE Earliest(contradicted)

\* set n: _lastChangedFrame becomes the earliest contradicted frame
NextChanged(before, contradicted) ==
    IF contradicted = {} THEN before
    ELSE IF before = Never \/ Earliest(contradicted) < before THEN Earliest(contradicted)
    ELSE before

(***************************************************************************)
(* DllRollbackManager                                                      *)
(***************************************************************************)
\* getRemoteFrame: the last frame known of the newest remote index, 0 if none
RemoteFrame(p) == IF ahead[p] \/ known[p] = <<>> THEN 0 ELSE Len(known[p]) - 1

\* saveState: with no free slot, the second oldest state makes room if the
\* oldest is not past the remote frame, the oldest one otherwise
Saved(states, f, remote) ==
    Append(IF Len(states) < PoolSize THEN states
           ELSE IF states[1] <= remote THEN <<states[1]>> \o SubSeq(states, 3, Len(states))
           ELSE Tail(states), f)

\* loadState: the position of the newest state not after the frame; a release
\* build takes the oldest when there is none
LoadPosition(states, f) ==
    LET before == {i \in DOMAIN states : states[i] <= f}
    IN  IF before = {} THEN 1 ELSE Cardinality(before)

(***************************************************************************)
(* DllMain                                                                 *)
(***************************************************************************)
\* minRollbackSpacing, set with the rollback: clamped ( rollback, 2, 4 )
Spacing(r) == IF r < 2 THEN 2 ELSE IF r > 4 THEN 4 ELSE r

\* the inputs of frame f the game of peer p was given: <<player 1, player 2>>
GivenAt(p, f) ==
    IF p = 1 THEN <<own[p][f + 1], played[p][f + 1]>> ELSE <<played[p][f + 1], own[p][f + 1]>>

\* checkRoundOver: what the NO_INPUT flags of the game say
IsOver(p) == \E f \in 0 .. frame[p] - 1 : GivenAt(p, f) \in Deciding

\* checkRoundOver: the timer has run out, the peer leaves InGame
RoundOver(p) == IsOver(p) /\ roundOverTimer[p] = 0

\* Wrong: the round-over timer ignores the rollback
NextRoundOverTimerShort(p) ==
    IF ~IsOver(p) THEN -1
    ELSE IF roundOverTimer[p] < 0 THEN 1
    ELSE roundOverTimer[p]

\* checkRoundOver: the timer otherwise
NextRoundOverTimer(p) ==
    IF ~IsOver(p) THEN -1
    ELSE IF roundOverTimer[p] < 0 THEN rollback[p] + RoundOverDelay
    ELSE roundOverTimer[p]

\* Wrong: the input of the next frame is waited for, which nobody has sent
ReachesStrict(p, inputs) == Len(inputs) > frame[p] + 1

\* isRemoteInputReady, of the inputs there are
Reaches(p, inputs) == inputs # <<>> /\ Len(inputs) - 1 + rollback[p] >= frame[p]

\* isRemoteInputReady
RemoteInputReady(p) == ahead[p] \/ Reaches(p, known[p])

\* setInput: the local input is recorded `delay' frames ahead
SetInput(p, input) == Recorded(own[p], frame[p] + delay[p], input)

\* getInputs: the packet with the newest window, named by its end
GetInputs(inputs) == Len(inputs)

\* Wrong: the countdown is not reset after zero
NextRollbackTimerUnclamped(p) ==
    IF rollbackTimer[p] >= Spacing(rollback[p]) THEN rollbackTimer[p] ELSE rollbackTimer[p] - 1

\* the countdown between rollbacks, back to the spacing after zero
NextRollbackTimer(p) ==
    IF rollbackTimer[p] >= Spacing(rollback[p]) THEN rollbackTimer[p]
    ELSE IF rollbackTimer[p] = 0 THEN Spacing(rollback[p])
    ELSE rollbackTimer[p] - 1

\* the rollback condition at the end of frameStepNormal
MustRollBack(p) ==
    /\ NextRollbackTimer(p) = Spacing(rollback[p])
    /\ changed[p] # Never /\ changed[p] < frame[p]

Init ==
    /\ frame = [p \in Peer |-> 0] /\ phase = [p \in Peer |-> "step"]
    /\ inGame = [p \in Peer |-> TRUE] /\ ahead = [p \in Peer |-> FALSE]
    /\ own = [p \in Peer |-> <<>>] /\ sent = [p \in Peer |-> {}]
    /\ known = [p \in Peer |-> <<>>] /\ changed = [p \in Peer |-> Never]
    /\ rollback = StartRollback /\ delay = StartDelay
    /\ rollbackTimer = [p \in Peer |-> Spacing(StartRollback[p])]
    /\ roundOverTimer = [p \in Peer |-> -1] /\ stopFrame = [p \in Peer |-> 0]
    /\ saved = [p \in Peer |-> <<>>] /\ played = [p \in Peer |-> <<>>]
    /\ changes = [p \in Peer |-> 0]

\* frameStep, checkRoundOver: enter Skippable, which ends this transition index
Leave(p) ==
    /\ inGame[p] /\ phase[p] = "step" /\ RoundOver(p)
    /\ inGame' = [inGame EXCEPT ![p] = FALSE]
    /\ roundOverTimer' = [roundOverTimer EXCEPT ![p] = -1]
    /\ stopFrame' = [stopFrame EXCEPT ![p] = 0]
    /\ saved' = [saved EXCEPT ![p] = <<>>]
    /\ UNCHANGED <<frame, phase, ahead, own, sent, known, changed, rollback, delay,
                   rollbackTimer, played, changes>>

\* frameStepNormal up to its poll loop: save, record and send the local input
BeginFrame(p, input) ==
    /\ inGame[p] /\ phase[p] = "step" /\ stopFrame[p] = 0 /\ ~RoundOver(p)
    /\ frame[p] < MaxFrame
    /\ input # CarriedInput =>
           Cardinality({i \in DOMAIN own[p] : own[p][i] # CarriedInput}) < MaxPresses[p]
    /\ saved' = [saved EXCEPT ![p] = Saved(@, frame[p], RemoteFrame(p))]
    /\ roundOverTimer' = [roundOverTimer EXCEPT ![p] =
           IF NextRoundOverTimer(p) > 0 THEN NextRoundOverTimer(p) - 1 ELSE NextRoundOverTimer(p)]
    /\ own' = [own EXCEPT ![p] = SetInput(p, input)]
    /\ sent' = [sent EXCEPT ![p] = @ \union {GetInputs(own'[p])}]
    /\ changed' = [changed EXCEPT ![p] =
           IF rollbackTimer[p] = Spacing(rollback[p]) THEN Never ELSE @]
    /\ phase' = [phase EXCEPT ![p] = "poll"]
    /\ UNCHANGED <<frame, inGame, ahead, known, rollback, delay, rollbackTimer,
                   stopFrame, played, changes>>

\* the poll loop, setInputs: take a packet the other peer sent
ReceiveInputs(p, e) ==
    /\ inGame[p] /\ phase[p] = "poll" /\ e \in sent[Other(p)]
    /\ changed' = [changed EXCEPT ![p] =
           NextChanged(@, Contradicted(known[p], own[Other(p)], e))]
    /\ known' = [known EXCEPT ![p] = Received(@, own[Other(p)], e)]
    /\ UNCHANGED <<frame, phase, inGame, ahead, own, sent, rollback, delay,
                   rollbackTimer, roundOverTimer, stopFrame, saved, played, changes>>

\* the poll loop, setRemoteIndex or setInputs: the other peer is in a later state
ReceiveIndex(p) ==
    /\ inGame[p] /\ phase[p] = "poll" /\ ~inGame[Other(p)]
    /\ ahead' = [ahead EXCEPT ![p] = TRUE]
    /\ UNCHANGED <<frame, phase, inGame, own, sent, known, changed, rollback, delay,
                   rollbackTimer, roundOverTimer, stopFrame, saved, played, changes>>

\* out of the poll loop into a rollback: load a state and play its frame again
RollBack(p) ==
    /\ inGame[p] /\ phase[p] = "poll" /\ RemoteInputReady(p) /\ MustRollBack(p)
    /\ LET last == LoadPosition(saved[p], changed[p])
           target == saved[p][last]
       IN  /\ saved' = [saved EXCEPT ![p] = SubSeq(@, 1, last)]
           /\ played' = [played EXCEPT ![p] =
                  Append(SubSeq(@, 1, target), InputAt(known[p], target))]
           /\ frame' = [frame EXCEPT ![p] = target + 1]
    /\ stopFrame' = [stopFrame EXCEPT ![p] = frame[p]]
    /\ changed' = [changed EXCEPT ![p] = Never]
    /\ rollbackTimer' = [rollbackTimer EXCEPT ![p] = NextRollbackTimer(p) - 1]
    /\ phase' = [phase EXCEPT ![p] = "step"]
    /\ UNCHANGED <<inGame, ahead, own, sent, known, rollback, delay, roundOverTimer, changes>>

\* out of the poll loop without one: play the frame
PlayFrame(p) ==
    /\ inGame[p] /\ phase[p] = "poll" /\ RemoteInputReady(p) /\ ~MustRollBack(p)
    /\ rollbackTimer' = [rollbackTimer EXCEPT ![p] = NextRollbackTimer(p)]
    /\ played' = [played EXCEPT ![p] = Append(@, InputAt(known[p], frame[p]))]
    /\ frame' = [frame EXCEPT ![p] = @ + 1]
    /\ phase' = [phase EXCEPT ![p] = "step"]
    /\ UNCHANGED <<inGame, ahead, own, sent, known, changed, roundOverTimer, stopFrame, saved>>

ContinueFrame(p) == PlayFrame(p) /\ UNCHANGED <<rollback, delay, changes>>

\* Ctrl + Number or Alt + Number was pressed on this frame
ChangeFrame(p, r, d) ==
    /\ changes[p] < MaxChanges
    /\ PlayFrame(p)
    /\ rollback' = [rollback EXCEPT ![p] = r]
    /\ delay' = [delay EXCEPT ![p] = d]
    /\ changes' = [changes EXCEPT ![p] = @ + 1]

\* frameStepRerun: play a frame again with what is known now
RerunFrame(p) ==
    /\ inGame[p] /\ phase[p] = "step" /\ stopFrame[p] # 0 /\ ~RoundOver(p)
    /\ roundOverTimer' = [roundOverTimer EXCEPT ![p] = NextRoundOverTimer(p)]
    /\ stopFrame' = [stopFrame EXCEPT ![p] = IF frame[p] >= @ THEN 0 ELSE @]
    /\ played' = [played EXCEPT ![p] = Append(@, InputAt(known[p], frame[p]))]
    /\ frame' = [frame EXCEPT ![p] = @ + 1]
    /\ UNCHANGED <<phase, inGame, ahead, own, sent, known, changed, rollback, delay,
                   rollbackTimer, saved, changes>>

Step(p) ==
    \/ Leave(p)
    \/ \E input \in Input : BeginFrame(p, input)
    \/ \E e \in sent[Other(p)] : ReceiveInputs(p, e)
    \/ ReceiveIndex(p)
    \/ RollBack(p)
    \/ ContinueFrame(p)
    \/ \E r \in 1 .. MaxRollback : ChangeFrame(p, r, delay[p])
    \/ \E d \in 0 .. MaxDelay : ChangeFrame(p, rollback[p], d)
    \/ RerunFrame(p)

Next == \E p \in Peer : Step(p)

Spec == Init /\ [][Next]_vars

(***************************************************************************)
(* Properties                                                              *)
(***************************************************************************)
Inputs == Seq(Input)

\* The state has its types.
TypeOK ==
    /\ frame \in [Peer -> Nat] /\ phase \in [Peer -> {"step", "poll"}]
    /\ inGame \in [Peer -> BOOLEAN] /\ ahead \in [Peer -> BOOLEAN]
    /\ own \in [Peer -> Inputs] /\ known \in [Peer -> Inputs] /\ played \in [Peer -> Inputs]
    /\ saved \in [Peer -> Seq(Nat)] /\ sent \in [Peer -> SUBSET Nat]
    /\ changed \in [Peer -> Nat \union {Never}]
    /\ rollback \in [Peer -> 1 .. MaxRollback] /\ delay \in [Peer -> 0 .. MaxDelay]
    /\ rollbackTimer \in [Peer -> Nat] /\ roundOverTimer \in [Peer -> Nat \union {-1}]
    /\ stopFrame \in [Peer -> Nat] /\ changes \in [Peer -> Nat]

\* What a peer knows of the other's inputs is what the other recorded: no
\* window is so far ahead that the fill before it stands for real inputs.
KnownIsActual ==
    \A p \in Peer : \A i \in DOMAIN known[p] :
        i \in DOMAIN own[Other(p)] /\ known[p][i] = own[Other(p)][i]

\* When a peer that has just looked for a rollback goes on to a new frame, its
\* game was given every remote input known by then: a misprediction is
\* repaired, whatever arrived while rollbacks were not allowed.
PastIsRepaired ==
    \A p \in Peer :
        inGame[p] /\ phase[p] = "step" /\ stopFrame[p] = 0
            /\ rollbackTimer[p] >= Spacing(rollback[p])
        => \A i \in DOMAIN played[p] : i \in DOMAIN known[p] => played[p][i] = known[p][i]

\* The round ends on the inputs really given: a peer that leaves the round
\* while it still follows the other's inputs saw a deciding pair that both
\* players gave, at a frame before which it knew every input.
RoundEndIsReal ==
    \A p \in Peer : ~inGame[p] /\ ~ahead[p] =>
        \E f \in 0 .. frame[p] - 1 :
            /\ GivenAt(p, f) \in Deciding
            /\ \A g \in 0 .. f : /\ g < Len(own[Other(p)])
                               /\ played[p][g + 1] = own[Other(p)][g + 1]

\* Two peers that wait for each other, each having lost the other's last packets,
\* are not stuck: the window that one of them sends again is enough for the other.
ResendEndsWait ==
    (\A p \in Peer : inGame[p] /\ phase[p] = "poll") =>
        \E p \in Peer :
            Reaches(p, Received(known[p], own[Other(p)], GetInputs(own[Other(p)])))
=============================================================================

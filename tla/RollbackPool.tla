---------------------------- MODULE RollbackPool ----------------------------
(***************************************************************************)
(* DllRollbackManager: the pool of memory in which game states are saved   *)
(* for rollbacks, over several rounds and a lost and renewed connection.   *)
(* A saved state is a frame and a slot of the pool; the stack holds the    *)
(* slots not in use.                                                       *)
(*                                                                         *)
(* Which frames are loaded, and what the game computes, is the business of *)
(* RollbackSync and of the game: here they are arbitrary.                  *)
(***************************************************************************)
EXTENDS Integers, SequencesExt

CONSTANTS
    Game,            \* what the memory of the game may hold
    NumStates,       \* NUM_ROLLBACK_STATES, 60 in the code
    RenewsLost,      \* whether a host whose connection was lost in mid-round connects again
    MaxFrame         \* bound: no frame after it is begun

ASSUME PoolAssumption ==
    /\ Game # {} /\ NumStates \in Nat \ {0, 1} /\ RenewsLost \in BOOLEAN /\ MaxFrame \in Nat

VARIABLES
    rolling,     \* config.rollback, which is not zero in a netplay match with rollback
    inGame,      \* NetplayState::InGame
    phase,       \* of a frame: "step", "poll" after frameStep saved, "play" in the game
    frame,       \* getFrame()
    stopFrame,   \* fastFwdStopFrame, 0 when not rerunning
    game,        \* the memory of the game
    memory,      \* _memoryPool: what each slot holds
    freeStack,   \* _freeStack, its top at the end
    statesList   \* _statesList, oldest first

vars == <<rolling, inGame, phase, frame, stopFrame, game, memory, freeStack, statesList>>
pool == <<memory, freeStack, statesList>>

Slot == 1 .. NumStates
AllSlots == [i \in 1 .. NumStates |-> i]

Init ==
    /\ rolling = TRUE /\ inGame = FALSE /\ phase = "step"
    /\ frame = 0 /\ stopFrame = 0 /\ game \in Game
    /\ memory \in [Slot -> Game]
    /\ freeStack = <<>> /\ statesList = <<>>

\* netplayStateChanged, entering InGame: allocateStates
EnterInGame ==
    /\ ~inGame /\ inGame' = TRUE
    /\ frame' = 0 /\ game' \in Game
    /\ IF rolling THEN freeStack' = freeStack \o AllSlots /\ statesList' = <<>>
                  ELSE UNCHANGED <<freeStack, statesList>>
    /\ UNCHANGED <<rolling, phase, stopFrame, memory>>

\* Wrong: the slots still free stay on the stack
AfterLeavingKeepingStack ==
    IF rolling THEN statesList' = <<>> /\ UNCHANGED freeStack
    ELSE UNCHANGED <<freeStack, statesList>>

\* deallocateStates, only called while config.rollback is not zero
AfterLeaving ==
    IF rolling THEN freeStack' = <<>> /\ statesList' = <<>>
    ELSE UNCHANGED <<freeStack, statesList>>

\* netplayStateChanged, leaving InGame.  The first frame step after it, in a
\* later state, ends a rerun.
LeaveInGame ==
    /\ inGame /\ phase = "step" /\ inGame' = FALSE
    /\ frame' = 0 /\ stopFrame' = 0 /\ game' \in Game
    /\ AfterLeaving
    /\ UNCHANGED <<rolling, phase, memory>>

\* saveState with no free slot: the state that makes room, the second oldest
\* if the oldest is not past the remote frame
Evicted(remoteFrame) == IF statesList[1].frame <= remoteFrame THEN 2 ELSE 1

\* saveState into the slot on top of the stack
SaveInto(stack, list) ==
    /\ memory' = [memory EXCEPT ![Last(stack)] = game]
    /\ statesList' = Append(list, [frame |-> frame, slot |-> Last(stack)])
    /\ freeStack' = Front(stack)

\* frameStepNormal, InGame: saveState
SaveState(remoteFrame) ==
    /\ inGame /\ rolling /\ phase = "step" /\ stopFrame = 0 /\ frame < MaxFrame
    /\ phase' = "poll"
    /\ IF freeStack # <<>> THEN SaveInto(freeStack, statesList)
       ELSE LET i == Evicted(remoteFrame)
            IN  SaveInto(<<statesList[i].slot>>, RemoveAt(statesList, i))
    /\ UNCHANGED <<rolling, inGame, frame, stopFrame, game>>

\* Wrong: fast-forwarding goes on past the frame it started from
NextStopFrameLate == IF frame > stopFrame THEN 0 ELSE stopFrame

\* frameStepRerun: fast-forwarding stops at the frame it started from
NextStopFrame == IF frame >= stopFrame THEN 0 ELSE stopFrame

\* frameStepRerun, or frameStepNormal without rollback: nothing is saved
SkipSaving ==
    /\ inGame /\ phase = "step" /\ (stopFrame # 0 \/ ~rolling) /\ frame < MaxFrame
    /\ phase' = "play" /\ stopFrame' = NextStopFrame
    /\ UNCHANGED <<rolling, inGame, frame, game, pool>>

\* loadState: the newest state not after the frame, else (RELEASE) the oldest
Loaded(target) ==
    LET before == {i \in DOMAIN statesList : statesList[i].frame <= target}
    IN  IF before = {} THEN 1 ELSE Max(before)

\* Wrong: the slot of the loaded state is given back too
SlotsFreedFromLoaded(i) ==
    [j \in 1 .. Len(statesList) - i + 1 |-> statesList[i + j - 1].slot]

\* loadState: the slots of the states after the loaded one, in their order
SlotsFreed(i) == [j \in 1 .. Len(statesList) - i |-> statesList[i + j].slot]

\* frameStepNormal: a rollback to the earliest changed frame
LoadState(target) ==
    /\ phase = "poll" /\ rolling /\ target < frame
    /\ LET i == Loaded(target)
       IN  /\ game' = memory[statesList[i].slot]
           /\ frame' = statesList[i].frame
           /\ freeStack' = freeStack \o SlotsFreed(i)
           /\ statesList' = SubSeq(statesList, 1, i)
    /\ stopFrame' = frame /\ phase' = "play"
    /\ UNCHANGED <<rolling, inGame, memory>>

\* frameStepNormal without a rollback
ContinueFrame ==
    /\ phase = "poll" /\ phase' = "play"
    /\ UNCHANGED <<rolling, inGame, frame, stopFrame, game, pool>>

\* the game runs, until it calls frameStep again
Play ==
    /\ phase = "play"
    /\ phase' = "step" /\ frame' = frame + 1 /\ game' \in Game
    /\ UNCHANGED <<rolling, inGame, stopFrame, pool>>

\* the connection is lost, which frameStepNormal learns while it polls:
\* restoreOfflineGameMode, which leaves the pool as it is
Disconnect ==
    /\ rolling /\ rolling' = FALSE
    /\ inGame => phase = "poll"
    /\ UNCHANGED <<inGame, phase, frame, stopFrame, game, pool>>

\* a new connection made from the character selection: ipcRead, NetplayConfig.
\* What a round lost in its middle left on the stack and the list is still there.
Reconnect ==
    /\ ~rolling /\ rolling' = TRUE
    /\ ~inGame
    /\ RenewsLost \/ (freeStack = <<>> /\ statesList = <<>>)
    /\ UNCHANGED <<inGame, phase, frame, stopFrame, game, pool>>

Next ==
    \/ EnterInGame \/ LeaveInGame
    \/ \E f \in 0 .. MaxFrame - 1 : SaveState(f) \/ LoadState(f)
    \/ SkipSaving \/ ContinueFrame \/ Play
    \/ Disconnect \/ Reconnect

Spec == Init /\ [][Next]_vars

(***************************************************************************)
(* Properties                                                              *)
(***************************************************************************)
\* Every variable keeps its type, and fast-forwarding never passes the frame
\* it stops at.
TypeOK ==
    /\ rolling \in BOOLEAN /\ inGame \in BOOLEAN
    /\ phase \in {"step", "poll", "play"}
    /\ frame \in 0 .. MaxFrame /\ stopFrame \in {0} \union frame .. MaxFrame
    /\ game \in Game /\ memory \in [Slot -> Game]
    /\ freeStack \in Seq(Slot)
    /\ statesList \in Seq([frame : 0 .. MaxFrame, slot : Slot])

SlotsInUse == {statesList[i].slot : i \in DOMAIN statesList}

\* During a round with rollback every slot is either free or holds one saved
\* state: none is lost, none is given out twice, over any number of saves,
\* evictions, rollbacks and rounds.
EverySlotOnce ==
    rolling /\ inGame =>
        /\ ToSet(freeStack) \union SlotsInUse = Slot
        /\ Len(freeStack) + Len(statesList) = NumStates

\* The pool keeps the promise of SavedStates: what is loaded is what the game
\* was when the frame was saved, however often its slot was used before.
\* Nothing is loaded any more once the rollback is zero.
Promised == INSTANCE SavedStates
    WITH saved <- IF ~rolling THEN <<>> ELSE [i \in DOMAIN statesList |->
             [frame |-> statesList[i].frame, game |-> memory[statesList[i].slot]]]

SavedStatesSpec == Promised!Spec
=============================================================================

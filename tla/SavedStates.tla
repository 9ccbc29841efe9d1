---------------------------- MODULE SavedStates ----------------------------
(***************************************************************************)
(* What the rollback manager promises to the frame loop: a list of saved   *)
(* game states, oldest first, each of which can be loaded again exactly as *)
(* it was saved.  To make room a state may be forgotten, but none changes. *)
(***************************************************************************)
EXTENDS Naturals, Sequences, SequencesExt

CONSTANTS Game,       \* what the memory of the game may hold
          NumStates   \* how many states can be kept

VARIABLES saved, frame, game

states == <<saved, frame, game>>

Init == saved = <<>> /\ frame = 0 /\ game \in Game

\* the states kept while another one is saved
Kept == {saved} \union {RemoveAt(saved, i) : i \in DOMAIN saved}

Save ==
    \E kept \in Kept :
        /\ Len(kept) < NumStates
        /\ saved' = Append(kept, [frame |-> frame, game |-> game])
        /\ UNCHANGED <<frame, game>>

\* the states after the loaded one are forgotten
Load ==
    \E i \in DOMAIN saved :
        /\ saved' = SubSeq(saved, 1, i)
        /\ frame' = saved[i].frame /\ game' = saved[i].game

Play == game' \in Game /\ frame' = frame + 1 /\ UNCHANGED saved

\* a round begins or ends
Forget == saved' = <<>> /\ frame' = 0 /\ game' \in Game

\* the connection is lost: the game goes on, and no state is loaded again
GiveUp == saved' = <<>> /\ UNCHANGED <<frame, game>>

Next == Save \/ Load \/ Play \/ Forget \/ GiveUp

Spec == Init /\ [][Next]_states
=============================================================================

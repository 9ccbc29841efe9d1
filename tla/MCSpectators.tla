---------------------------- MODULE MCSpectators ----------------------------
(* Values for model checking Spectators. *)
EXTENDS Spectators

Frames == [CharaSelect |-> {5}, Loading |-> {1}, CharaIntro |-> {1}, InGame |-> {2, 4}, Skippable |-> {2},
           RetryMenu |-> {2}]

\* Spectators join in the first frame of a game, which is in time, and in the last
\* one of a character select or of the retry menu, just before the next game.
SomeFrames == [CharaSelect |-> {4}, Loading |-> {}, CharaIntro |-> {}, InGame |-> {0}, Skippable |-> {},
               RetryMenu |-> {1}]

Symmetry == Permutations(Sockets)
=============================================================================

--------------------------- MODULE MCRollbackSync ---------------------------
(* Values for model checking RollbackSync. *)
EXTENDS RollbackSync

\* player 1 hits, player 2 does not guard
FirstHits == {<<1, 0>>}

Rollback1 == [p \in Peer |-> 1]
OneNone == [p \in Peer |-> IF p = 1 THEN 1 ELSE 0]
Delay10 == [p \in Peer |-> IF p = 1 THEN 1 ELSE 0]
=============================================================================

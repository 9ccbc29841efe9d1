--------------------------- MODULE MCGoBackNLink ---------------------------
(* Instances of GoBackNLink for TLC. *)
EXTENDS GoBackNLink, TLC

TwoAndNone == A :> 2 @@ B :> 0
=============================================================================

--------------------------- MODULE MCNetplaySetup ---------------------------
(* Values for model checking NetplaySetup. *)
EXTENDS NetplaySetup

CONSTANTS c1, c2

\* One client plays; the other one is of any kind.
AnyOther == [Clients -> Roles] \ {f \in [Clients -> Roles] : f[c1] # "Player"}
=============================================================================

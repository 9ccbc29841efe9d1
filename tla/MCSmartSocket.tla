---------------------------- MODULE MCSmartSocket ----------------------------
(* Values for model checking SmartSocket. *)
EXTENDS SmartSocket

CONSTANTS c1, c2

\* The host loses its relay while it listens, one client while it connects.
HostAndOne == {<<Host, "Listening">>, <<c1, "Connecting">>}
=============================================================================

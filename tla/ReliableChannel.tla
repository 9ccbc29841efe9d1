-------------------------- MODULE ReliableChannel --------------------------
(***************************************************************************)
(* What a GoBackN link promises to its two owners: each direction is a     *)
(* reliable first-in first-out channel.  A message is named by its rank    *)
(* among the messages of its sender.                                       *)
(***************************************************************************)
EXTENDS Naturals, Sequences

CONSTANTS A, B, MaxMessages

VARIABLES sent, delivered

chan == <<sent, delivered>>

Receiver(p) == IF p = A THEN B ELSE A

Init ==
  /\ sent = [p \in {A, B} |-> 0]
  /\ delivered = [p \in {A, B} |-> << >>]

Send(p) ==
  /\ sent[p] < MaxMessages[p]
  /\ sent' = [sent EXCEPT ![p] = @ + 1]
  /\ UNCHANGED delivered

\* The oldest message of p not delivered yet reaches the other side.
Deliver(p) ==
  LET q == Receiver(p) IN
  /\ Len(delivered[q]) < sent[p]
  /\ delivered' = [delivered EXCEPT ![q] = Append(@, Len(@) + 1)]
  /\ UNCHANGED sent

Next == \E p \in {A, B} : Send(p) \/ Deliver(p)

Spec == Init /\ [][Next]_chan

FairSpec == Spec /\ \A p \in {A, B} : WF_chan(Deliver(p))
=============================================================================

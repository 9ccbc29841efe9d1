------------------------ MODULE RollbackSync_proofs ------------------------
(***************************************************************************)
(* Proofs about RollbackSync for every setting of rollback and delay, every *)
(* window and pool size, every game and whatever the network loses, repeats *)
(* or reorders: the state keeps its types; in a round whose settings fit    *)
(* into the windows a peer never takes its own guesses for inputs of the    *)
(* other one; one answer ends a wait; a misprediction is repaired as long   *)
(* as nobody lowers the spacing of the rollbacks in the middle of the       *)
(* round; and a peer leaves the round on inputs really given, if besides    *)
(* nobody raises the rollback once the round-over timer counts.             *)
(***************************************************************************)
EXTENDS RollbackSync, SequenceTheorems, FiniteSetTheorems, WellFoundedInduction, TLAPS

\* the largest rollback and delay that the players of a round use
CONSTANTS TopRollback, TopDelay

Ascending(s) == \A i, j \in DOMAIN s : i < j => s[i] < s[j]

\* the saved states are those of earlier frames, in the poll loop also that of
\* this frame; there is always one to load
SavedBefore(p) ==
    inGame[p] /\ phase[p] = "step" =>
        /\ Ascending(saved[p])
        /\ \A i \in DOMAIN saved[p] : saved[p][i] < frame[p]
        /\ frame[p] > 0 \/ stopFrame[p] # 0 => saved[p] # <<>>
SavedNow(p) ==
    inGame[p] /\ phase[p] = "poll" =>
        /\ stopFrame[p] = 0
        /\ Ascending(saved[p])
        /\ saved[p] # <<>> /\ saved[p][Len(saved[p])] = frame[p]
        /\ frame[p] > 0 => Len(saved[p]) > 1

\* the game was given one remote input for each frame it has played
PlayedEach(p) == Len(played[p]) = frame[p]

TypeInv == TypeOK /\ \A p \in Peer : SavedBefore(p) /\ SavedNow(p) /\ PlayedEach(p)

\* a peer that still waits for inputs is at most TopRollback frames ahead of
\* what it knows, and so is the frame at which its rerun stops
RunBound(p) ==
    ~ahead[p] =>
        /\ frame[p] <= Len(known[p]) + TopRollback
        /\ stopFrame[p] # 0 => frame[p] <= stopFrame[p] /\ stopFrame[p] + 1 <= Len(known[p]) + TopRollback

\* nor has it recorded more than its delay allows beyond that
OwnBound(p) == ~ahead[p] => Len(own[p]) <= Len(known[p]) + TopRollback + TopDelay + 1

\* a window holds everything its receiver does not know
WindowBound(p) == inGame[p] => Len(own[Other(p)]) <= Len(known[p]) + NumInputs

SentBound(p) == \A e \in sent[p] : e <= Len(own[p])

\* only the peer that is left behind sees the other ahead
AheadOfLeft(p) == ahead[p] => ~inGame[Other(p)]

KnownOf(p) ==
    \A i \in DOMAIN known[p] : i \in DOMAIN own[Other(p)] /\ known[p][i] = own[Other(p)][i]

WindowInv ==
    \A p \in Peer : /\ RunBound(p) /\ OwnBound(p) /\ WindowBound(p)
                    /\ AheadOfLeft(p) /\ KnownOf(p)

\* the windows are long enough for two peers with those rollbacks and delays
WindowFits ==
    TopRollback \in Nat /\ TopDelay \in Nat /\ 2 * TopRollback + 2 * TopDelay + 2 <= NumInputs

\* the rollbacks and delays in use stay within them
WithinTop == \A p \in Peer : rollback[p] <= TopRollback /\ delay[p] <= TopDelay

-----------------------------------------------------------------------------
(* The operators.                                                          *)

\* There are two peers.
LEMMA OtherPeer ==
  ASSUME NEW p \in Peer
  PROVE  Other(p) \in Peer /\ Other(p) # p /\ Other(Other(p)) = p
  BY DEF Peer, Other

\* get answers for every frame.
LEMMA InputAtType ==
  ASSUME NEW s \in Inputs, NEW f \in Nat
  PROVE  /\ InputAt(s, f) \in Input
         /\ f < Len(s) => InputAt(s, f) = s[f + 1]
<1>1. Len(s) \in Nat /\ DOMAIN s = 1 .. Len(s) /\ \A i \in 1 .. Len(s) : s[i] \in Input
  BY DEF Inputs
<1>2. LastOf(s) \in Input
  <2>1. CASE s = <<>>
    BY <2>1, InputAssumption DEF LastOf
  <2>2. CASE s # <<>>
    <3>1. Len(s) \in 1 .. Len(s)
      BY <2>2, EmptySeq, <1>1 DEF Inputs
    <3> QED
      BY <2>2, <3>1, <1>1 DEF LastOf
  <2> QED
    BY <2>1, <2>2
<1>3. f < Len(s) => f + 1 \in 1 .. Len(s)
  BY <1>1
<1> QED
  BY <1>1, <1>2, <1>3 DEF InputAt

\* resize keeps the inputs there are.
LEMMA ResizedFields ==
  ASSUME NEW s \in Inputs, NEW n \in Nat
  PROVE  /\ Resized(s, n) \in Inputs
         /\ Len(Resized(s, n)) = IF n > Len(s) THEN n ELSE Len(s)
         /\ \A i \in DOMAIN s : i \in DOMAIN Resized(s, n) /\ Resized(s, n)[i] = s[i]
<1> DEFINE m == IF n > Len(s) THEN n ELSE Len(s)
<1>1. Len(s) \in Nat /\ DOMAIN s = 1 .. Len(s) /\ m \in Nat
  BY DEF Inputs
<1>2. \A i \in 1 .. m : InputAt(s, i - 1) \in Input
  <2> TAKE i \in 1 .. m
  <2>1. PICK f \in Nat : f = i - 1
    OBVIOUS
  <2> QED
    BY <2>1, InputAtType
<1>3. Resized(s, n) = [i \in 1 .. m |-> InputAt(s, i - 1)]
  BY DEF Resized
<1> HIDE DEF m
<1>4. Resized(s, n) \in Inputs
  BY <1>1, <1>2, <1>3, IsASeq DEF Inputs
<1>5. DOMAIN Resized(s, n) = 1 .. m
  BY <1>3
<1>6. Len(Resized(s, n)) = m
  BY <1>1, <1>4, <1>5, LenProperties DEF Inputs
<1>7. ASSUME NEW i \in DOMAIN s
      PROVE  i \in DOMAIN Resized(s, n) /\ Resized(s, n)[i] = s[i]
  <2>1. i \in 1 .. m
    BY <1>1 DEF m
  <2>2. PICK f \in Nat : f = i - 1 /\ i = f + 1 /\ f < Len(s)
    BY <1>1
  <2>3. InputAt(s, f) = s[i]
    BY <2>2, InputAtType
  <2> QED
    BY <1>3, <1>5, <2>1, <2>2, <2>3
<1> QED
  BY <1>4, <1>6, <1>7 DEF m

\* set appends to the inputs there are.
LEMMA RecordedFields ==
  ASSUME NEW s \in Inputs, NEW f \in Nat, NEW input \in Input
  PROVE  /\ Recorded(s, f, input) \in Inputs
         /\ Len(Recorded(s, f, input)) = IF f < Len(s) THEN Len(s) ELSE f + 1
         /\ \A i \in DOMAIN s :
               i \in DOMAIN Recorded(s, f, input) /\ Recorded(s, f, input)[i] = s[i]
<1>1. CASE f < Len(s)
  BY <1>1 DEF Recorded
<1>2. CASE ~(f < Len(s))
  <2>1. PICK n \in Nat : n = f + 1 /\ n > Len(s)
    BY <1>2 DEF Inputs
  <2> DEFINE r == Resized(s, n)
  <2>2. /\ r \in Inputs
        /\ Len(r) = n
        /\ \A i \in DOMAIN s : i \in DOMAIN r /\ r[i] = s[i]
    BY <2>1, ResizedFields
  <2> HIDE DEF r
  <2>3. Recorded(s, f, input) = [r EXCEPT ![n] = input]
    BY <1>2, <2>1 DEF Recorded, r
  <2>4. n \in 1 .. Len(r)
    BY <2>1, <2>2
  <2>5. [r EXCEPT ![n] = input] \in Inputs /\ Len([r EXCEPT ![n] = input]) = n
    BY <2>2, <2>4, ExceptSeq DEF Inputs
  <2>6. \A i \in DOMAIN s : i # n
    BY <2>1 DEF Inputs
  <2> QED
    BY <1>2, <2>1, <2>2, <2>3, <2>5, <2>6
<1> QED
  BY <1>1, <1>2

\* A window that starts within what is known, and carries what its sender
\* recorded, leaves nothing but recorded inputs.
LEMMA ReceivedFields ==
  ASSUME NEW s \in Inputs, NEW source \in Inputs, NEW e \in Nat, e <= Len(source)
  PROVE  LET r == Received(s, source, e) IN
         /\ r \in Inputs
         /\ Len(r) = IF e > Len(s) THEN e ELSE Len(s)
         /\ (/\ \A i \in DOMAIN s : i \in DOMAIN source /\ s[i] = source[i]
             /\ e <= Len(s) + NumInputs)
            => \A i \in DOMAIN r : i \in DOMAIN source /\ r[i] = source[i]
<1> DEFINE z == Resized(s, e)
           m == IF e > Len(s) THEN e ELSE Len(s)
<1>1. /\ z \in Inputs /\ Len(z) = m /\ m \in Nat
      /\ \A i \in DOMAIN s : i \in DOMAIN z /\ z[i] = s[i]
  BY ResizedFields DEF Inputs
<1>2. /\ DOMAIN z = 1 .. m /\ DOMAIN s = 1 .. Len(s) /\ DOMAIN source = 1 .. Len(source)
      /\ Len(s) \in Nat /\ Len(source) \in Nat /\ StartFrame(e) \in Nat /\ e <= m
      /\ (e <= Len(s) + NumInputs => StartFrame(e) <= Len(s))
  BY <1>1, ConfigAssumption DEF StartFrame, Inputs
<1>3. \A i \in 1 .. m : z[i] \in Input
  BY <1>1 DEF Inputs
<1>4. \A i \in 1 .. Len(source) : source[i] \in Input
  BY DEF Inputs
<1> DEFINE r == Received(s, source, e)
<1>5. r = [i \in 1 .. m |-> IF i > StartFrame(e) /\ i <= e THEN source[i] ELSE z[i]]
  BY <1>2 DEF Received
<1> HIDE DEF z, m, r
<1>6. \A i \in 1 .. m : r[i] \in Input
  BY <1>2, <1>3, <1>4, <1>5
<1>7. r \in Inputs /\ Len(r) = m
  <2>1. r \in Seq(Input)
    <3>1. DOMAIN r = 1 .. m
      BY <1>5
    <3>2. r = [i \in 1 .. m |-> r[i]]
      BY <1>5
    <3> QED
      BY <1>1, <1>6, <3>2, IsASeq
  <2>2. DOMAIN r = 1 .. m
    BY <1>5
  <2> QED
    BY <2>1, <2>2, <1>1, LenProperties DEF Inputs
<1>8. ASSUME \A i \in DOMAIN s : i \in DOMAIN source /\ s[i] = source[i],
             e <= Len(s) + NumInputs,
             NEW i \in DOMAIN r
      PROVE  i \in DOMAIN source /\ r[i] = source[i]
  <2>1. i \in 1 .. m
    BY <1>8, <1>5
  <2>2. CASE i > StartFrame(e) /\ i <= e
    BY <2>1, <2>2, <1>2, <1>5
  <2>3. CASE ~(i > StartFrame(e) /\ i <= e)
    <3>1. i \in DOMAIN s
      BY <2>1, <2>3, <1>2, <1>8 DEF m
    <3>2. r[i] = z[i]
      BY <2>1, <2>3, <1>5
    <3> QED
      BY <3>1, <3>2, <1>1, <1>8
  <2> QED
    BY <2>2, <2>3
<1> QED
  BY <1>7, <1>8 DEF r, m

\* Ascending, by position.
LEMMA AscendingByPosition ==
  ASSUME NEW s \in Seq(Nat)
  PROVE  /\ Len(s) \in Nat /\ DOMAIN s = 1 .. Len(s)
         /\ \A i \in 1 .. Len(s) : s[i] \in Nat
         /\ Ascending(s) <=> \A i, j \in 1 .. Len(s) : i < j => s[i] < s[j]
<1>1. Len(s) \in Nat /\ DOMAIN s = 1 .. Len(s) /\ \A i \in 1 .. Len(s) : s[i] \in Nat
  OBVIOUS
<1> QED
  BY <1>1, Zenon DEF Ascending

\* Leaving out positions keeps a sequence ascending.
LEMMA SelectedAscending ==
  ASSUME NEW s \in Seq(Nat), NEW v \in Seq(Nat), NEW f \in Nat, Ascending(s),
         \A i \in 1 .. Len(s) : s[i] < f,
         NEW g \in [1 .. Len(v) -> 1 .. Len(s)],
         \A i, j \in 1 .. Len(v) : i < j => g[i] < g[j],
         \A i \in 1 .. Len(v) : v[i] = s[g[i]]
  PROVE  Ascending(v) /\ \A i \in DOMAIN v : v[i] < f
<1>1. \A i, j \in 1 .. Len(s) : i < j => s[i] < s[j]
  BY AscendingByPosition
<1>2. ASSUME NEW i \in 1 .. Len(v), NEW j \in 1 .. Len(v), i < j
      PROVE  v[i] < v[j]
  <2>1. g[i] \in 1 .. Len(s) /\ g[j] \in 1 .. Len(s) /\ g[i] < g[j]
    BY <1>2
  <2>2. s[g[i]] < s[g[j]]
    BY <2>1, <1>1, Zenon
  <2> QED
    BY <2>2, <1>2, Zenon
<1>3. ASSUME NEW i \in 1 .. Len(v)
      PROVE  v[i] < f
  <2>1. g[i] \in 1 .. Len(s)
    OBVIOUS
  <2> QED
    BY <2>1, Zenon
<1> QED
  BY <1>2, <1>3, AscendingByPosition, Zenon

\* saveState makes room for the new frame, and keeps an older one.
LEMMA SavedFields ==
  ASSUME NEW s \in Seq(Nat), NEW f \in Nat, NEW remote \in Nat, Ascending(s),
         \A i \in DOMAIN s : s[i] < f, f > 0 => s # <<>>
  PROVE  LET r == Saved(s, f, remote) IN
         /\ r \in Seq(Nat) /\ Ascending(r)
         /\ r # <<>> /\ r[Len(r)] = f
         /\ f > 0 => Len(r) > 1
<1> DEFINE t == IF Len(s) < PoolSize THEN s
                ELSE IF s[1] <= remote THEN <<s[1]>> \o SubSeq(s, 3, Len(s))
                ELSE Tail(s)
<1>1. /\ Len(s) \in Nat /\ DOMAIN s = 1 .. Len(s) /\ PoolSize \in Nat /\ PoolSize > 1
      /\ \A i \in 1 .. Len(s) : s[i] \in Nat
      /\ \A i, j \in 1 .. Len(s) : i < j => s[i] < s[j]
      /\ \A i \in 1 .. Len(s) : s[i] < f
  BY ConfigAssumption, AscendingByPosition
<1>2. /\ t \in Seq(Nat) /\ Ascending(t) /\ \A i \in DOMAIN t : t[i] < f
      /\ f > 0 => Len(t) > 0
  <2>1. CASE Len(s) < PoolSize
    BY <2>1, <1>1, EmptySeq
  <2>2. CASE ~(Len(s) < PoolSize) /\ s[1] <= remote
    <3>1. Len(s) >= 2 /\ s # <<>>
      BY <2>2, <1>1
    <3> DEFINE u == SubSeq(s, 3, Len(s))
    <3>2. /\ u \in Seq(Nat) /\ Len(u) = Len(s) - 2
          /\ \A i \in 1 .. Len(s) - 2 : u[i] = s[i + 2]
      BY <3>1, <1>1
    <3> HIDE DEF u
    <3>3. PICK w \in Seq(Nat) : w = <<s[1]>> /\ Len(w) = 1 /\ w[1] = s[1]
      <4>1. PICK x \in Nat : x = s[1]
        BY <3>1, <1>1
      <4>2. <<x>> \in Seq(Nat) /\ Len(<<x>>) = 1 /\ <<x>>[1] = x
        OBVIOUS
      <4> QED
        BY <4>1, <4>2
    <3>4. t = w \o u
      BY <2>2, <3>3 DEF u
    <3>5. PICK v \in Seq(Nat) : v = w \o u
      BY <3>2, <3>3, ConcatProperties
    <3>6. /\ Len(v) = Len(w) + Len(u)
          /\ \A i \in 1 .. Len(v) : v[i] = IF i <= Len(w) THEN w[i] ELSE u[i - Len(w)]
      BY <3>2, <3>3, <3>5, ConcatProperties
    <3>9. /\ Len(v) = Len(s) - 1 /\ v[1] = s[1]
          /\ \A i \in 2 .. Len(s) - 1 : v[i] = s[i + 1]
      <4>1. Len(v) = Len(s) - 1 /\ v[1] = s[1]
        BY <3>1, <3>2, <3>3, <3>6, <1>1
      <4>2. ASSUME NEW i \in 2 .. Len(s) - 1
            PROVE  v[i] = s[i + 1]
        <5>1. i \in 1 .. Len(v) /\ ~(i <= Len(w)) /\ i - Len(w) = i - 1
          BY <3>1, <3>3, <4>1, <1>1
        <5>2. v[i] = u[i - 1]
          BY <5>1, <3>6
        <5>3. PICK k \in 1 .. Len(s) - 2 : k = i - 1
          BY <3>1, <1>1
        <5>4. u[k] = s[k + 2] /\ k + 2 = i + 1
          BY <5>3, <3>2
        <5> QED
          BY <5>2, <5>3, <5>4
      <4> QED
        BY <4>1, <4>2
    <3>7. Ascending(v) /\ \A i \in DOMAIN v : v[i] < f
      <4>1. PICK n \in Nat : n = Len(v) /\ Len(s) = n + 1 /\ n >= 1
        BY ONLY <3>1, <3>9, <1>1
      <4> DEFINE g == [i \in 1 .. n |-> IF i = 1 THEN 1 ELSE i + 1]
      <4>2. g \in [1 .. n -> 1 .. n + 1]
        BY <4>1
      <4>3. \A i, j \in 1 .. n : i < j => g[i] < g[j]
        BY <4>1
      <4>4. \A i \in 1 .. n : v[i] = s[g[i]]
        <5> TAKE i \in 1 .. n
        <5>1. CASE i = 1
          BY <5>1, <3>9
        <5>2. CASE i # 1
          BY <5>2, <4>1, <3>9
        <5> QED
          BY <5>1, <5>2
      <4> HIDE DEF g
      <4> QED
        <5>1. g \in [1 .. Len(v) -> 1 .. Len(s)]
          BY <4>1, <4>2
        <5>2. /\ \A i, j \in 1 .. Len(v) : i < j => g[i] < g[j]
              /\ \A i \in 1 .. Len(v) : v[i] = s[g[i]]
          BY <4>1, <4>3, <4>4
        <5> QED
          BY <5>1, <5>2, <1>1, SelectedAscending
    <3>8. Len(v) > 0
      BY ONLY <3>1, <3>9, <1>1
    <3>10. t = v
      BY <3>4, <3>5
    <3> HIDE DEF t
    <3> QED
      BY <3>7, <3>8, <3>10
  <2>3. CASE ~(Len(s) < PoolSize) /\ ~(s[1] <= remote)
    <3>1. Len(s) >= 2 /\ s # <<>>
      BY <2>3, <1>1
    <3>2. /\ Tail(s) \in Seq(Nat) /\ Len(Tail(s)) = Len(s) - 1
          /\ \A i \in 1 .. Len(s) - 1 : Tail(s)[i] = s[i + 1]
      BY <3>1
    <3>3. PICK v \in Seq(Nat) : v = Tail(s)
      BY <3>2
    <3>4. t = v
      BY <2>3, <3>3
    <3>5. Ascending(v) /\ \A i \in DOMAIN v : v[i] < f
      <4>1. Len(v) = Len(s) - 1 /\ \A i \in 1 .. Len(s) - 1 : v[i] = s[i + 1]
        BY <3>2, <3>3
      <4> DEFINE g == [i \in 1 .. Len(v) |-> i + 1]
      <4>2. g \in [1 .. Len(v) -> 1 .. Len(s)]
        <5>1. \A i \in 1 .. Len(v) : i + 1 \in 1 .. Len(s)
          BY <4>1, <1>1
        <5> QED
          BY <5>1
      <4>3. \A i, j \in 1 .. Len(v) : i < j => g[i] < g[j]
        BY <4>1, <1>1
      <4>4. \A i \in 1 .. Len(v) : v[i] = s[g[i]]
        BY <4>1, <1>1
      <4> HIDE DEF g
      <4> QED
        BY <4>2, <4>3, <4>4, <1>1, SelectedAscending
    <3>6. Len(v) > 0
      BY ONLY <3>1, <3>2, <3>3, <1>1
    <3> HIDE DEF t
    <3> QED
      BY <3>4, <3>5, <3>6
  <2> QED
    BY <2>1, <2>2, <2>3
<1>3. Saved(s, f, remote) = Append(t, f)
  BY DEF Saved
<1> HIDE DEF t
<1>4. PICK r \in Seq(Nat) : r = Append(t, f)
  BY <1>2, AppendProperties
<1>5. /\ Len(r) = Len(t) + 1 /\ r[Len(t) + 1] = f
      /\ \A i \in 1 .. Len(t) : r[i] = t[i]
  BY <1>2, <1>4, AppendProperties
<1>6. /\ Len(t) \in Nat /\ DOMAIN t = 1 .. Len(t) /\ DOMAIN r = 1 .. Len(t) + 1
      /\ \A i, j \in 1 .. Len(t) : i < j => t[i] < t[j]
  BY <1>2, <1>5, AscendingByPosition
<1>7. Ascending(r)
  <2>1. ASSUME NEW i \in 1 .. Len(r), NEW j \in 1 .. Len(r), i < j
        PROVE  r[i] < r[j]
    <3>1. i \in 1 .. Len(t) /\ r[i] = t[i]
      BY <2>1, <1>5, <1>6
    <3>2. CASE j = Len(t) + 1
      BY <3>1, <3>2, <1>2, <1>5, <1>6
    <3>3. CASE j # Len(t) + 1
      <4>1. j \in 1 .. Len(t) /\ r[j] = t[j]
        BY <3>3, <1>5, <1>6
      <4> QED
        BY <2>1, <3>1, <4>1, <1>6
    <3> QED
      BY <3>2, <3>3
  <2> QED
    BY <2>1, AscendingByPosition
<1>8. r # <<>> /\ r[Len(r)] = f /\ (f > 0 => Len(r) > 1)
  <2>1. Len(r) = Len(t) + 1 /\ r[Len(r)] = f
    BY <1>5
  <2>2. r # <<>>
    BY <2>1, <1>6
  <2> QED
    BY <2>1, <2>2, <1>2, <1>6
<1> QED
  BY <1>3, <1>4, <1>7, <1>8

\* loadState takes a state of an earlier frame when there is one.
LEMMA LoadPositionFields ==
  ASSUME NEW s \in Seq(Nat), NEW f \in Nat, s # <<>>, f < s[Len(s)], Len(s) > 1
  PROVE  LoadPosition(s, f) \in 1 .. Len(s) - 1
<1> DEFINE before == {i \in DOMAIN s : s[i] <= f}
<1>1. Len(s) \in Nat /\ DOMAIN s = 1 .. Len(s) /\ \A i \in 1 .. Len(s) : s[i] \in Nat
  OBVIOUS
<1>2. before \subseteq 1 .. Len(s) - 1
  BY <1>1
<1>3. IsFiniteSet(1 .. Len(s) - 1) /\ Cardinality(1 .. Len(s) - 1) = Len(s) - 1
  <2>1. PICK n \in Int : n = Len(s) - 1 /\ n >= 1
    <3>1. Len(s) - 1 \in Int /\ Len(s) - 1 >= 1
      BY ONLY Len(s) \in Nat, Len(s) > 1
    <3> QED
      BY <3>1
  <2>2. IsFiniteSet(1 .. n) /\ Cardinality(1 .. n) = n
    BY <2>1, FS_Interval
  <2> QED
    BY <2>1, <2>2
<1> HIDE DEF before
<1>4. IsFiniteSet(before) /\ Cardinality(before) <= Len(s) - 1
  BY <1>2, <1>3, FS_Subset
<1>5. Cardinality(before) \in Nat /\ (before # {} => Cardinality(before) # 0)
  BY <1>4, FS_CardinalityType, FS_EmptySet
<1>6. LoadPosition(s, f) = IF before = {} THEN 1 ELSE Cardinality(before)
  BY DEF LoadPosition, before
<1> QED
  BY <1>1, <1>4, <1>5, <1>6

\* The timers of a peer stay in their ranges.
LEMMA TimerTypes ==
  ASSUME TypeOK, NEW p \in Peer
  PROVE  /\ Spacing(rollback[p]) \in Nat /\ Spacing(rollback[p]) >= 2
         /\ NextRollbackTimer(p) \in Nat
         /\ NextRoundOverTimer(p) \in Nat \union {-1}
<1>1. /\ rollback[p] \in Nat /\ rollbackTimer[p] \in Nat
      /\ roundOverTimer[p] \in Nat \union {-1} /\ RoundOverDelay \in Nat
  BY ConfigAssumption DEF TypeOK
<1>2. Spacing(rollback[p]) \in Nat /\ Spacing(rollback[p]) >= 2
  BY <1>1 DEF Spacing
<1>3. NextRollbackTimer(p) \in Nat
  BY <1>1, <1>2 DEF NextRollbackTimer
<1>4. NextRoundOverTimer(p) \in Nat \union {-1}
  BY <1>1 DEF NextRoundOverTimer
<1> QED
  BY <1>2, <1>3, <1>4

\* getRemoteFrame counts from zero.
LEMMA RemoteFrameType ==
  ASSUME TypeOK, NEW p \in Peer
  PROVE  RemoteFrame(p) \in Nat
<1>1. known[p] \in Seq(Input)
  BY DEF TypeOK, Inputs
<1>2. Len(known[p]) \in Nat /\ (known[p] # <<>> => Len(known[p]) # 0)
  BY <1>1, EmptySeq
<1> QED
  BY <1>2 DEF RemoteFrame

-----------------------------------------------------------------------------
(* The types, and what they need to know of the saved states.              *)

\* The round starts typed.
LEMMA InitTypeInv ==
  ASSUME Init
  PROVE  TypeInv
<1>1. <<>> \in Inputs /\ <<>> \in Seq(Nat) /\ Len(<<>>) = 0
  BY EmptySeq DEF Inputs
<1>2. \A p \in Peer : StartRollback[p] \in Nat
  BY ConfigAssumption
<1>3. \A p \in Peer : Spacing(StartRollback[p]) \in Nat
  BY <1>2 DEF Spacing
<1>4. TypeOK
  BY <1>1, <1>3, ConfigAssumption DEF Init, TypeOK, Never
<1>5. \A p \in Peer : SavedBefore(p) /\ SavedNow(p) /\ PlayedEach(p)
  BY <1>1 DEF Init, SavedBefore, SavedNow, PlayedEach, Ascending
<1> QED
  BY <1>4, <1>5 DEF TypeInv

\* What only concerns other peers is kept.
LEMMA OthersKept ==
  ASSUME TypeInv, NEW q \in Peer,
         frame'[q] = frame[q], phase'[q] = phase[q], inGame'[q] = inGame[q],
         saved'[q] = saved[q], played'[q] = played[q], stopFrame'[q] = stopFrame[q]
  PROVE  SavedBefore(q)' /\ SavedNow(q)' /\ PlayedEach(q)'
  BY DEF TypeInv, SavedBefore, SavedNow, PlayedEach

\* Leaving the round.
LEMMA LeaveTypeInv ==
  ASSUME TypeInv, NEW p \in Peer, Leave(p)
  PROVE  TypeInv'
<1>1. TypeOK'
  <2>1. <<>> \in Seq(Nat)
    OBVIOUS
  <2> QED
    BY <2>1 DEF TypeInv, TypeOK, Leave
<1>2. ASSUME NEW q \in Peer
      PROVE  SavedBefore(q)' /\ SavedNow(q)' /\ PlayedEach(q)'
  <2>1. CASE q = p
    BY <2>1 DEF TypeInv, TypeOK, Leave, SavedBefore, SavedNow, PlayedEach
  <2>2. CASE q # p
    BY <2>2, OthersKept DEF TypeInv, TypeOK, Leave
  <2> QED
    BY <2>1, <2>2
<1> QED
  BY <1>1, <1>2 DEF TypeInv

\* Beginning a frame: the state of this frame is saved.
LEMMA BeginTypeInv ==
  ASSUME TypeInv, NEW p \in Peer, NEW input \in Input, BeginFrame(p, input)
  PROVE  TypeInv'
<1>1. TypeOK /\ SavedBefore(p) /\ SavedNow(p) /\ PlayedEach(p)
  BY DEF TypeInv
<1>2. PICK f \in Nat : f = frame[p]
  BY <1>1 DEF TypeOK
<1>3. PICK remote \in Nat : remote = RemoteFrame(p)
  BY <1>1, RemoteFrameType
<1>4. PICK s \in Seq(Nat) : s = saved[p]
  BY <1>1 DEF TypeOK
<1> DEFINE r == Saved(s, f, remote)
<1>5. r \in Seq(Nat) /\ Ascending(r) /\ r # <<>> /\ r[Len(r)] = f /\ (f > 0 => Len(r) > 1)
  <2>1. /\ Ascending(s) /\ (\A i \in DOMAIN s : s[i] < f)
        /\ (f > 0 => s # <<>>)
    BY <1>1, <1>2, <1>4 DEF SavedBefore, BeginFrame
  <2> QED
    BY <2>1, SavedFields
<1>6. saved' = [saved EXCEPT ![p] = r]
  BY <1>2, <1>3, <1>4 DEF BeginFrame
<1> HIDE DEF r
<1>7. PICK recorded \in Inputs : recorded = Recorded(own[p], frame[p] + delay[p], input)
  <2>1. own[p] \in Inputs /\ frame[p] + delay[p] \in Nat
    BY <1>1, ConfigAssumption DEF TypeOK
  <2> QED
    BY <2>1, RecordedFields
<1>8. own' = [own EXCEPT ![p] = recorded]
  BY <1>7 DEF BeginFrame, SetInput
<1>9. own' \in [Peer -> Inputs]
  BY <1>1, <1>8 DEF TypeOK
<1>10. sent' \in [Peer -> SUBSET Nat]
  <2>1. own'[p] \in Seq(Input)
    BY <1>9 DEF Inputs
  <2>2. Len(own'[p]) \in Nat
    BY <2>1
  <2> QED
    BY <1>1, <2>2 DEF TypeOK, BeginFrame, GetInputs
<1>11. roundOverTimer' \in [Peer -> Nat \union {-1}]
  <2>1. PICK t \in Nat \union {-1} : t = NextRoundOverTimer(p)
    BY <1>1, TimerTypes
  <2>2. roundOverTimer' = [roundOverTimer EXCEPT ![p] = IF t > 0 THEN t - 1 ELSE t]
    BY <2>1 DEF BeginFrame
  <2>3. (IF t > 0 THEN t - 1 ELSE t) \in Nat \union {-1}
    OBVIOUS
  <2> QED
    BY <1>1, <2>2, <2>3 DEF TypeOK
<1>12. TypeOK'
  <2>1. changed' \in [Peer -> Nat \union {Never}]
    BY <1>1 DEF TypeOK, BeginFrame
  <2>2. phase' \in [Peer -> {"step", "poll"}]
    BY <1>1 DEF TypeOK, BeginFrame
  <2>3. saved' \in [Peer -> Seq(Nat)]
    BY <1>1, <1>5, <1>6 DEF TypeOK
  <2> QED
    BY <1>1, <1>9, <1>10, <1>11, <2>1, <2>2, <2>3 DEF TypeOK, BeginFrame
<1>13. ASSUME NEW q \in Peer
       PROVE  SavedBefore(q)' /\ SavedNow(q)' /\ PlayedEach(q)'
  <2>1. CASE q = p
    BY <2>1, <1>1, <1>2, <1>5, <1>6 DEF TypeOK, BeginFrame, SavedBefore, SavedNow, PlayedEach
  <2>2. CASE q # p
    BY <2>2, <1>1, <1>6, OthersKept DEF TypeOK, BeginFrame
  <2> QED
    BY <2>1, <2>2
<1> QED
  BY <1>12, <1>13 DEF TypeInv

\* There is an earliest frame.
LEMMA SmallestFrame ==
  ASSUME NEW frames, frames \subseteq Nat, frames # {}
  PROVE  \E f \in frames : \A g \in frames : f <= g
<1>1. \E f \in frames : \A g \in frames : ~(<<g, f>> \in OpToRel(<, Nat))
  BY NatLessThanWellFounded, WFMin
<1>2. PICK f \in frames : \A g \in frames : ~(<<g, f>> \in OpToRel(<, Nat))
  BY <1>1
<1>3. \A g \in frames : g \in Nat /\ f \in Nat /\ ~(g < f)
  BY <1>2 DEF OpToRel
<1> QED
  BY <1>3

\* The earliest contradicted frame is a frame.
LEMMA NextChangedType ==
  ASSUME NEW before \in Nat \union {Never}, NEW s, NEW source, NEW e \in Nat
  PROVE  NextChanged(before, Contradicted(s, source, e)) \in Nat \union {Never}
<1> DEFINE frames == Contradicted(s, source, e)
<1>1. frames \subseteq Nat
  BY ConfigAssumption DEF Contradicted, StartFrame
<1> SUFFICES NextChanged(before, frames) \in Nat \union {Never}
  OBVIOUS
<1> HIDE DEF frames
<1>2. CASE frames = {}
  BY <1>2 DEF NextChanged
<1>3. CASE frames # {}
  <2>1. \E f \in frames : \A g \in frames : f <= g
    BY <1>1, <1>3, SmallestFrame
  <2>2. Earliest(frames) \in frames
    BY <2>1 DEF Earliest
  <2> QED
    BY <1>1, <2>2, <1>3 DEF NextChanged
<1> QED
  BY <1>2, <1>3

\* Taking a packet touches neither the frame nor the saved states.
LEMMA ReceiveTypeInv ==
  ASSUME TypeInv, NEW p \in Peer, NEW e \in sent[Other(p)], ReceiveInputs(p, e),
         e <= Len(own[Other(p)])
  PROVE  TypeInv'
<1>1. TypeOK /\ Other(p) \in Peer
  BY OtherPeer DEF TypeInv
<1>2. e \in Nat /\ known[p] \in Inputs /\ own[Other(p)] \in Inputs
  BY <1>1 DEF TypeOK
<1>3. Received(known[p], own[Other(p)], e) \in Inputs
  BY <1>2, ReceivedFields
<1>4. known' \in [Peer -> Inputs]
  BY <1>1, <1>3 DEF TypeOK, ReceiveInputs
<1>5. changed' \in [Peer -> Nat \union {Never}]
  BY <1>1, <1>2, NextChangedType DEF TypeOK, ReceiveInputs
<1>6. TypeOK'
  BY <1>1, <1>4, <1>5 DEF TypeOK, ReceiveInputs
<1>7. ASSUME NEW q \in Peer
      PROVE  SavedBefore(q)' /\ SavedNow(q)' /\ PlayedEach(q)'
  BY OthersKept DEF ReceiveInputs
<1> QED
  BY <1>6, <1>7 DEF TypeInv

\* So does learning that the other peer has left.
LEMMA ReceiveIndexTypeInv ==
  ASSUME TypeInv, NEW p \in Peer, ReceiveIndex(p)
  PROVE  TypeInv'
<1>1. TypeOK'
  BY DEF TypeInv, TypeOK, ReceiveIndex
<1>2. ASSUME NEW q \in Peer
      PROVE  SavedBefore(q)' /\ SavedNow(q)' /\ PlayedEach(q)'
  BY OthersKept DEF ReceiveIndex
<1> QED
  BY <1>1, <1>2 DEF TypeInv

\* The last of an ascending sequence is its largest.
LEMMA LastIsLargest ==
  ASSUME NEW s \in Seq(Nat), Ascending(s), s # <<>>
  PROVE  \A i \in DOMAIN s : s[i] < s[Len(s)] + 1
<1>1. /\ Len(s) \in Nat /\ DOMAIN s = 1 .. Len(s)
      /\ \A i, j \in 1 .. Len(s) : i < j => s[i] < s[j]
      /\ \A i \in 1 .. Len(s) : s[i] \in Nat
  BY AscendingByPosition
<1> TAKE i \in DOMAIN s
<1>2. PICK n \in Nat : n = Len(s)
  BY <1>1
<1>3. i \in 1 .. n /\ n \in 1 .. n
  BY <1>1, <1>2
<1>4. s[i] \in Nat /\ s[n] \in Nat /\ (i < n => s[i] < s[n])
  BY <1>1, <1>2, <1>3
<1> QED
  BY <1>2, <1>3, <1>4

\* Playing a frame appends one input.
LEMMA PlayTypeInv ==
  ASSUME TypeInv, NEW p \in Peer, PlayFrame(p),
         rollback' \in [Peer -> 1 .. MaxRollback], delay' \in [Peer -> 0 .. MaxDelay],
         changes' \in [Peer -> Nat]
  PROVE  TypeInv'
<1>1. TypeOK /\ SavedBefore(p) /\ SavedNow(p) /\ PlayedEach(p)
  BY DEF TypeInv
<1>2. /\ frame[p] \in Nat /\ known[p] \in Inputs /\ played[p] \in Inputs
      /\ saved[p] \in Seq(Nat)
  BY <1>1 DEF TypeOK
<1>3. PICK x \in Input : x = InputAt(known[p], frame[p])
  BY <1>2, InputAtType
<1>4. Append(played[p], x) \in Inputs /\ Len(Append(played[p], x)) = frame[p] + 1
  BY <1>1, <1>2, AppendProperties DEF PlayedEach, Inputs
<1>5. played' = [played EXCEPT ![p] = Append(played[p], x)]
  BY <1>3 DEF PlayFrame
<1>6. rollbackTimer' \in [Peer -> Nat]
  BY <1>1, TimerTypes DEF TypeOK, PlayFrame
<1>7. frame' \in [Peer -> Nat] /\ phase' \in [Peer -> {"step", "poll"}]
  BY <1>1, <1>2 DEF TypeOK, PlayFrame
<1>8. played' \in [Peer -> Inputs]
  BY <1>1, <1>4, <1>5 DEF TypeOK
<1>9. TypeOK'
  BY <1>1, <1>6, <1>7, <1>8 DEF TypeOK, PlayFrame
<1>10. ASSUME NEW q \in Peer
       PROVE  SavedBefore(q)' /\ SavedNow(q)' /\ PlayedEach(q)'
  <2>1. CASE q = p
    <3>1. frame'[p] = frame[p] + 1 /\ phase'[p] = "step" /\ saved'[p] = saved[p]
          /\ inGame[p] /\ inGame'[p] = inGame[p] /\ phase[p] = "poll"
      BY <1>1 DEF TypeOK, PlayFrame
    <3>2. PlayedEach(p)'
      BY <1>1, <1>4, <1>5, <3>1 DEF PlayedEach, TypeOK
    <3>3. /\ Ascending(saved[p]) /\ saved[p] # <<>> /\ saved[p][Len(saved[p])] = frame[p]
      BY <1>1, <3>1 DEF SavedNow
    <3>4. \A i \in DOMAIN saved[p] : saved[p][i] < frame[p] + 1
      BY <1>2, <3>3, LastIsLargest
    <3> QED
      BY <2>1, <3>1, <3>2, <3>3, <3>4 DEF SavedBefore, SavedNow
  <2>2. CASE q # p
    BY <2>2, <1>1, <1>5, OthersKept DEF TypeOK, PlayFrame
  <2> QED
    BY <2>1, <2>2
<1> QED
  BY <1>9, <1>10 DEF TypeInv

\* So does playing one again.
LEMMA RerunTypeInv ==
  ASSUME TypeInv, NEW p \in Peer, RerunFrame(p)
  PROVE  TypeInv'
<1>1. TypeOK /\ SavedBefore(p) /\ SavedNow(p) /\ PlayedEach(p)
  BY DEF TypeInv
<1>2. /\ frame[p] \in Nat /\ known[p] \in Inputs /\ played[p] \in Inputs
      /\ saved[p] \in Seq(Nat)
  BY <1>1 DEF TypeOK
<1>3. PICK x \in Input : x = InputAt(known[p], frame[p])
  BY <1>2, InputAtType
<1>4. Append(played[p], x) \in Inputs /\ Len(Append(played[p], x)) = frame[p] + 1
  BY <1>1, <1>2, AppendProperties DEF PlayedEach, Inputs
<1>5. played' = [played EXCEPT ![p] = Append(played[p], x)]
  BY <1>3 DEF RerunFrame
<1>6. roundOverTimer' \in [Peer -> Nat \union {-1}]
  BY <1>1, TimerTypes DEF TypeOK, RerunFrame
<1>7. frame' \in [Peer -> Nat] /\ stopFrame' \in [Peer -> Nat]
  BY <1>1, <1>2 DEF TypeOK, RerunFrame
<1>8. played' \in [Peer -> Inputs]
  BY <1>1, <1>4, <1>5 DEF TypeOK
<1>9. TypeOK'
  BY <1>1, <1>6, <1>7, <1>8 DEF TypeOK, RerunFrame
<1>10. ASSUME NEW q \in Peer
       PROVE  SavedBefore(q)' /\ SavedNow(q)' /\ PlayedEach(q)'
  <2>1. CASE q = p
    <3>1. frame'[p] = frame[p] + 1 /\ phase'[p] = "step" /\ saved'[p] = saved[p]
          /\ inGame[p] /\ inGame'[p] = inGame[p] /\ phase[p] = "step"
      BY <1>1 DEF TypeOK, RerunFrame
    <3>2. PlayedEach(p)'
      BY <1>1, <1>4, <1>5, <3>1 DEF PlayedEach, TypeOK
    <3>3. /\ Ascending(saved[p]) /\ (\A i \in DOMAIN saved[p] : saved[p][i] < frame[p])
          /\ saved[p] # <<>>
      BY <1>1, <3>1 DEF SavedBefore, RerunFrame
    <3>4. \A i \in DOMAIN saved[p] : saved[p][i] < frame[p] + 1
      BY <1>2, <3>3, AscendingByPosition
    <3> QED
      BY <2>1, <3>1, <3>2, <3>3, <3>4 DEF SavedBefore, SavedNow
  <2>2. CASE q # p
    BY <2>2, <1>1, <1>5, OthersKept DEF TypeOK, RerunFrame
  <2> QED
    BY <2>1, <2>2
<1> QED
  BY <1>9, <1>10 DEF TypeInv

\* A rollback finds the state of an earlier frame.
LEMMA RollBackTarget ==
  ASSUME TypeInv, NEW p \in Peer, RollBack(p)
  PROVE  LoadPosition(saved[p], changed[p]) \in 1 .. Len(saved[p]) - 1
<1>1. TypeOK /\ SavedNow(p)
  BY DEF TypeInv
<1>2. PICK s \in Seq(Nat) : s = saved[p]
  BY <1>1 DEF TypeOK
<1>3. /\ changed[p] \in Nat /\ changed[p] < frame[p] /\ frame[p] \in Nat
  BY <1>1 DEF TypeOK, RollBack, MustRollBack
<1>4. s # <<>> /\ s[Len(s)] = frame[p] /\ Len(s) > 1
  BY <1>1, <1>2, <1>3 DEF SavedNow, RollBack
<1>5. LoadPosition(s, changed[p]) \in 1 .. Len(s) - 1
  BY <1>3, <1>4, LoadPositionFields
<1> QED
  BY <1>2, <1>5

\* What a prefix of a sequence is.
LEMMA PrefixFields ==
  ASSUME NEW S, NEW s \in Seq(S), NEW m \in 0 .. Len(s)
  PROVE  /\ SubSeq(s, 1, m) \in Seq(S) /\ Len(SubSeq(s, 1, m)) = m
         /\ \A i \in 1 .. m : SubSeq(s, 1, m)[i] = s[i]
  OBVIOUS

\* A rollback goes back to that state and plays its frame.
LEMMA RollBackTypeInv ==
  ASSUME TypeInv, NEW p \in Peer, RollBack(p)
  PROVE  TypeInv' /\ frame'[p] \in Nat /\ frame'[p] <= frame[p]
<1>1. TypeOK /\ SavedBefore(p) /\ SavedNow(p) /\ PlayedEach(p)
  BY DEF TypeInv
<1>2. PICK s \in Seq(Nat) : s = saved[p]
  BY <1>1 DEF TypeOK
<1>3. PICK n \in Nat : n = Len(s)
  OBVIOUS
<1>4. PICK last \in 1 .. n - 1 : last = LoadPosition(s, changed[p])
  BY <1>2, <1>3, RollBackTarget
<1>5. /\ \A i, j \in 1 .. n : i < j => s[i] < s[j]
      /\ \A i \in 1 .. n : s[i] \in Nat
      /\ s[n] = frame[p]
  <2>1. Ascending(s) /\ s[Len(s)] = frame[p]
    BY <1>1, <1>2 DEF SavedNow, RollBack
  <2> QED
    BY <2>1, <1>3, AscendingByPosition
<1>6. PICK target \in Nat : target = s[last]
  BY <1>4, <1>5
<1>7. target < frame[p]
  <2>1. last \in 1 .. n /\ n \in 1 .. n /\ last < n
    BY <1>4
  <2> QED
    BY <2>1, <1>5, <1>6
<1>8. last \in 0 .. Len(s)
  BY <1>3, <1>4
<1>9. PICK r \in Seq(Nat) :
        r = SubSeq(s, 1, last) /\ Len(r) = last /\ \A i \in 1 .. last : r[i] = s[i]
  BY <1>8, PrefixFields, Zenon
<1>10. /\ Ascending(r) /\ r # <<>>
       /\ \A i \in DOMAIN r : r[i] < target + 1
  <2>1. \A i \in 1 .. last : i \in 1 .. n
    BY <1>4
  <2>2. \A i, j \in 1 .. last : i < j => r[i] < r[j]
    BY <2>1, <1>5, <1>9
  <2>3. Ascending(r)
    BY <1>9, <2>2, AscendingByPosition
  <2>4. r # <<>> /\ r[Len(r)] = target
    <3>1. last \in 1 .. last /\ last # 0
      BY <1>4
    <3> QED
      BY <3>1, <1>6, <1>9
  <2> QED
    BY <2>3, <2>4, LastIsLargest
<1>11. PICK x \in Input : x = InputAt(known[p], target)
  <2>1. known[p] \in Inputs
    BY <1>1 DEF TypeOK
  <2> QED
    BY <2>1, InputAtType
<1>12. PICK given \in Inputs : given = SubSeq(played[p], 1, target) /\ Len(given) = target
  <2>1. PICK g \in Seq(Input) : g = played[p] /\ Len(g) = frame[p] /\ frame[p] \in Nat
    BY <1>1 DEF TypeOK, Inputs, PlayedEach
  <2>2. SubSeq(g, 1, target) \in Seq(Input) /\ Len(SubSeq(g, 1, target)) = target
    BY <2>1, <1>7, SubSeqProperties
  <2> QED
    BY <2>1, <2>2 DEF Inputs
<1>13. Append(given, x) \in Inputs /\ Len(Append(given, x)) = target + 1
  BY <1>12, AppendProperties DEF Inputs
<1>14. /\ saved' = [saved EXCEPT ![p] = r]
       /\ played' = [played EXCEPT ![p] = Append(given, x)]
       /\ frame' = [frame EXCEPT ![p] = target + 1]
  BY <1>2, <1>4, <1>6, <1>9, <1>11, <1>12 DEF RollBack
<1>15. /\ saved' \in [Peer -> Seq(Nat)] /\ frame' \in [Peer -> Nat]
       /\ played' \in [Peer -> Inputs]
  BY <1>1, <1>13, <1>14 DEF TypeOK
<1>16. rollbackTimer' \in [Peer -> Nat]
  <2>1. NextRollbackTimer(p) - 1 \in Nat
    BY <1>1, TimerTypes DEF RollBack, MustRollBack
  <2> QED
    BY <1>1, <2>1 DEF TypeOK, RollBack
<1>17. /\ stopFrame' \in [Peer -> Nat] /\ changed' \in [Peer -> Nat \union {Never}]
       /\ phase' \in [Peer -> {"step", "poll"}]
  BY <1>1 DEF TypeOK, RollBack
<1>18. TypeOK'
  BY <1>1, <1>15, <1>16, <1>17 DEF TypeOK, RollBack
<1>19. ASSUME NEW q \in Peer
       PROVE  SavedBefore(q)' /\ SavedNow(q)' /\ PlayedEach(q)'
  <2>1. CASE q = p
    <3>1. frame'[p] = target + 1 /\ saved'[p] = r /\ phase'[p] = "step"
          /\ played'[p] = Append(given, x)
      BY <1>1, <1>14 DEF TypeOK, RollBack
    <3> QED
      BY <2>1, <3>1, <1>10, <1>13 DEF SavedBefore, SavedNow, PlayedEach
  <2>2. CASE q # p
    <3>1. /\ frame'[q] = frame[q] /\ phase'[q] = phase[q] /\ inGame'[q] = inGame[q]
          /\ saved'[q] = saved[q] /\ played'[q] = played[q] /\ stopFrame'[q] = stopFrame[q]
      BY <2>2, <1>1, <1>14 DEF TypeOK, RollBack
    <3> QED
      BY <3>1, OthersKept
  <2> QED
    BY <2>1, <2>2
<1>20. frame'[p] = target + 1 /\ frame[p] \in Nat
  BY <1>1, <1>14 DEF TypeOK
<1> QED
  BY <1>7, <1>18, <1>19, <1>20 DEF TypeInv

\* A packet never holds more than its sender has recorded.
SentInv == \A p \in Peer : SentBound(p)

\* No step records less or sends more than is recorded.
LEMMA SentStep ==
  ASSUME TypeInv, SentInv, Next
  PROVE  SentInv'
<1>1. TypeOK
  BY DEF TypeInv
<1>2. PICK p \in Peer : Step(p)
  BY DEF Next
<1>3. ASSUME NEW input \in Input, BeginFrame(p, input)
      PROVE  SentInv'
  <2>1. own[p] \in Inputs /\ frame[p] + delay[p] \in Nat
    BY <1>1, ConfigAssumption DEF TypeOK
  <2>2. PICK recorded \in Inputs :
          recorded = Recorded(own[p], frame[p] + delay[p], input) /\ Len(recorded) >= Len(own[p])
    <3>1. PICK s \in Inputs, f \in Nat : s = own[p] /\ f = frame[p] + delay[p]
      BY <2>1
    <3>2. Recorded(s, f, input) \in Inputs
          /\ Len(Recorded(s, f, input)) = IF f < Len(s) THEN Len(s) ELSE f + 1
      BY RecordedFields
    <3>3. Len(s) \in Nat
      BY DEF Inputs
    <3>4. Len(Recorded(s, f, input)) >= Len(s)
      BY <3>2, <3>3
    <3> QED
      BY <3>1, <3>2, <3>4
  <2>3. own' = [own EXCEPT ![p] = recorded]
        /\ sent' = [sent EXCEPT ![p] = sent[p] \union {Len(recorded)}]
    <3>1. own' = [own EXCEPT ![p] = recorded]
      BY <1>3, <2>2 DEF BeginFrame, SetInput
    <3>2. own'[p] = recorded
      BY <3>1, <1>1 DEF TypeOK
    <3> QED
      BY <1>3, <3>1, <3>2 DEF BeginFrame, GetInputs
  <2>4. ASSUME NEW q \in Peer, NEW e \in sent'[q]
        PROVE  e <= Len(own'[q])
    <3>1. CASE q = p
      <4>1. own'[p] = recorded /\ sent'[p] = sent[p] \union {Len(recorded)}
        BY <2>3, <1>1 DEF TypeOK
      <4>2. Len(recorded) \in Nat /\ Len(own[p]) \in Nat /\ sent[p] \subseteq Nat
        <5>1. Len(recorded) \in Nat /\ Len(own[p]) \in Nat
          BY <2>1 DEF Inputs
        <5>2. sent[p] \subseteq Nat
          BY <1>1 DEF TypeOK
        <5> QED
          BY <5>1, <5>2
      <4>3. \A d \in sent[p] : d <= Len(own[p])
        BY DEF SentInv, SentBound
      <4> QED
        BY <3>1, <4>1, <4>2, <4>3, <2>2, <2>4
    <3>2. CASE q # p
      BY <3>2, <2>3, <2>4, <1>1 DEF TypeOK, SentInv, SentBound
    <3> QED
      BY <3>1, <3>2
  <2> QED
    BY <2>4 DEF SentInv, SentBound
<1>4. CASE UNCHANGED <<own, sent>>
  BY <1>4 DEF SentInv, SentBound
<1>5. Leave(p) => UNCHANGED <<own, sent>>
  BY DEF Leave
<1>6. \A e \in sent[Other(p)] : ReceiveInputs(p, e) => UNCHANGED <<own, sent>>
  BY DEF ReceiveInputs
<1>7. ReceiveIndex(p) \/ RollBack(p) \/ RerunFrame(p) => UNCHANGED <<own, sent>>
  BY DEF ReceiveIndex, RollBack, RerunFrame
<1>8. ContinueFrame(p) => UNCHANGED <<own, sent>>
  BY DEF ContinueFrame, PlayFrame
<1>9. \A r, d : ChangeFrame(p, r, d) => UNCHANGED <<own, sent>>
  BY DEF ChangeFrame, PlayFrame
<1> QED
  BY <1>2, <1>3, <1>4, <1>5, <1>6, <1>7, <1>8, <1>9 DEF Step

\* Every step keeps the types.
LEMMA TypeStep ==
  ASSUME TypeInv, SentInv, Next
  PROVE  TypeInv'
<1>1. TypeOK
  BY DEF TypeInv
<1>2. PICK p \in Peer : Step(p)
  BY DEF Next
<1>3. CASE Leave(p)
  BY <1>3, LeaveTypeInv
<1>4. ASSUME NEW input \in Input, BeginFrame(p, input)
      PROVE  TypeInv'
  BY <1>4, BeginTypeInv
<1>5. ASSUME NEW e \in sent[Other(p)], ReceiveInputs(p, e)
      PROVE  TypeInv'
  <2>1. e <= Len(own[Other(p)])
    BY OtherPeer DEF SentInv, SentBound
  <2> QED
    BY <1>5, <2>1, ReceiveTypeInv
<1>6. CASE ReceiveIndex(p)
  BY <1>6, ReceiveIndexTypeInv
<1>7. CASE RollBack(p)
  BY <1>7, RollBackTypeInv
<1>8. CASE ContinueFrame(p)
  <2>1. PlayFrame(p)
    BY <1>8 DEF ContinueFrame
  <2>2. /\ rollback' \in [Peer -> 1 .. MaxRollback] /\ delay' \in [Peer -> 0 .. MaxDelay]
        /\ changes' \in [Peer -> Nat]
    BY <1>1, <1>8 DEF ContinueFrame, TypeOK
  <2> QED
    BY <2>1, <2>2, PlayTypeInv
<1>9. ASSUME NEW r \in 1 .. MaxRollback, NEW d \in 0 .. MaxDelay, ChangeFrame(p, r, d)
      PROVE  TypeInv'
  <2>1. PlayFrame(p)
    BY <1>9 DEF ChangeFrame
  <2>2. /\ rollback' \in [Peer -> 1 .. MaxRollback] /\ delay' \in [Peer -> 0 .. MaxDelay]
        /\ changes' \in [Peer -> Nat]
    BY <1>1, <1>9 DEF ChangeFrame, TypeOK
  <2> QED
    BY <2>1, <2>2, PlayTypeInv
<1>10. CASE RerunFrame(p)
  BY <1>10, RerunTypeInv
<1>11. rollback[p] \in 1 .. MaxRollback /\ delay[p] \in 0 .. MaxDelay
  BY <1>1 DEF TypeOK
<1> QED
  BY <1>2, <1>3, <1>4, <1>5, <1>6, <1>7, <1>8, <1>9, <1>10, <1>11 DEF Step

\* The state of the two peers has its types: in particular no rollback looks
\* for a state that is not there, and the game is never given an input twice
\* or skipped one, whatever the settings, the pool and the order of packets.
THEOREM TypeCorrect == Spec => []TypeOK
<1>1. Init => TypeInv /\ SentInv
  BY InitTypeInv DEF Init, SentInv, SentBound
<1>2. TypeInv /\ SentInv /\ [Next]_vars => TypeInv' /\ SentInv'
  <2>1. TypeInv /\ SentInv /\ Next => TypeInv' /\ SentInv'
    BY TypeStep, SentStep
  <2>2. TypeInv /\ SentInv /\ UNCHANGED vars => TypeInv' /\ SentInv'
    BY DEF vars, TypeInv, SentInv, SentBound, TypeOK, SavedBefore, SavedNow, PlayedEach
  <2> QED
    BY <2>1, <2>2
<1>3. TypeInv => TypeOK
  BY DEF TypeInv
<1> QED
  BY <1>1, <1>2, <1>3, PTL DEF Spec

-----------------------------------------------------------------------------
(* What a peer knows of the other's inputs.                                *)

\* The numbers the bounds compare.
LEMMA Lengths ==
  ASSUME TypeOK, NEW p \in Peer
  PROVE  /\ own[p] \in Inputs /\ Len(own[p]) \in Nat /\ DOMAIN own[p] = 1 .. Len(own[p])
         /\ known[p] \in Inputs /\ Len(known[p]) \in Nat
         /\ DOMAIN known[p] = 1 .. Len(known[p])
         /\ frame[p] \in Nat /\ stopFrame[p] \in Nat
         /\ rollback[p] \in Nat /\ rollback[p] <= MaxRollback
         /\ delay[p] \in Nat /\ delay[p] <= MaxDelay
         /\ MaxRollback \in Nat /\ MaxDelay \in Nat /\ NumInputs \in Nat
<1>1. own[p] \in Inputs /\ known[p] \in Inputs
  BY DEF TypeOK
<1>2. frame[p] \in Nat /\ stopFrame[p] \in Nat
  BY DEF TypeOK
<1>3. rollback[p] \in 1 .. MaxRollback /\ delay[p] \in 0 .. MaxDelay
  BY DEF TypeOK
<1> QED
  BY <1>1, <1>2, <1>3, ConfigAssumption DEF Inputs

\* A peer knows no more inputs than the other recorded.
LEMMA KnownLength ==
  ASSUME TypeOK, NEW p \in Peer, KnownOf(p)
  PROVE  Len(known[p]) <= Len(own[Other(p)])
<1>1. PICK k \in Nat, o \in Nat : k = Len(known[p]) /\ o = Len(own[Other(p)])
  BY Lengths, OtherPeer
<1>2. DOMAIN known[p] = 1 .. k /\ DOMAIN own[Other(p)] = 1 .. o
  BY <1>1, Lengths, OtherPeer
<1>3. \A i \in 1 .. k : i \in 1 .. o
  BY <1>2 DEF KnownOf
<1>4. k <= o
  BY <1>3
<1> QED
  BY <1>1, <1>4

\* The invariant holds for a peer when nothing it speaks of changed.
LEMMA PeerKept ==
  ASSUME WindowInv, NEW q \in Peer,
         frame'[q] = frame[q], inGame'[q] = inGame[q], ahead'[q] = ahead[q],
         own'[q] = own[q], known'[q] = known[q], stopFrame'[q] = stopFrame[q],
         own'[Other(q)] = own[Other(q)], inGame'[Other(q)] => inGame[Other(q)]
  PROVE  RunBound(q)' /\ OwnBound(q)' /\ WindowBound(q)' /\ AheadOfLeft(q)' /\ KnownOf(q)'
  BY OtherPeer DEF WindowInv, RunBound, OwnBound, WindowBound, AheadOfLeft, KnownOf, Other

\* Leaving the round.
LEMMA LeaveWindowInv ==
  ASSUME TypeOK, WindowInv, NEW p \in Peer, Leave(p)
  PROVE  WindowInv'
<1>1. ASSUME NEW q \in Peer
      PROVE  RunBound(q)' /\ OwnBound(q)' /\ WindowBound(q)' /\ AheadOfLeft(q)' /\ KnownOf(q)'
  <2>1. CASE q = p
    <3>1. inGame'[p] = FALSE /\ stopFrame'[p] = 0 /\ inGame'[Other(p)] = inGame[Other(p)]
      BY OtherPeer DEF TypeOK, Leave
    <3> QED
      BY <2>1, <3>1 DEF WindowInv, RunBound, OwnBound, WindowBound, AheadOfLeft, KnownOf, Leave, Other
  <2>2. CASE q # p
    <3>1. /\ frame'[q] = frame[q] /\ inGame'[q] = inGame[q] /\ ahead'[q] = ahead[q]
          /\ own' = own /\ known'[q] = known[q] /\ stopFrame'[q] = stopFrame[q]
          /\ (inGame'[Other(q)] => inGame[Other(q)])
      BY <2>2, OtherPeer DEF TypeOK, Leave
    <3> QED
      BY <3>1, PeerKept
  <2> QED
    BY <2>1, <2>2
<1> QED
  BY <1>1 DEF WindowInv

\* Recording an input: the peer is not far ahead of what it knows, nor the
\* other of what it knows.
LEMMA BeginWindowInv ==
  ASSUME TypeOK, WindowInv, WindowFits, WithinTop, NEW p \in Peer, NEW input \in Input,
         BeginFrame(p, input)
  PROVE  WindowInv'
<1> DEFINE o == Other(p)
<1>1. o \in Peer /\ o # p /\ Other(o) = p
  BY OtherPeer
<1> HIDE DEF o
<1>2. PICK s \in Inputs, f \in Nat : s = own[p] /\ f = frame[p] + delay[p]
  BY Lengths
<1>3. PICK recorded \in Inputs :
        /\ recorded = Recorded(s, f, input)
        /\ Len(recorded) = IF f < Len(s) THEN Len(s) ELSE f + 1
        /\ \A i \in DOMAIN s : i \in DOMAIN recorded /\ recorded[i] = s[i]
  BY RecordedFields
<1>4. own' = [own EXCEPT ![p] = recorded]
  BY <1>2, <1>3 DEF BeginFrame, SetInput
<1>5. own'[p] = recorded /\ own'[o] = own[o]
  BY <1>1, <1>4 DEF TypeOK
<1>6. UNCHANGED <<frame, inGame, ahead, known, stopFrame>> /\ inGame[p] /\ stopFrame[p] = 0
  BY DEF BeginFrame
<1>7. /\ RunBound(p) /\ OwnBound(p) /\ WindowBound(p) /\ AheadOfLeft(p) /\ KnownOf(p)
      /\ RunBound(o) /\ OwnBound(o) /\ WindowBound(o) /\ AheadOfLeft(o) /\ KnownOf(o)
  BY <1>1 DEF WindowInv
<1>8. PICK n \in Nat, m \in Nat, kp \in Nat, ko \in Nat, op \in Nat, oo \in Nat, fp \in Nat :
        /\ n = Len(recorded) /\ m = Len(s) /\ kp = Len(known[p]) /\ ko = Len(known[o])
        /\ op = Len(own[p]) /\ oo = Len(own[o]) /\ fp = frame[p] /\ m = op
        /\ fp + delay[p] = f
  <2>1. Len(recorded) \in Nat /\ Len(s) \in Nat
    BY DEF Inputs
  <2>2. /\ Len(known[p]) \in Nat /\ Len(own[p]) \in Nat /\ frame[p] \in Nat
        /\ Len(known[o]) \in Nat /\ Len(own[o]) \in Nat
    BY <1>1, Lengths
  <2>3. Len(s) = Len(own[p]) /\ frame[p] + delay[p] = f
    BY <1>2
  <2> QED
    BY ONLY <2>1, <2>2, <2>3
<1>9. n = IF f < m THEN m ELSE f + 1
  BY <1>3, <1>8
<1>10. PICK R \in Nat, D \in Nat, N \in Nat :
         /\ R = TopRollback /\ D = TopDelay /\ N = NumInputs /\ 2 * R + 2 * D + 2 <= N
         /\ f <= fp + D
  <2>1. delay[p] \in Nat /\ delay[p] <= TopDelay /\ NumInputs \in Nat
    BY Lengths DEF WithinTop
  <2>2. PICK e \in Nat, T \in Nat, R \in Nat :
          e = delay[p] /\ T = TopDelay /\ R = TopRollback /\ 2 * R + 2 * T + 2 <= NumInputs
    BY <2>1 DEF WindowFits
  <2>3. fp + e = f /\ e <= T
    BY <1>8, <2>1, <2>2
  <2>4. f <= fp + T
    BY ONLY <2>3, f \in Nat, fp \in Nat, e \in Nat, T \in Nat
  <2> QED
    BY ONLY <2>1, <2>2, <2>4
<1>11. ~ahead[p] => fp <= kp + R /\ op <= kp + R + D + 1
  BY <1>7, <1>8, <1>10 DEF RunBound, OwnBound
<1>12. kp <= oo
  BY <1>1, <1>7, <1>8, KnownLength DEF o
<1>13. ~ahead[o] => oo <= ko + R + D + 1
  BY <1>7, <1>8, <1>10 DEF OwnBound
<1>14. OwnBound(p)'
  <2>1. ~ahead[p] => n <= kp + R + D + 1
    BY <1>8, <1>9, <1>10, <1>11
  <2> QED
    BY <2>1, <1>5, <1>6, <1>8, <1>10 DEF OwnBound
<1>15. WindowBound(o)'
  <2>1. ASSUME inGame[o]
        PROVE  n <= ko + N
    <3>1. ~ahead[p] /\ ~ahead[o]
      BY <2>1, <1>1, <1>6, <1>7 DEF AheadOfLeft, o
    <3> QED
      <4>1. /\ fp <= kp + R /\ op <= kp + R + D + 1 /\ oo <= ko + R + D + 1
            /\ kp <= oo /\ f <= fp + D /\ m = op
            /\ n = IF f < m THEN m ELSE f + 1
        BY <3>1, <1>8, <1>9, <1>10, <1>11, <1>12, <1>13
      <4>2. 2 * R + 2 * D + 2 <= N
        BY <1>10
      <4>3. /\ fp \in Nat /\ kp \in Nat /\ ko \in Nat /\ op \in Nat /\ oo \in Nat /\ f \in Nat
            /\ m \in Nat /\ n \in Nat /\ R \in Nat /\ D \in Nat /\ N \in Nat
        OBVIOUS
      <4> QED
        BY ONLY <4>1, <4>2, <4>3
  <2> QED
    BY <2>1, <1>1, <1>5, <1>6, <1>8, <1>10 DEF WindowBound
<1>16. KnownOf(o)'
  <2>1. \A i \in DOMAIN known[o] : i \in DOMAIN own[p] /\ known[o][i] = own[p][i]
    BY <1>1, <1>7 DEF KnownOf
  <2>2. \A i \in DOMAIN own[p] : i \in DOMAIN recorded /\ recorded[i] = own[p][i]
    BY <1>2, <1>3
  <2>3. \A i \in DOMAIN known'[o] : i \in DOMAIN own'[p] /\ known'[o][i] = own'[p][i]
    BY <2>1, <2>2, <1>5, <1>6
  <2> QED
    BY <2>3, <1>1 DEF KnownOf
<1>17. RunBound(p)' /\ RunBound(o)' /\ AheadOfLeft(p)' /\ AheadOfLeft(o)'
  BY <1>6, <1>7 DEF RunBound, AheadOfLeft
<1>18. OwnBound(o)'
  BY <1>5, <1>6, <1>7 DEF OwnBound
<1>19. WindowBound(p)' /\ KnownOf(p)'
  BY <1>5, <1>6, <1>7 DEF WindowBound, KnownOf, o
<1>20. \A q \in Peer : q = p \/ q = o
  BY <1>1 DEF Peer
<1> QED
  BY <1>14, <1>15, <1>16, <1>17, <1>18, <1>19, <1>20 DEF WindowInv

\* Taking a packet: there is no gap before its window.
LEMMA ReceiveWindowInv ==
  ASSUME TypeOK, SentInv, WindowInv, WindowFits, NEW p \in Peer, NEW e \in sent[Other(p)],
         ReceiveInputs(p, e)
  PROVE  WindowInv'
<1>1. Other(p) \in Peer /\ Other(p) # p
  BY OtherPeer
<1>2. PICK s \in Inputs, source \in Inputs : s = known[p] /\ source = own[Other(p)]
  BY <1>1, Lengths
<1>3. e \in Nat /\ e <= Len(source)
  BY <1>1, <1>2 DEF SentInv, SentBound, TypeOK
<1>4. RunBound(p) /\ OwnBound(p) /\ WindowBound(p) /\ AheadOfLeft(p) /\ KnownOf(p)
  BY DEF WindowInv
<1>5. e <= Len(s) + NumInputs
  <2>1. Len(source) <= Len(s) + NumInputs
    BY <1>2, <1>4 DEF WindowBound, ReceiveInputs
  <2>2. Len(source) \in Nat /\ Len(s) \in Nat /\ NumInputs \in Nat
    BY ConfigAssumption DEF Inputs
  <2> QED
    BY ONLY <1>3, <2>1, <2>2
<1>6. \A i \in DOMAIN s : i \in DOMAIN source /\ s[i] = source[i]
  BY <1>2, <1>4 DEF KnownOf
<1>7. PICK r \in Inputs :
        /\ r = Received(s, source, e)
        /\ Len(r) = IF e > Len(s) THEN e ELSE Len(s)
        /\ \A i \in DOMAIN r : i \in DOMAIN source /\ r[i] = source[i]
  BY <1>3, <1>5, <1>6, ReceivedFields
<1>8. known' = [known EXCEPT ![p] = r]
  BY <1>2, <1>7 DEF ReceiveInputs
<1>9. known'[p] = r
  BY <1>8 DEF TypeOK
<1>10. UNCHANGED <<frame, inGame, ahead, own, stopFrame>>
  BY DEF ReceiveInputs
<1>11. PICK n \in Nat, k \in Nat : n = Len(r) /\ k = Len(known[p]) /\ k <= n
  <2>1. Len(r) \in Nat /\ Len(s) \in Nat
    BY DEF Inputs
  <2>2. Len(s) <= Len(r)
    BY ONLY <2>1, <1>3, <1>7
  <2> QED
    BY <2>1, <2>2, <1>2
<1>12. ASSUME NEW q \in Peer
       PROVE  RunBound(q)' /\ OwnBound(q)' /\ WindowBound(q)' /\ AheadOfLeft(q)' /\ KnownOf(q)'
  <2>1. CASE q = p
    <3>1. PICK fp \in Nat, sp \in Nat, op \in Nat, oo \in Nat, R \in Nat, D \in Nat, N \in Nat :
            /\ fp = frame[p] /\ sp = stopFrame[p] /\ op = Len(own[p]) /\ oo = Len(own[Other(p)])
            /\ R = TopRollback /\ D = TopDelay /\ N = NumInputs
      BY <1>1, Lengths DEF WindowFits
    <3>2. RunBound(p)'
      <4>1. ~ahead[p] => fp <= k + R /\ (sp # 0 => fp <= sp /\ sp + 1 <= k + R)
        BY <1>4, <1>11, <3>1 DEF RunBound
      <4>2. ~ahead[p] => fp <= n + R /\ (sp # 0 => fp <= sp /\ sp + 1 <= n + R)
        BY <4>1, <1>11
      <4> QED
        BY <4>2, <1>9, <1>10, <1>11, <3>1 DEF RunBound
    <3>3. OwnBound(p)'
      <4>1. ~ahead[p] => op <= k + R + D + 1
        BY <1>4, <1>11, <3>1 DEF OwnBound
      <4>2. ~ahead[p] => op <= n + R + D + 1
        BY <4>1, <1>11
      <4> QED
        BY <4>2, <1>9, <1>10, <1>11, <3>1 DEF OwnBound
    <3>4. WindowBound(p)'
      <4>1. inGame[p] => oo <= k + N
        BY <1>4, <1>11, <3>1 DEF WindowBound
      <4>2. inGame[p] => oo <= n + N
        BY <4>1, <1>11
      <4> QED
        BY <4>2, <1>9, <1>10, <1>11, <3>1 DEF WindowBound
    <3>5. AheadOfLeft(p)'
      BY <1>4, <1>10 DEF AheadOfLeft
    <3>6. KnownOf(p)'
      BY <1>2, <1>7, <1>9, <1>10 DEF KnownOf
    <3> QED
      BY <2>1, <3>2, <3>3, <3>4, <3>5, <3>6
  <2>2. CASE q # p
    <3>1. known'[q] = known[q]
      BY <2>2, <1>8 DEF TypeOK
    <3> QED
      BY <3>1, <1>10, PeerKept
  <2> QED
    BY <2>1, <2>2
<1> QED
  BY <1>12 DEF WindowInv

\* Learning that the other peer has left.
LEMMA ReceiveIndexWindowInv ==
  ASSUME TypeOK, WindowInv, NEW p \in Peer, ReceiveIndex(p)
  PROVE  WindowInv'
<1>1. /\ UNCHANGED <<frame, inGame, own, known, stopFrame>> /\ ~inGame[Other(p)]
      /\ ahead'[p] = TRUE /\ \A q \in Peer : q # p => ahead'[q] = ahead[q]
  BY DEF ReceiveIndex, TypeOK
<1>2. ASSUME NEW q \in Peer
      PROVE  RunBound(q)' /\ OwnBound(q)' /\ WindowBound(q)' /\ AheadOfLeft(q)' /\ KnownOf(q)'
  <2>1. CASE q = p
    BY <2>1, <1>1 DEF WindowInv, RunBound, OwnBound, WindowBound, AheadOfLeft, KnownOf
  <2>2. CASE q # p
    BY <2>2, <1>1, PeerKept
  <2> QED
    BY <2>1, <2>2
<1> QED
  BY <1>2 DEF WindowInv

\* A step of the frame of one peer.
LEMMA FrameWindowInv ==
  ASSUME TypeOK, WindowInv, NEW p \in Peer, RunBound(p)',
         UNCHANGED <<inGame, ahead, own, known>>,
         \A q \in Peer : q # p => frame'[q] = frame[q] /\ stopFrame'[q] = stopFrame[q]
  PROVE  WindowInv'
<1>1. ASSUME NEW q \in Peer
      PROVE  RunBound(q)' /\ OwnBound(q)' /\ WindowBound(q)' /\ AheadOfLeft(q)' /\ KnownOf(q)'
  <2>1. CASE q = p
    BY <2>1 DEF WindowInv, OwnBound, WindowBound, AheadOfLeft, KnownOf
  <2>2. CASE q # p
    BY <2>2, PeerKept
  <2> QED
    BY <2>1, <2>2
<1> QED
  BY <1>1 DEF WindowInv

\* A peer that waits for inputs goes on only within its rollback.
LEMMA ReadyBound ==
  ASSUME TypeOK, WindowFits, WithinTop, NEW p \in Peer, RemoteInputReady(p), ~ahead[p]
  PROVE  frame[p] + 1 <= Len(known[p]) + TopRollback
<1>1. PICK f \in Nat, k \in Nat, r \in Nat, R \in Nat :
        f = frame[p] /\ k = Len(known[p]) /\ r = rollback[p] /\ R = TopRollback /\ r <= R
  BY Lengths DEF WindowFits, WithinTop
<1>2. k - 1 + r >= f
  BY <1>1 DEF RemoteInputReady, Reaches
<1>3. f + 1 <= k + R
  BY <1>1, <1>2
<1> QED
  BY <1>1, <1>3

\* Playing a frame.
LEMMA PlayWindowInv ==
  ASSUME TypeInv, WindowInv, WindowFits, WithinTop, NEW p \in Peer, PlayFrame(p)
  PROVE  WindowInv'
<1>1. /\ UNCHANGED <<inGame, ahead, own, known, stopFrame>>
      /\ frame'[p] = frame[p] + 1
      /\ \A q \in Peer : q # p => frame'[q] = frame[q]
  BY DEF PlayFrame, TypeInv, TypeOK
<1>2. stopFrame[p] = 0
  BY DEF PlayFrame, TypeInv, SavedNow
<1>3. ~ahead[p] => frame[p] + 1 <= Len(known[p]) + TopRollback
  BY ReadyBound DEF PlayFrame, TypeInv
<1>4. RunBound(p)'
  BY <1>1, <1>2, <1>3 DEF RunBound
<1> QED
  BY <1>1, <1>4, FrameWindowInv DEF TypeInv

\* Going back.
LEMMA RollBackWindowInv ==
  ASSUME TypeInv, WindowInv, WindowFits, WithinTop, NEW p \in Peer, RollBack(p)
  PROVE  WindowInv'
<1>1. TypeOK
  BY DEF TypeInv
<1>2. /\ UNCHANGED <<inGame, ahead, own, known>>
      /\ \A q \in Peer : q # p => frame'[q] = frame[q] /\ stopFrame'[q] = stopFrame[q]
  BY <1>1 DEF RollBack, TypeOK
<1>3. stopFrame'[p] = frame[p] /\ frame'[p] \in Nat /\ frame'[p] <= frame[p]
  BY <1>1, RollBackTypeInv DEF RollBack, TypeOK
<1>4. RunBound(p)'
  <2>1. PICK f \in Nat, k \in Nat, R \in Nat, g \in Nat :
          f = frame[p] /\ k = Len(known[p]) /\ R = TopRollback /\ g = frame'[p] /\ g <= f
    BY <1>1, <1>3, Lengths DEF WindowFits
  <2>2. ~ahead[p] => f + 1 <= k + R
    BY <1>1, <2>1, ReadyBound DEF RollBack
  <2>3. ~ahead[p] => g <= k + R /\ g <= f /\ f + 1 <= k + R
    BY <2>1, <2>2
  <2> QED
    BY <1>2, <1>3, <2>1, <2>3 DEF RunBound
<1> QED
  BY <1>1, <1>2, <1>4, FrameWindowInv

\* Playing a frame again.
LEMMA RerunWindowInv ==
  ASSUME TypeOK, WindowInv, WindowFits, NEW p \in Peer, RerunFrame(p)
  PROVE  WindowInv'
<1>1. PICK f \in Nat, k \in Nat, R \in Nat, stop \in Nat :
        f = frame[p] /\ k = Len(known[p]) /\ R = TopRollback /\ stop = stopFrame[p]
  BY Lengths DEF WindowFits
<1>2. /\ UNCHANGED <<inGame, ahead, own, known>>
      /\ frame'[p] = f + 1 /\ stopFrame'[p] = IF f >= stop THEN 0 ELSE stop
      /\ stop # 0
      /\ \A q \in Peer : q # p => frame'[q] = frame[q] /\ stopFrame'[q] = stopFrame[q]
  BY <1>1 DEF RerunFrame, TypeOK
<1>3. ~ahead[p] => f <= stop /\ stop + 1 <= k + R
  BY <1>1, <1>2 DEF WindowInv, RunBound
<1>4. ~ahead[p] => f + 1 <= k + R /\ (stopFrame'[p] # 0 => f + 1 <= stopFrame'[p] /\ stopFrame'[p] + 1 <= k + R)
  BY <1>2, <1>3
<1>5. RunBound(p)'
  BY <1>1, <1>2, <1>4 DEF RunBound
<1> QED
  BY <1>2, <1>5, FrameWindowInv

\* Every step keeps the bounds.
LEMMA WindowStep ==
  ASSUME TypeInv, SentInv, WindowInv, WindowFits, WithinTop, Next
  PROVE  WindowInv'
<1>1. TypeOK
  BY DEF TypeInv
<1>2. PICK p \in Peer : Step(p)
  BY DEF Next
<1>3. CASE Leave(p)
  BY <1>1, <1>3, LeaveWindowInv
<1>4. ASSUME NEW input \in Input, BeginFrame(p, input)
      PROVE  WindowInv'
  BY <1>1, <1>4, BeginWindowInv
<1>5. ASSUME NEW e \in sent[Other(p)], ReceiveInputs(p, e)
      PROVE  WindowInv'
  BY <1>1, <1>5, ReceiveWindowInv
<1>6. CASE ReceiveIndex(p)
  BY <1>1, <1>6, ReceiveIndexWindowInv
<1>7. CASE RollBack(p)
  BY <1>7, RollBackWindowInv
<1>8. CASE ContinueFrame(p)
  BY <1>8, PlayWindowInv DEF ContinueFrame
<1>9. ASSUME NEW r, NEW d, ChangeFrame(p, r, d)
      PROVE  WindowInv'
  BY <1>9, PlayWindowInv DEF ChangeFrame
<1>10. CASE RerunFrame(p)
  BY <1>1, <1>10, RerunWindowInv
<1> QED
  BY <1>2, <1>3, <1>4, <1>5, <1>6, <1>7, <1>8, <1>9, <1>10 DEF Step

\* The round starts with nothing known and nothing recorded.
LEMMA InitWindowInv ==
  ASSUME WindowFits, Init
  PROVE  WindowInv
<1>1. TopRollback \in Nat /\ TopDelay \in Nat /\ NumInputs \in Nat
  BY ConfigAssumption DEF WindowFits
<1>2. ASSUME NEW p \in Peer
      PROVE  RunBound(p) /\ OwnBound(p) /\ WindowBound(p) /\ AheadOfLeft(p) /\ KnownOf(p)
  <2>1. /\ frame[p] = 0 /\ stopFrame[p] = 0 /\ ahead[p] = FALSE
        /\ Len(known[p]) = 0 /\ Len(own[p]) = 0 /\ Len(own[Other(p)]) = 0
        /\ DOMAIN known[p] = {}
    BY OtherPeer DEF Init
  <2> QED
    BY <1>1, <2>1 DEF RunBound, OwnBound, WindowBound, AheadOfLeft, KnownOf
<1> QED
  BY <1>2 DEF WindowInv

\* What a peer knows of the other's inputs is what the other recorded, whatever is
\* lost, repeated or overtaken, in every round whose players, who may change their
\* rollbacks and delays at any frame, never set one of them above a TopRollback and a
\* TopDelay that fit into the windows: with the 30 inputs of the code as long as no
\* rollback and delay come to more than 14 together.  Above that the code gives no
\* guarantee: a window may then leave a gap, which setInputs fills with guesses.
THEOREM KnownIsActualInFittingRounds ==
  ASSUME WindowFits
  PROVE  Spec /\ []WithinTop => []KnownIsActual
<1>1. Init => TypeInv /\ SentInv /\ WindowInv
  BY InitTypeInv, InitWindowInv DEF Init, SentInv, SentBound
<1>2. TypeInv /\ SentInv /\ WindowInv /\ WithinTop /\ [Next]_vars
        => TypeInv' /\ SentInv' /\ WindowInv'
  <2>1. TypeInv /\ SentInv /\ WindowInv /\ WithinTop /\ Next => TypeInv' /\ SentInv' /\ WindowInv'
    BY TypeStep, SentStep, WindowStep
  <2>2. TypeInv /\ SentInv /\ WindowInv /\ UNCHANGED vars => TypeInv' /\ SentInv' /\ WindowInv'
    BY DEF vars, TypeInv, SentInv, SentBound, TypeOK, SavedBefore, SavedNow, PlayedEach,
           WindowInv, RunBound, OwnBound, WindowBound, AheadOfLeft, KnownOf
  <2> QED
    BY <2>1, <2>2
<1>3. WindowInv => KnownIsActual
  BY DEF WindowInv, KnownOf, KnownIsActual
<1> QED
  BY <1>1, <1>2, <1>3, PTL DEF Spec

-----------------------------------------------------------------------------
(* Waiting.                                                                *)

\* A peer that waits has recorded its input of the frame it waits in.
OwnCovers(p) == inGame[p] /\ phase[p] = "poll" => frame[p] < Len(own[p])

CoversInv == \A p \in Peer : OwnCovers(p)

\* Only the beginning of a frame enters the poll loop.
LEMMA CoversStep ==
  ASSUME TypeOK, CoversInv, Next
  PROVE  CoversInv'
<1>1. PICK p \in Peer : Step(p)
  BY DEF Next
<1>2. ASSUME NEW q \in Peer, q # p
      PROVE  OwnCovers(q)'
  <2>1. frame'[q] = frame[q] /\ phase'[q] = phase[q] /\ inGame'[q] = inGame[q] /\ own'[q] = own[q]
    BY <1>1, <1>2 DEF Step, Leave, BeginFrame, ReceiveInputs, ReceiveIndex, RollBack, ContinueFrame,
                      ChangeFrame, PlayFrame, RerunFrame, TypeOK
  <2> QED
    BY <1>2, <2>1 DEF CoversInv, OwnCovers
<1>3. CASE Leave(p) \/ RollBack(p) \/ PlayFrame(p) \/ RerunFrame(p)
  <2>1. ~(inGame'[p] /\ phase'[p] = "poll")
    BY <1>3 DEF Leave, RollBack, PlayFrame, RerunFrame, TypeOK
  <2> QED
    BY <2>1, <1>2 DEF CoversInv, OwnCovers
<1>4. CASE ReceiveIndex(p) \/ \E e \in sent[Other(p)] : ReceiveInputs(p, e)
  <2>1. UNCHANGED <<frame, phase, inGame, own>>
    BY <1>4 DEF ReceiveIndex, ReceiveInputs
  <2> QED
    BY <2>1 DEF CoversInv, OwnCovers
<1>5. ASSUME NEW input \in Input, BeginFrame(p, input)
      PROVE  CoversInv'
  <2>1. PICK f \in Nat, d \in Nat, g \in Nat : f = frame[p] /\ d = delay[p] /\ g = f + d
    BY Lengths
  <2>2. frame'[p] = f /\ own'[p] = Recorded(own[p], g, input)
    BY <1>5, <2>1 DEF BeginFrame, SetInput, TypeOK
  <2>3. PICK n \in Nat : n = Len(own[p])
    BY Lengths
  <2>4. own[p] \in Inputs
    BY Lengths
  <2>5. g \in Nat
    BY <2>1
  <2>6. Len(own'[p]) = IF g < Len(own[p]) THEN Len(own[p]) ELSE g + 1
    <3>1. Len(Recorded(own[p], g, input)) = IF g < Len(own[p]) THEN Len(own[p]) ELSE g + 1
      BY ONLY <2>4, <2>5, input \in Input, RecordedFields
    <3>2. own'[p] = Recorded(own[p], g, input)
      BY <2>2
    <3> QED
      BY ONLY <3>1, <3>2, Zenon
  <2>7. PICK m \in Nat : m = IF g < n THEN n ELSE g + 1
    BY ONLY g \in Nat, n \in Nat
  <2>8. Len(own'[p]) = m
    BY ONLY <2>3, <2>6, <2>7, Zenon
  <2>9. f < m
    BY ONLY <2>1, <2>7, f \in Nat, d \in Nat, g \in Nat, n \in Nat
  <2> QED
    BY <2>2, <2>8, <2>9, <1>2 DEF CoversInv, OwnCovers
<1> QED
  BY <1>1, <1>3, <1>4, <1>5 DEF Step, ContinueFrame, ChangeFrame

\* The peer that waits in an earlier frame, or in the same one, needs no input that
\* the other has not recorded.
LEMMA EarlierIsServed ==
  ASSUME TypeOK, CoversInv, NEW p \in Peer, frame[p] <= frame[Other(p)],
         \A q \in Peer : inGame[q] /\ phase[q] = "poll"
  PROVE  Reaches(p, Received(known[p], own[Other(p)], GetInputs(own[Other(p)])))
<1> DEFINE r == Received(known[p], own[Other(p)], GetInputs(own[Other(p)]))
<1>1. Other(p) \in Peer
  BY OtherPeer
<1>2. PICK f \in Nat, e \in Nat, g \in Nat, b \in Nat :
        f = frame[p] /\ g = frame[Other(p)] /\ b = rollback[p] /\ e = Len(own[Other(p)])
  BY <1>1, Lengths
<1>3. f <= g /\ g < e
  BY <1>1, <1>2 DEF CoversInv, OwnCovers
<1>4. r \in Inputs /\ Len(r) = IF e > Len(known[p]) THEN e ELSE Len(known[p])
  BY <1>1, <1>2, Lengths, ReceivedFields DEF GetInputs
<1>5. PICK n \in Nat, k \in Nat : n = Len(r) /\ k = Len(known[p])
  BY <1>4, Lengths DEF Inputs
<1>6. n = IF e > k THEN e ELSE k
  BY <1>4, <1>5
<1>7. n # 0 /\ n - 1 + b >= f
  BY ONLY <1>3, <1>6, n \in Nat, k \in Nat, e \in Nat, f \in Nat, g \in Nat, b \in Nat
<1>8. r # <<>>
  BY <1>5, <1>7
<1> QED
  BY <1>2, <1>5, <1>7, <1>8 DEF Reaches

\* Two peers that wait for each other get on with one window sent again, whatever
\* was lost and whatever the rollbacks, the delays and the size of the windows.
THEOREM OneResendEndsWait == Spec => []ResendEndsWait
<1>1. Init => TypeInv /\ SentInv /\ CoversInv
  BY InitTypeInv DEF Init, SentInv, SentBound, CoversInv, OwnCovers
<1>2. TypeInv /\ SentInv /\ CoversInv /\ [Next]_vars => TypeInv' /\ SentInv' /\ CoversInv'
  <2>1. TypeInv /\ SentInv /\ CoversInv /\ Next => TypeInv' /\ SentInv' /\ CoversInv'
    BY TypeStep, SentStep, CoversStep DEF TypeInv
  <2>2. TypeInv /\ SentInv /\ CoversInv /\ UNCHANGED vars => TypeInv' /\ SentInv' /\ CoversInv'
    BY DEF vars, TypeInv, SentInv, SentBound, TypeOK, SavedBefore, SavedNow, PlayedEach,
           CoversInv, OwnCovers
  <2> QED
    BY <2>1, <2>2
<1>3. TypeInv /\ CoversInv => ResendEndsWait
  <2> SUFFICES ASSUME TypeOK, CoversInv, \A p \in Peer : inGame[p] /\ phase[p] = "poll"
               PROVE  \E p \in Peer :
                        Reaches(p, Received(known[p], own[Other(p)], GetInputs(own[Other(p)])))
    BY DEF TypeInv, ResendEndsWait
  <2>1. 1 \in Peer /\ 2 \in Peer /\ Other(1) = 2 /\ Other(2) = 1
    BY DEF Peer, Other
  <2>2. PICK f \in Nat, g \in Nat : f = frame[1] /\ g = frame[2]
    BY <2>1, Lengths
  <2>3. f <= g \/ g <= f
    BY ONLY <2>2, f \in Nat, g \in Nat
  <2> QED
    BY <2>1, <2>2, <2>3, EarlierIsServed
<1> QED
  BY <1>1, <1>2, <1>3, PTL DEF Spec

-----------------------------------------------------------------------------
(* The repair of mispredictions.                                           *)

\* Alt + Number raises the spacing between rollbacks, or leaves it as it is
NeverLowered == \A p \in Peer : Spacing(rollback'[p]) >= Spacing(rollback[p])

\* the game was given at frame i - 1 what get returns now
Agrees(p, i) == played[p][i] = InputAt(known[p], i - 1)

\* what was given differs from what is known only after the last changed frame
RepairsOf(p) ==
    inGame[p] => \A i \in 1 .. Len(played[p]) :
                     Agrees(p, i) \/ (changed[p] # Never /\ changed[p] < i)

\* a peer that has just looked for a rollback has nothing left to repair
LookedOf(p) ==
    inGame[p] /\ phase[p] = "step" /\ rollbackTimer[p] = Spacing(rollback[p])
        => \A i \in 1 .. Len(played[p]) : Agrees(p, i)

TimerOf(p) == rollbackTimer[p] <= Spacing(rollback[p])

\* the state of the first frame is never given up
FirstOf(p) == inGame[p] /\ saved[p] # <<>> => saved[p][1] = 0

RepairOf(p) == RepairsOf(p) /\ LookedOf(p) /\ TimerOf(p) /\ FirstOf(p)

RepairInv == \A p \in Peer : RepairOf(p)

-----------------------------------------------------------------------------
(* The operators.                                                          *)

\* What get returns of a frame, by cases.
LEMMA InputAtCases ==
  ASSUME NEW s \in Inputs, NEW f \in Nat
  PROVE  /\ f < Len(s) => InputAt(s, f) = s[f + 1]
         /\ ~(f < Len(s)) /\ Len(s) > 0 => InputAt(s, f) = s[Len(s)]
         /\ Len(s) = 0 => InputAt(s, f) = CarriedInput
<1>1. Len(s) \in Nat /\ (Len(s) > 0 => s # <<>>) /\ (Len(s) = 0 => s = <<>>)
  <2>1. s \in Seq(Input)
    BY DEF Inputs
  <2> QED
    BY <2>1, EmptySeq
<1> QED
  BY <1>1 DEF InputAt, LastOf

\* Resizing alone changes no answer within the new length.
LEMMA ResizedAt ==
  ASSUME NEW s \in Inputs, NEW n \in Nat, NEW i \in 1 .. Len(Resized(s, n))
  PROVE  Resized(s, n)[i] = InputAt(s, i - 1)
<1>1. Len(s) \in Nat
  BY DEF Inputs
<1>2. PICK m \in Nat : m = IF n > Len(s) THEN n ELSE Len(s)
  BY <1>1
<1>3. Len(Resized(s, n)) = m
  BY <1>2, ResizedFields
<1>4. Resized(s, n) = [j \in 1 .. m |-> InputAt(s, j - 1)]
  BY <1>2 DEF Resized
<1> QED
  BY <1>3, <1>4

\* set n changes what get answers for a frame only if a frame no later than it was
\* contradicted, be it the frame itself or the end of the window, whose input is repeated.
LEMMA ReceivedContradicts ==
  ASSUME NEW s \in Inputs, NEW source \in Inputs, NEW e \in Nat, e <= Len(source),
         NEW f \in Nat, InputAt(Received(s, source, e), f) # InputAt(s, f)
  PROVE  \E c \in Contradicted(s, source, e) : c <= f
<1> DEFINE r == Received(s, source, e)
           z == Resized(s, e)
<1>1. PICK n \in Nat, b \in Nat, l \in Nat :
        /\ n = Len(s) /\ b = StartFrame(e) /\ l = IF e > n THEN e ELSE n
        /\ b <= e /\ (e > 0 => b < e)
  <2>1. Len(s) \in Nat
    BY DEF Inputs
  <2>2. StartFrame(e) \in Nat /\ StartFrame(e) <= e /\ (e > 0 => StartFrame(e) < e)
    BY ConfigAssumption DEF StartFrame
  <2> QED
    BY <2>1, <2>2
<1>2. r \in Inputs /\ Len(r) = l
  BY <1>1, ReceivedFields
<1>3. z \in Inputs /\ Len(z) = l /\ DOMAIN z = 1 .. l
  <2>1. z \in Inputs /\ Len(z) = IF e > Len(s) THEN e ELSE Len(s)
    BY ResizedFields
  <2>2. Len(z) = l
    BY <1>1, <2>1
  <2> QED
    BY <2>1, <2>2 DEF Inputs
<1>4. ASSUME NEW i \in 1 .. l
      PROVE  r[i] = IF i > b /\ i <= e THEN source[i] ELSE InputAt(s, i - 1)
  <2>1. z[i] = InputAt(s, i - 1)
    BY <1>3, <1>4, ResizedAt
  <2> QED
    BY <1>1, <1>3, <1>4, <2>1 DEF Received
<1>5. \A c \in Nat : b <= c /\ c < e /\ InputAt(s, c) # source[c + 1]
                       => c \in Contradicted(s, source, e)
  BY <1>1 DEF Contradicted
<1> HIDE DEF r, z
<1>6. InputAt(r, f) # InputAt(s, f)
  BY DEF r
<1>7. CASE f < l
  <2>1. InputAt(r, f) = r[f + 1]
    BY <1>2, <1>7, InputAtCases
  <2>2. PICK i \in 1 .. l : i = f + 1
    BY <1>7
  <2>3. i > b /\ i <= e
    <3>1. i - 1 = f
      BY <2>2
    <3> QED
      BY <1>4, <1>6, <2>1, <2>2, <3>1
  <2>4. InputAt(s, f) # source[f + 1]
    BY <1>4, <1>6, <2>1, <2>2, <2>3
  <2>5. b <= f /\ f < e
    BY <2>2, <2>3
  <2> QED
    BY <1>5, <2>4, <2>5
<1>8. CASE ~(f < l)
  <2>1. l > 0
    <3>1. CASE l = 0
      <4>1. Len(s) = 0 /\ Len(r) = 0
        BY <3>1, <1>1, <1>2
      <4>2. InputAt(r, f) = CarriedInput /\ InputAt(s, f) = CarriedInput
        BY <4>1, <1>2, InputAtCases
      <4> QED
        BY <4>2, <1>6
    <3> QED
      BY <3>1
  <2>2. InputAt(r, f) = r[l] /\ l \in 1 .. l
    BY <1>2, <1>8, <2>1, InputAtCases
  <2>3. InputAt(s, l - 1) = InputAt(s, f)
    <3>1. PICK g \in Nat : g = l - 1 /\ g <= f
      BY <1>8, <2>1
    <3>2. CASE n = 0
      BY <3>1, <3>2, <1>1, InputAtCases
    <3>3. CASE n > 0
      <4>1. InputAt(s, f) = s[n]
        BY <1>1, <1>8, <3>3, InputAtCases
      <4>2. CASE g < n
        <5>1. g + 1 = n
          BY <1>1, <3>1, <4>2
        <5> QED
          BY <1>1, <3>1, <4>1, <4>2, <5>1, InputAtCases
      <4>3. CASE ~(g < n)
        BY <1>1, <3>1, <3>3, <4>1, <4>3, InputAtCases
      <4> QED
        BY <4>2, <4>3
    <3> QED
      BY <3>2, <3>3
  <2>4. l > b /\ l <= e /\ r[l] = source[l]
    BY <1>4, <1>6, <2>2, <2>3
  <2>5. PICK c \in Nat : c = l - 1 /\ c + 1 = l
    BY <2>1
  <2>6. InputAt(s, c) # source[c + 1]
    BY <1>6, <2>2, <2>3, <2>4, <2>5
  <2>7. b <= c /\ c < e /\ c <= f
    BY <1>8, <2>4, <2>5
  <2> QED
    BY <1>5, <2>6, <2>7
<1> QED
  BY <1>7, <1>8

\* set n: the last changed frame comes no later than any contradicted frame, nor than before.
LEMMA NextChangedEarliest ==
  ASSUME NEW before \in Nat \union {Never}, NEW frames \in SUBSET Nat
  PROVE  LET after == NextChanged(before, frames) IN
         /\ after \in Nat \union {Never}
         /\ before # Never => after # Never /\ after <= before
         /\ \A c \in frames : after # Never /\ after <= c
<1>1. CASE frames = {}
  BY <1>1 DEF NextChanged, Never
<1>2. CASE frames # {}
  <2>1. \E f \in frames : \A g \in frames : f <= g
    BY <1>2, SmallestFrame
  <2>2. PICK first \in frames : first = Earliest(frames) /\ \A g \in frames : first <= g
    BY <2>1 DEF Earliest
  <2>3. PICK after : after = NextChanged(before, frames)
    OBVIOUS
  <2>4. after = IF before = Never \/ first < before THEN first ELSE before
    BY <1>2, <2>2, <2>3 DEF NextChanged
  <2>5. first \in Nat /\ frames \subseteq Nat
    BY <2>2
  <2>6. /\ after \in Nat \union {Never}
        /\ before # Never => after # Never /\ after <= before
        /\ after # Never /\ after <= first
    BY <2>4, <2>5 DEF Never
  <2>7. ASSUME NEW c \in frames
        PROVE  after <= c
    BY <2>2, <2>5, <2>6, <2>7 DEF Never
  <2> QED
    BY <2>3, <2>6, <2>7
<1> QED
  BY <1>1, <1>2

\* saveState keeps the first state there is.
LEMMA SavedKeepsFirst ==
  ASSUME NEW s \in Seq(Nat), NEW f \in Nat, NEW remote \in Nat,
         s # <<>> => s[1] = 0, s = <<>> => f = 0
  PROVE  Saved(s, f, remote) # <<>> /\ Saved(s, f, remote)[1] = 0
<1>1. Len(s) \in Nat /\ PoolSize \in Nat /\ PoolSize > 1 /\ (s = <<>> <=> Len(s) = 0)
  BY ConfigAssumption, EmptySeq
<1>2. CASE s = <<>>
  <2>1. Len(s) < PoolSize
    BY <1>1, <1>2
  <2>2. Saved(s, f, remote) = Append(<<>>, 0)
    BY <1>2, <2>1 DEF Saved
  <2> QED
    BY <2>2
<1>3. CASE s # <<>> /\ Len(s) < PoolSize
  <2>1. Saved(s, f, remote) = Append(s, f)
    BY <1>3 DEF Saved
  <2>2. Len(s) >= 1
    BY <1>1, <1>3
  <2> QED
    BY <1>3, <2>1, <2>2
<1>4. CASE s # <<>> /\ ~(Len(s) < PoolSize)
  <2>1. s[1] = 0 /\ s[1] <= remote
    BY <1>4
  <2>2. Saved(s, f, remote) = Append(<<s[1]>> \o SubSeq(s, 3, Len(s)), f)
    BY <1>4, <2>1 DEF Saved
  <2>3. PICK u \in Seq(Nat) : u = SubSeq(s, 3, Len(s))
    <3>1. Len(s) >= 2
      BY <1>1, <1>4
    <3>2. SubSeq(s, 3, Len(s)) \in Seq(Nat)
      BY <3>1, <1>1
    <3> QED
      BY <3>2
  <2>4. PICK w \in Seq(Nat) : w = <<0>> /\ Len(w) = 1 /\ w[1] = 0
    <3>1. PICK x \in Nat : x = 0
      OBVIOUS
    <3>2. <<x>> \in Seq(Nat) /\ Len(<<x>>) = 1 /\ <<x>>[1] = x
      OBVIOUS
    <3> QED
      BY <3>1, <3>2
  <2>5. PICK v \in Seq(Nat) : v = w \o u /\ Len(v) = Len(w) + Len(u) /\ v[1] = 0
    <3>1. /\ w \o u \in Seq(Nat) /\ Len(w \o u) = Len(w) + Len(u)
          /\ \A i \in 1 .. Len(w) + Len(u) :
                (w \o u)[i] = IF i <= Len(w) THEN w[i] ELSE u[i - Len(w)]
      BY ConcatProperties
    <3>2. 1 \in 1 .. Len(w) + Len(u) /\ 1 <= Len(w)
      BY <2>4
    <3> QED
      BY <2>4, <3>1, <3>2
  <2>6. Append(v, f) # <<>> /\ Append(v, f)[1] = 0
    <3>1. Len(v) >= 1
      BY <2>4, <2>5
    <3>2. PICK y \in Seq(Nat) : y = Append(v, f)
      BY AppendProperties
    <3>3. Len(y) = Len(v) + 1 /\ \A i \in 1 .. Len(v) : y[i] = v[i]
      BY <3>2, AppendProperties
    <3>4. Len(y) # 0 /\ y[1] = v[1]
      BY <3>1, <3>3
    <3> QED
      BY <2>5, <3>2, <3>4, EmptySeq
  <2> QED
    BY <2>1, <2>2, <2>3, <2>4, <2>5, <2>6
<1> QED
  BY <1>2, <1>3, <1>4

\* loadState takes a state that is not after the frame, if the first is not.
LEMMA LoadsNotAfter ==
  ASSUME NEW s \in Seq(Nat), NEW f \in Nat, s # <<>>, Ascending(s), s[1] <= f
  PROVE  LoadPosition(s, f) \in 1 .. Len(s) /\ s[LoadPosition(s, f)] <= f
<1> DEFINE before == {i \in DOMAIN s : s[i] <= f}
<1>1. PICK n \in Nat : n = Len(s) /\ n >= 1 /\ DOMAIN s = 1 .. n
  BY EmptySeq
<1>2. \A i \in 1 .. n : s[i] \in Nat
  BY <1>1
<1>3. \A i, j \in 1 .. n : i < j => s[i] < s[j]
  BY <1>1, AscendingByPosition
<1>4. IsFiniteSet(1 .. n) /\ Cardinality(1 .. n) = n
  <2>1. 1 \in Int /\ n \in Int /\ ~(1 > n) /\ n - 1 + 1 = n
    BY <1>1
  <2> QED
    BY <2>1, FS_Interval
<1>5. 1 \in before /\ before \subseteq 1 .. n
  BY <1>1
<1>6. IsFiniteSet(before) /\ Cardinality(before) <= n
  BY <1>4, <1>5, FS_Subset
<1>7. PICK k \in Nat : k = Cardinality(before) /\ k # 0
  BY <1>5, <1>6, FS_CardinalityType, FS_EmptySet
<1>8. k \in 1 .. n
  BY <1>6, <1>7
<1>9. LoadPosition(s, f) = k
  BY <1>5, <1>7 DEF LoadPosition
<1>10. s[k] <= f
  <2>1. SUFFICES ASSUME s[k] > f PROVE FALSE
    BY <1>2, <1>8
  <2>2. before \subseteq 1 .. k - 1
    <3> SUFFICES ASSUME NEW i \in before PROVE i \in 1 .. k - 1
      OBVIOUS
    <3>1. i \in 1 .. n /\ s[i] <= f
      BY <1>1
    <3>2. ~(k <= i)
      <4>1. CASE i = k
        BY <2>1, <3>1, <4>1, <1>2, <1>8
      <4>2. CASE k < i
        <5>1. s[k] < s[i] /\ s[k] \in Nat /\ s[i] \in Nat
          BY <1>2, <1>3, <1>8, <3>1, <4>2
        <5> QED
          BY <2>1, <3>1, <5>1
      <4> QED
        BY <4>1, <4>2, <3>1, <1>8
    <3> QED
      BY <3>1, <3>2, <1>8
  <2>3. PICK m \in Nat : m = k - 1
    BY <1>8
  <2>4. IsFiniteSet(1 .. m) /\ Cardinality(1 .. m) = m
    <3>1. 1 \in Int /\ m \in Int /\ (1 > m => m = 0) /\ m - 1 + 1 = m
      OBVIOUS
    <3> QED
      BY <3>1, FS_Interval
  <2>5. Cardinality(before) <= m
    BY <2>2, <2>3, <2>4, FS_Subset
  <2> QED
    BY <2>3, <2>5, <1>7
<1> QED
  BY <1>1, <1>8, <1>9, <1>10

-----------------------------------------------------------------------------
(* The steps.                                                              *)

\* What the steps of a peer act on, with their types.
LEMMA RepairTypes ==
  ASSUME TypeInv, NEW p \in Peer
  PROVE  /\ frame[p] \in Nat /\ known[p] \in Inputs /\ played[p] \in Inputs
         /\ saved[p] \in Seq(Nat) /\ changed[p] \in Nat \union {Never}
         /\ Len(played[p]) = frame[p]
         /\ rollbackTimer[p] \in Nat
         /\ Spacing(rollback[p]) \in Nat /\ Spacing(rollback[p]) >= 2
  BY TimerTypes DEF TypeInv, TypeOK, PlayedEach

\* A peer that did not step has as much to repair as before.
LEMMA RepairKept ==
  ASSUME RepairInv, NEW q \in Peer,
         played'[q] = played[q], known'[q] = known[q], changed'[q] = changed[q],
         inGame'[q] = inGame[q], phase'[q] = phase[q], saved'[q] = saved[q],
         rollback'[q] = rollback[q], rollbackTimer'[q] = rollbackTimer[q]
  PROVE  RepairOf(q)'
  BY DEF RepairInv, RepairOf, RepairsOf, LookedOf, TimerOf, FirstOf, Agrees

\* A frame that is played with what is known agrees with it, and no earlier one is
\* disturbed.
LEMMA AppendAgrees ==
  ASSUME TypeInv, NEW p \in Peer, NEW f \in Nat, f = frame[p],
         played' = [played EXCEPT ![p] = Append(played[p], InputAt(known[p], frame[p]))],
         known' = known
  PROVE  /\ Len(played'[p]) = f + 1
         /\ \A i \in 1 .. f : Agrees(p, i)' <=> Agrees(p, i)
         /\ Agrees(p, f + 1)'
<1>1. PICK g \in Inputs : g = played[p] /\ Len(g) = f
  BY RepairTypes
<1>2. PICK x \in Input : x = InputAt(known[p], f)
  BY <1>1, RepairTypes, InputAtType
<1>3. played'[p] = Append(g, x)
  BY <1>1, <1>2 DEF TypeInv, TypeOK
<1>4. /\ Len(Append(g, x)) = f + 1 /\ Append(g, x)[f + 1] = x
      /\ \A i \in 1 .. f : Append(g, x)[i] = g[i]
  BY <1>1, AppendProperties DEF Inputs
<1>5. Agrees(p, f + 1)'
  <2>1. PICK n \in Nat : n = f + 1 /\ n - 1 = f
    OBVIOUS
  <2>2. played'[p][n] = InputAt(known'[p], n - 1)
    BY <1>2, <1>3, <1>4, <2>1
  <2> QED
    BY <2>1, <2>2 DEF Agrees
<1>6. ASSUME NEW i \in 1 .. f
      PROVE  Agrees(p, i)' <=> Agrees(p, i)
  BY <1>1, <1>3, <1>4, <1>6 DEF Agrees
<1> QED
  BY <1>3, <1>4, <1>5, <1>6

\* Beginning a frame forgets the last changed frame only when nothing is left to repair.
LEMMA BeginRepair ==
  ASSUME TypeInv, RepairInv, NEW p \in Peer, NEW input \in Input, BeginFrame(p, input)
  PROVE  RepairInv'
<1>1. /\ UNCHANGED <<inGame, known, rollback, rollbackTimer, played>>
      /\ inGame[p] /\ phase[p] = "step" /\ phase'[p] = "poll"
      /\ changed'[p] = IF rollbackTimer[p] = Spacing(rollback[p]) THEN Never ELSE changed[p]
      /\ saved'[p] = Saved(saved[p], frame[p], RemoteFrame(p))
      /\ \A q \in Peer : q # p => /\ phase'[q] = phase[q] /\ changed'[q] = changed[q]
                                  /\ saved'[q] = saved[q]
  BY DEF BeginFrame, TypeInv, TypeOK
<1>2. RepairsOf(p) /\ LookedOf(p) /\ TimerOf(p) /\ FirstOf(p)
  BY DEF RepairInv, RepairOf
<1>3. \A i : Agrees(p, i)' <=> Agrees(p, i)
  BY <1>1 DEF Agrees
<1>4. RepairsOf(p)'
  <2>1. CASE rollbackTimer[p] = Spacing(rollback[p])
    BY <2>1, <1>1, <1>2, <1>3 DEF RepairsOf, LookedOf
  <2>2. CASE rollbackTimer[p] # Spacing(rollback[p])
    BY <2>2, <1>1, <1>2, <1>3 DEF RepairsOf
  <2> QED
    BY <2>1, <2>2
<1>5. LookedOf(p)' /\ TimerOf(p)'
  BY <1>1, <1>2 DEF LookedOf, TimerOf
<1>6. FirstOf(p)'
  <2>1. PICK s \in Seq(Nat), f \in Nat, remote \in Nat :
          s = saved[p] /\ f = frame[p] /\ remote = RemoteFrame(p)
    BY RepairTypes, RemoteFrameType DEF TypeInv
  <2>2. s # <<>> => s[1] = 0
    BY <1>1, <1>2, <2>1 DEF FirstOf
  <2>3. s = <<>> => f = 0
    <3>1. f > 0 => s # <<>>
      BY <1>1, <2>1 DEF TypeInv, SavedBefore
    <3> QED
      BY <3>1
  <2>4. Saved(s, f, remote)[1] = 0
    BY <2>2, <2>3, SavedKeepsFirst
  <2> QED
    BY <1>1, <2>1, <2>4 DEF FirstOf
<1>7. ASSUME NEW q \in Peer, q # p
      PROVE  RepairOf(q)'
  BY <1>1, <1>7, RepairKept
<1> QED
  BY <1>4, <1>5, <1>6, <1>7 DEF RepairInv, RepairOf

\* A packet contradicts a frame no later than the first one it makes wrong.
LEMMA ReceiveRepair ==
  ASSUME TypeInv, SentInv, RepairInv, NEW p \in Peer, NEW e \in sent[Other(p)],
         ReceiveInputs(p, e)
  PROVE  RepairInv'
<1>1. Other(p) \in Peer
  BY OtherPeer
<1>2. PICK s \in Inputs, source \in Inputs : s = known[p] /\ source = own[Other(p)]
  BY <1>1 DEF TypeInv, TypeOK
<1>3. e \in Nat /\ e <= Len(source)
  BY <1>1, <1>2 DEF SentInv, SentBound, TypeInv, TypeOK
<1> DEFINE frames == Contradicted(s, source, e)
<1>4. frames \in SUBSET Nat
  BY ConfigAssumption, <1>3 DEF Contradicted, StartFrame
<1> HIDE DEF frames
<1>5. /\ UNCHANGED <<inGame, phase, rollback, rollbackTimer, saved, played>>
      /\ inGame[p] /\ phase[p] = "poll"
      /\ known'[p] = Received(s, source, e)
      /\ changed'[p] = NextChanged(changed[p], frames)
      /\ \A q \in Peer : q # p => known'[q] = known[q] /\ changed'[q] = changed[q]
  BY <1>2 DEF ReceiveInputs, TypeInv, TypeOK, frames
<1>6. RepairsOf(p) /\ LookedOf(p) /\ TimerOf(p) /\ FirstOf(p)
  BY DEF RepairInv, RepairOf
<1>7. PICK before \in Nat \union {Never}, after \in Nat \union {Never} :
        /\ before = changed[p] /\ after = changed'[p]
        /\ before # Never => after # Never /\ after <= before
        /\ \A c \in frames : after # Never /\ after <= c
  <2>1. changed[p] \in Nat \union {Never}
    BY RepairTypes
  <2> QED
    BY <2>1, <1>4, <1>5, NextChangedEarliest
<1>8. RepairsOf(p)'
  <2>1. ASSUME NEW i \in 1 .. Len(played[p])
        PROVE  Agrees(p, i)' \/ (after # Never /\ after < i)
    <3>1. PICK f \in Nat : f = i - 1 /\ i = f + 1
      OBVIOUS
    <3>2. CASE InputAt(known'[p], f) # InputAt(s, f)
      <4>1. PICK c \in frames : c <= f
        BY <1>3, <1>5, <3>2, ReceivedContradicts DEF frames
      <4>2. after # Never /\ after <= c /\ c \in Nat
        BY <1>4, <1>7
      <4>3. after < i
        BY <3>1, <4>1, <4>2 DEF Never
      <4> QED
        BY <4>2, <4>3
    <3>3. CASE InputAt(known'[p], f) = InputAt(s, f)
      <4>1. Agrees(p, i) => Agrees(p, i)'
        BY <1>2, <1>5, <3>1, <3>3 DEF Agrees
      <4>2. Agrees(p, i) \/ (before # Never /\ before < i)
        BY <1>5, <1>6, <1>7 DEF RepairsOf
      <4>3. before # Never /\ before < i => after # Never /\ after < i
        BY <1>7 DEF Never
      <4> QED
        BY <4>1, <4>2, <4>3
    <3> QED
      BY <3>2, <3>3
  <2> QED
    BY <1>5, <1>7, <2>1 DEF RepairsOf
<1>9. LookedOf(p)' /\ TimerOf(p)' /\ FirstOf(p)'
  BY <1>5, <1>6 DEF LookedOf, TimerOf, FirstOf
<1>10. ASSUME NEW q \in Peer, q # p
       PROVE  RepairOf(q)'
  BY <1>5, <1>10, RepairKept
<1> QED
  BY <1>8, <1>9, <1>10 DEF RepairInv, RepairOf

\* A rollback loads a state that is not after the last changed frame: what is kept of
\* what was given agrees, and the frame it plays agrees.
LEMMA RollBackRepair ==
  ASSUME TypeInv, RepairInv, NEW p \in Peer, RollBack(p)
  PROVE  RepairInv'
<1>1. /\ UNCHANGED <<inGame, known, rollback>> /\ inGame[p] /\ phase[p] = "poll"
      /\ changed'[p] = Never
      /\ rollbackTimer'[p] = NextRollbackTimer(p) - 1
      /\ NextRollbackTimer(p) = Spacing(rollback[p])
      /\ changed[p] # Never /\ changed[p] < frame[p]
  BY DEF RollBack, MustRollBack, TypeInv, TypeOK
<1>2. RepairsOf(p) /\ FirstOf(p) /\ SavedNow(p)
  BY DEF RepairInv, RepairOf, TypeInv
<1>3. PICK s \in Seq(Nat), f \in Nat, g \in Inputs, c \in Nat :
        /\ s = saved[p] /\ f = frame[p] /\ g = played[p] /\ Len(g) = f
        /\ c = changed[p] /\ c < f
  BY <1>1, RepairTypes
<1>4. Ascending(s) /\ s # <<>> /\ s[1] = 0
  BY <1>1, <1>2, <1>3 DEF SavedNow, FirstOf
<1>5. PICK last \in 1 .. Len(s) : last = LoadPosition(s, c) /\ s[last] <= c
  BY <1>4, LoadsNotAfter
<1>6. PICK target \in Nat : target = s[last] /\ target <= c
  BY <1>5
<1>7. PICK x \in Input : x = InputAt(known[p], target)
  BY RepairTypes, InputAtType
<1> DEFINE h == SubSeq(g, 1, target)
<1>8. h \in Inputs /\ Len(h) = target /\ \A i \in 1 .. target : h[i] = g[i]
  <2>1. target \in 0 .. Len(g) /\ g \in Seq(Input)
    BY <1>3, <1>6 DEF Inputs
  <2> QED
    BY <2>1, PrefixFields, Zenon DEF Inputs
<1> HIDE DEF h
<1>9. /\ Len(Append(h, x)) = target + 1 /\ Append(h, x)[target + 1] = x
      /\ \A i \in 1 .. target : Append(h, x)[i] = g[i]
  BY <1>8, AppendProperties DEF Inputs
<1>10. played'[p] = Append(h, x) /\ saved'[p] = SubSeq(s, 1, last)
  BY <1>3, <1>5, <1>6, <1>7 DEF RollBack, TypeInv, TypeOK, h
<1>11. \A q \in Peer : q # p => /\ played'[q] = played[q] /\ changed'[q] = changed[q]
                                /\ phase'[q] = phase[q] /\ saved'[q] = saved[q]
                                /\ rollbackTimer'[q] = rollbackTimer[q]
  BY DEF RollBack, TypeInv, TypeOK
<1>12. RepairsOf(p)'
  <2>1. ASSUME NEW i \in 1 .. target + 1
        PROVE  Agrees(p, i)'
    <3>1. CASE i = target + 1
      <4>1. i - 1 = target
        BY <3>1
      <4> QED
        BY <1>1, <1>7, <1>9, <1>10, <3>1, <4>1 DEF Agrees
    <3>2. CASE i # target + 1
      <4>1. i \in 1 .. target /\ i \in 1 .. Len(g) /\ ~(c < i)
        <5>1. Len(g) = f /\ c < f /\ target <= c /\ target \in Nat /\ c \in Nat /\ f \in Nat
          BY <1>3, <1>6
        <5> QED
          BY ONLY <5>1, <3>2, i \in 1 .. target + 1
      <4>2. Agrees(p, i)
        BY <1>1, <1>2, <1>3, <4>1 DEF RepairsOf
      <4> QED
        BY <1>1, <1>3, <1>9, <1>10, <4>1, <4>2 DEF Agrees
    <3> QED
      BY <3>1, <3>2
  <2> QED
    BY <1>9, <1>10, <2>1 DEF RepairsOf
<1>13. TimerOf(p)' /\ LookedOf(p)'
  <2>1. rollbackTimer'[p] < Spacing(rollback'[p])
    BY <1>1, RepairTypes
  <2>2. Spacing(rollback'[p]) \in Nat /\ rollbackTimer'[p] \in Int
    BY <1>1, RepairTypes
  <2> QED
    BY <2>1, <2>2 DEF TimerOf, LookedOf
<1>14. FirstOf(p)'
  <2>1. last \in 0 .. Len(s) /\ 1 \in 1 .. last
    BY <1>5
  <2>2. SubSeq(s, 1, last)[1] = s[1]
    BY <2>1, PrefixFields, Zenon
  <2> QED
    BY <1>4, <1>10, <2>2 DEF FirstOf
<1>15. ASSUME NEW q \in Peer, q # p
       PROVE  RepairOf(q)'
  BY <1>1, <1>11, <1>15, RepairKept
<1> QED
  BY <1>12, <1>13, <1>14, <1>15 DEF RepairInv, RepairOf

\* A peer that plays a frame has looked for a rollback if the countdown is over: no frame
\* before this one has changed.
LEMMA PlayRepair ==
  ASSUME TypeInv, RepairInv, NEW p \in Peer, PlayFrame(p),
         Spacing(rollback'[p]) \in Nat, Spacing(rollback'[p]) >= Spacing(rollback[p]),
         \A q \in Peer : q # p => rollback'[q] = rollback[q]
  PROVE  RepairInv'
<1>1. /\ UNCHANGED <<inGame, known, changed, saved>> /\ inGame[p] /\ phase[p] = "poll"
      /\ rollbackTimer'[p] = NextRollbackTimer(p)
      /\ played' = [played EXCEPT ![p] = Append(played[p], InputAt(known[p], frame[p]))]
      /\ \A q \in Peer : q # p => /\ played'[q] = played[q] /\ phase'[q] = phase[q]
                                  /\ rollbackTimer'[q] = rollbackTimer[q]
      /\ ~MustRollBack(p)
  BY DEF PlayFrame, TypeInv, TypeOK
<1>2. RepairsOf(p) /\ TimerOf(p) /\ FirstOf(p)
  BY DEF RepairInv, RepairOf
<1>3. PICK f \in Nat : f = frame[p] /\ Len(played[p]) = f
  BY RepairTypes
<1>4. /\ Len(played'[p]) = f + 1 /\ \A i \in 1 .. f : Agrees(p, i)' <=> Agrees(p, i)
      /\ Agrees(p, f + 1)'
  BY <1>1, <1>3, AppendAgrees
<1>5. RepairsOf(p)'
  <2>1. ASSUME NEW i \in 1 .. f + 1
        PROVE  Agrees(p, i)' \/ (changed'[p] # Never /\ changed'[p] < i)
    <3>1. CASE i = f + 1
      BY <3>1, <1>4
    <3>2. CASE i # f + 1
      <4>1. i \in 1 .. f
        BY <3>2
      <4> QED
        BY <4>1, <1>1, <1>2, <1>3, <1>4 DEF RepairsOf
    <3> QED
      BY <3>1, <3>2
  <2> QED
    BY <1>4, <2>1 DEF RepairsOf
<1>6. PICK t \in Nat, m \in Nat, o \in Nat, n \in Nat :
        /\ t = rollbackTimer[p] /\ m = rollbackTimer'[p]
        /\ o = Spacing(rollback[p]) /\ n = Spacing(rollback'[p])
        /\ m = NextRollbackTimer(p) /\ t <= o /\ o <= n
  BY <1>1, <1>2, RepairTypes, TimerTypes DEF TimerOf, TypeInv
<1>7. m <= o
  <2>1. m = IF t >= o THEN t ELSE IF t = 0 THEN o ELSE t - 1
    BY <1>6 DEF NextRollbackTimer
  <2> QED
    BY <2>1, <1>6
<1>8. TimerOf(p)'
  <2>1. m <= n
    BY <1>6, <1>7
  <2> QED
    BY <1>6, <2>1 DEF TimerOf
<1>9. LookedOf(p)'
  <2>1. ASSUME m = n, NEW i \in 1 .. f + 1
        PROVE  Agrees(p, i)'
    <3>1. NextRollbackTimer(p) = Spacing(rollback[p])
      BY <1>6, <1>7, <2>1
    <3>2. ~(changed[p] # Never /\ changed[p] < f)
      BY <1>1, <1>3, <3>1 DEF MustRollBack
    <3>3. CASE i = f + 1
      BY <3>3, <1>4
    <3>4. CASE i # f + 1
      <4>1. i \in 1 .. f
        BY <3>4
      <4>2. ~(changed[p] # Never /\ changed[p] < i)
        BY <3>2, <4>1, RepairTypes DEF Never
      <4> QED
        BY <4>1, <4>2, <1>1, <1>2, <1>3, <1>4 DEF RepairsOf
    <3> QED
      BY <3>3, <3>4
  <2> QED
    BY <1>4, <1>6, <2>1 DEF LookedOf
<1>10. FirstOf(p)'
  BY <1>1, <1>2 DEF FirstOf
<1>11. ASSUME NEW q \in Peer, q # p
       PROVE  RepairOf(q)'
  BY <1>1, <1>11, RepairKept
<1> QED
  BY <1>5, <1>8, <1>9, <1>10, <1>11 DEF RepairInv, RepairOf

\* A frame played again agrees.
LEMMA RerunRepair ==
  ASSUME TypeInv, RepairInv, NEW p \in Peer, RerunFrame(p)
  PROVE  RepairInv'
<1>1. /\ UNCHANGED <<inGame, known, changed, saved, phase, rollback, rollbackTimer>>
      /\ inGame[p]
      /\ played' = [played EXCEPT ![p] = Append(played[p], InputAt(known[p], frame[p]))]
      /\ \A q \in Peer : q # p => played'[q] = played[q]
  BY DEF RerunFrame, TypeInv, TypeOK
<1>2. RepairsOf(p) /\ LookedOf(p) /\ TimerOf(p) /\ FirstOf(p)
  BY DEF RepairInv, RepairOf
<1>3. PICK f \in Nat : f = frame[p] /\ Len(played[p]) = f
  BY RepairTypes
<1>4. /\ Len(played'[p]) = f + 1 /\ \A i \in 1 .. f : Agrees(p, i)' <=> Agrees(p, i)
      /\ Agrees(p, f + 1)'
  BY <1>1, <1>3, AppendAgrees
<1>5. \A i \in 1 .. f + 1 : i \in 1 .. f \/ i = f + 1
  OBVIOUS
<1>6. RepairsOf(p)' /\ LookedOf(p)'
  BY <1>1, <1>2, <1>3, <1>4, <1>5 DEF RepairsOf, LookedOf
<1>7. TimerOf(p)' /\ FirstOf(p)'
  BY <1>1, <1>2 DEF TimerOf, FirstOf
<1>8. ASSUME NEW q \in Peer, q # p
      PROVE  RepairOf(q)'
  BY <1>1, <1>8, RepairKept
<1> QED
  BY <1>6, <1>7, <1>8 DEF RepairInv, RepairOf

\* Leaving the round, or learning that the other peer has, repairs and disturbs nothing.
LEMMA QuietRepair ==
  ASSUME TypeInv, RepairInv, NEW p \in Peer, Leave(p) \/ ReceiveIndex(p)
  PROVE  RepairInv'
<1>1. CASE Leave(p)
  <2>1. /\ UNCHANGED <<known, changed, phase, rollback, rollbackTimer, played>> /\ ~inGame'[p]
        /\ \A q \in Peer : q # p => inGame'[q] = inGame[q] /\ saved'[q] = saved[q]
    BY <1>1 DEF Leave, TypeInv, TypeOK
  <2>2. RepairOf(p)'
    BY <2>1 DEF RepairInv, RepairOf, RepairsOf, LookedOf, TimerOf, FirstOf
  <2>3. ASSUME NEW q \in Peer, q # p
        PROVE  RepairOf(q)'
    BY <2>1, <2>3, RepairKept
  <2> QED
    BY <2>2, <2>3 DEF RepairInv
<1>2. CASE ReceiveIndex(p)
  <2>1. UNCHANGED <<known, changed, phase, rollback, rollbackTimer, played, inGame, saved>>
    BY <1>2 DEF ReceiveIndex
  <2> QED
    BY <2>1, RepairKept DEF RepairInv
<1> QED
  BY <1>1, <1>2

-----------------------------------------------------------------------------
(* The theorem.                                                            *)

\* The round starts with nothing given, and a countdown that is over.
LEMMA RepairInit ==
  ASSUME Init
  PROVE  RepairInv
<1>1. ASSUME NEW p \in Peer
      PROVE  RepairOf(p)
  <2>1. /\ Len(played[p]) = 0 /\ saved[p] = <<>> /\ rollback[p] \in Nat
        /\ rollbackTimer[p] = Spacing(rollback[p])
    BY ConfigAssumption DEF Init
  <2>2. Spacing(rollback[p]) \in Nat
    BY <2>1 DEF Spacing
  <2> QED
    BY <2>1, <2>2 DEF RepairOf, RepairsOf, LookedOf, TimerOf, FirstOf
<1> QED
  BY <1>1 DEF RepairInv

\* Every step keeps it, if the spacing is not lowered.
LEMMA RepairStep ==
  ASSUME TypeInv, SentInv, RepairInv, Next, NeverLowered
  PROVE  RepairInv'
<1>1. PICK p \in Peer : Step(p)
  BY DEF Next
<1>2. CASE Leave(p) \/ ReceiveIndex(p)
  BY <1>2, QuietRepair
<1>3. ASSUME NEW input \in Input, BeginFrame(p, input)
      PROVE  RepairInv'
  BY <1>3, BeginRepair
<1>4. ASSUME NEW e \in sent[Other(p)], ReceiveInputs(p, e)
      PROVE  RepairInv'
  BY <1>4, ReceiveRepair
<1>5. CASE RollBack(p)
  BY <1>5, RollBackRepair
<1>6. CASE ContinueFrame(p)
  <2>1. PlayFrame(p) /\ rollback' = rollback
    BY <1>6 DEF ContinueFrame
  <2>2. Spacing(rollback'[p]) \in Nat /\ Spacing(rollback'[p]) >= Spacing(rollback[p])
    BY <2>1, RepairTypes
  <2> QED
    BY <2>1, <2>2, PlayRepair
<1>7. ASSUME NEW r \in 1 .. MaxRollback, NEW d \in 0 .. MaxDelay, ChangeFrame(p, r, d)
      PROVE  RepairInv'
  <2>1. /\ PlayFrame(p) /\ rollback'[p] = r
        /\ \A q \in Peer : q # p => rollback'[q] = rollback[q]
    BY <1>7 DEF ChangeFrame, TypeInv, TypeOK
  <2>2. Spacing(rollback'[p]) \in Nat
    BY <2>1, ConfigAssumption DEF Spacing
  <2>3. Spacing(rollback'[p]) >= Spacing(rollback[p])
    BY DEF NeverLowered
  <2> QED
    BY <2>1, <2>2, <2>3, PlayRepair
<1>8. CASE RerunFrame(p)
  BY <1>8, RerunRepair
<1>9. rollback[p] \in 1 .. MaxRollback /\ delay[p] \in 0 .. MaxDelay
  BY DEF TypeInv, TypeOK
<1> QED
  BY <1>1, <1>2, <1>3, <1>4, <1>5, <1>6, <1>7, <1>8, <1>9 DEF Step

\* When a peer that has just looked for a rollback goes on to a new frame, its game
\* was given every remote input known by then (DllMain.cpp:750-783), whatever arrived
\* while rollbacks were not allowed and whatever the pool had to give up, unless
\* somebody lowered the spacing of the rollbacks during the round.
THEOREM MispredictionsAreRepaired == Spec /\ [][NeverLowered]_vars => []PastIsRepaired
<1>1. Init => TypeInv /\ SentInv /\ RepairInv
  BY InitTypeInv, RepairInit DEF Init, SentInv, SentBound
<1>2. TypeInv /\ SentInv /\ RepairInv /\ [Next]_vars /\ [NeverLowered]_vars
        => TypeInv' /\ SentInv' /\ RepairInv'
  <2>1. TypeInv /\ SentInv /\ RepairInv /\ Next /\ NeverLowered
          => TypeInv' /\ SentInv' /\ RepairInv'
    BY TypeStep, SentStep, RepairStep
  <2>2. TypeInv /\ SentInv /\ RepairInv /\ UNCHANGED vars => TypeInv' /\ SentInv' /\ RepairInv'
    BY DEF vars, TypeInv, SentInv, SentBound, TypeOK, SavedBefore, SavedNow, PlayedEach,
           RepairInv, RepairOf, RepairsOf, LookedOf, TimerOf, FirstOf, Agrees
  <2> QED
    BY <2>1, <2>2
<1>3. TypeInv /\ RepairInv => PastIsRepaired
  <2> SUFFICES ASSUME TypeInv, RepairInv, NEW p \in Peer, inGame[p], phase[p] = "step",
                      rollbackTimer[p] >= Spacing(rollback[p]),
                      NEW i \in DOMAIN played[p], i \in DOMAIN known[p]
               PROVE  played[p][i] = known[p][i]
    BY DEF PastIsRepaired
  <2>1. rollbackTimer[p] = Spacing(rollback[p])
    <3>1. rollbackTimer[p] <= Spacing(rollback[p])
      BY DEF RepairInv, RepairOf, TimerOf
    <3> QED
      BY <3>1, RepairTypes
  <2>2. PICK g \in Inputs, s \in Inputs : g = played[p] /\ s = known[p]
    BY RepairTypes
  <2>3. i \in 1 .. Len(g) /\ i \in 1 .. Len(s) /\ Len(s) \in Nat
    BY <2>2 DEF Inputs
  <2>4. Agrees(p, i)
    BY <2>1, <2>2, <2>3 DEF RepairInv, RepairOf, LookedOf
  <2>5. PICK f \in Nat : f = i - 1 /\ f + 1 = i /\ f < Len(s)
    BY <2>3
  <2>6. InputAt(s, f) = s[i]
    BY <2>5, InputAtType
  <2> QED
    BY <2>2, <2>4, <2>5, <2>6 DEF Agrees
<1> QED
  BY <1>1, <1>2, <1>3, PTL DEF Spec

-----------------------------------------------------------------------------
(* The end of the round.                                                   *)

\* nobody raises the rollback while the round-over timer counts
NotRaisedAtEnd == \A p \in Peer : roundOverTimer[p] >= 0 => rollback'[p] <= rollback[p]

\* the round is held open long enough for one more look for a rollback
DelayFits == \A r \in 1 .. MaxRollback : Spacing(r) <= RoundOverDelay + 1

\* a frame is contradicted only by an input that is known
ChangedKnown(p) == changed[p] # Never => changed[p] < Len(known[p])

\* a peer has recorded its own input of every frame it played
FramesOwned(p) ==
    inGame[p] /\ ~ahead[p] =>
        /\ frame[p] <= Len(own[p])
        /\ stopFrame[p] # 0 => stopFrame[p] < Len(own[p])

Ends(p, f) == f < frame[p] /\ GivenAt(p, f) \in Deciding

\* everything up to frame f is known, and was given to the game as it is
Settled(p, f) == f < Len(known[p]) /\ \A i \in 1 .. f + 1 : played[p][i] = known[p][i]

\* frames until the next look for a rollback, that one included
UntilLook(p) == IF rollbackTimer[p] >= Spacing(rollback[p]) THEN 1 ELSE rollbackTimer[p] + 1

\* t frames before the round is left, its end at frame f is settled, or it is known
\* and there will be a look, or it will be known with a look still to come
InTime(p, f, t) ==
    \/ Settled(p, f)
    \/ f < Len(known[p]) /\ UntilLook(p) <= t
    \/ /\ f >= Len(known[p]) /\ t > RoundOverDelay
       /\ f + 1 + rollback[p] + RoundOverDelay <= t + frame[p]

EndAtStep(p) ==
    inGame[p] /\ phase[p] = "step" /\ ~ahead[p] /\ IsOver(p) =>
        \E f \in Nat : Ends(p, f) /\ InTime(p, f, NextRoundOverTimer(p))

EndAtPoll(p) ==
    inGame[p] /\ phase[p] = "poll" /\ ~ahead[p] =>
        IF IsOver(p)
          THEN /\ roundOverTimer[p] >= 0
               /\ \E f \in Nat : Ends(p, f) /\ InTime(p, f, roundOverTimer[p] + 1)
          ELSE roundOverTimer[p] = -1

EndAfter(p) == ~inGame[p] /\ ~ahead[p] => \E f \in Nat : Ends(p, f) /\ Settled(p, f)

EndOf(p) == ChangedKnown(p) /\ FramesOwned(p) /\ EndAtStep(p) /\ EndAtPoll(p) /\ EndAfter(p)

EndInv == \A p \in Peer : EndOf(p)

\* What the end of the round depends on, with its types.
LEMMA EndTypes ==
  ASSUME TypeInv, DelayFits, NEW p \in Peer
  PROVE  /\ frame[p] \in Nat /\ played[p] \in Inputs /\ Len(played[p]) = frame[p]
         /\ known[p] \in Inputs /\ Len(known[p]) \in Nat
         /\ own[p] \in Inputs /\ Len(own[p]) \in Nat /\ DOMAIN own[p] = 1 .. Len(own[p])
         /\ rollback[p] \in Nat /\ rollback[p] >= 1 /\ RoundOverDelay \in Nat
         /\ rollbackTimer[p] \in Nat /\ roundOverTimer[p] \in Nat \union {-1}
         /\ Spacing(rollback[p]) \in Nat /\ Spacing(rollback[p]) >= 2
         /\ Spacing(rollback[p]) <= RoundOverDelay + 1
         /\ changed[p] \in Nat \union {Never} /\ stopFrame[p] \in Nat
<1>1. TypeOK
  BY DEF TypeInv
<1>2. rollback[p] \in 1 .. MaxRollback /\ MaxRollback \in Nat /\ RoundOverDelay \in Nat
  BY <1>1, ConfigAssumption DEF TypeOK
<1>3. Spacing(rollback[p]) <= RoundOverDelay + 1
  BY <1>2 DEF DelayFits
<1>4. /\ rollbackTimer[p] \in Nat /\ roundOverTimer[p] \in Nat \union {-1}
      /\ changed[p] \in Nat \union {Never} /\ stopFrame[p] \in Nat
  BY <1>1 DEF TypeOK
<1>5. rollback[p] \in Nat /\ rollback[p] >= 1
  BY <1>2
<1>6. Spacing(rollback[p]) \in Nat /\ Spacing(rollback[p]) >= 2
  BY <1>1, TimerTypes
<1>7. frame[p] \in Nat /\ played[p] \in Inputs /\ Len(played[p]) = frame[p]
  BY RepairTypes
<1> QED
  BY <1>1, <1>2, <1>3, <1>4, <1>5, <1>6, <1>7, Lengths

\* There is a look within RoundOverDelay + 1 frames.
LEMMA LookBound ==
  ASSUME TypeInv, DelayFits, NEW p \in Peer
  PROVE  /\ UntilLook(p) \in Nat /\ UntilLook(p) >= 1 /\ UntilLook(p) <= RoundOverDelay + 1
<1>1. PICK t \in Nat, s \in Nat, d \in Nat :
        /\ t = rollbackTimer[p] /\ s = Spacing(rollback[p]) /\ d = RoundOverDelay
        /\ s >= 2 /\ s <= d + 1
  BY EndTypes
<1>2. UntilLook(p) = IF t >= s THEN 1 ELSE t + 1
  BY <1>1 DEF UntilLook
<1> QED
  BY <1>1, <1>2

\* The timer of a round that is over.
LEMMA OverTimer ==
  ASSUME TypeInv, NEW p \in Peer
  PROVE  /\ ~IsOver(p) => NextRoundOverTimer(p) = -1
         /\ IsOver(p) /\ roundOverTimer[p] >= 0 => NextRoundOverTimer(p) = roundOverTimer[p]
         /\ IsOver(p) /\ roundOverTimer[p] < 0 => NextRoundOverTimer(p) = rollback[p] + RoundOverDelay
<1>1. roundOverTimer[p] \in Nat \union {-1}
  BY DEF TypeInv, TypeOK
<1> QED
  BY <1>1 DEF NextRoundOverTimer

\* A frame that ended the round still does when its inputs are kept.
LEMMA EndsKept ==
  ASSUME NEW p \in Peer, NEW f \in Nat, own'[p][f + 1] = own[p][f + 1], played'[p][f + 1] = played[p][f + 1]
  PROVE  /\ GivenAt(p, f)' = GivenAt(p, f)
         /\ f < frame'[p] /\ Ends(p, f) => Ends(p, f)'
  BY DEF Ends, GivenAt

\* The round is over when one of the frames played ends it.
LEMMA OverWhenEnds ==
  ASSUME TypeInv, NEW p \in Peer
  PROVE  IsOver(p) <=> \E f \in Nat : Ends(p, f)
<1>1. frame[p] \in Nat
  BY DEF TypeInv, TypeOK
<1>2. \A f \in Nat : f \in 0 .. frame[p] - 1 <=> f < frame[p]
  BY <1>1
<1>3. \A f \in 0 .. frame[p] - 1 : f \in Nat
  BY <1>1
<1> QED
  BY <1>2, <1>3 DEF IsOver, Ends

\* What is settled stays so when no input of it is forgotten.
LEMMA SettledKept ==
  ASSUME TypeInv, TypeInv', NEW p \in Peer, NEW f \in Nat, Settled(p, f),
         Len(known'[p]) >= Len(known[p]),
         \A i \in 1 .. Len(known[p]) : known'[p][i] = known[p][i],
         \A i \in 1 .. f + 1 : played'[p][i] = played[p][i]
  PROVE  Settled(p, f)'
<1>1. PICK k \in Nat, m \in Nat : k = Len(known[p]) /\ m = Len(known'[p]) /\ f < k /\ k <= m
  <2>1. known[p] \in Seq(Input) /\ known'[p] \in Seq(Input)
    BY DEF TypeInv, TypeOK, Inputs
  <2>2. Len(known[p]) \in Nat /\ Len(known'[p]) \in Nat
    BY <2>1
  <2> QED
    BY <2>2 DEF Settled
<1>2. ASSUME NEW i \in 1 .. f + 1
      PROVE  played'[p][i] = known'[p][i]
  <2>1. i \in 1 .. Len(known[p])
    BY <1>1
  <2>2. known'[p][i] = known[p][i] /\ played'[p][i] = played[p][i] /\ played[p][i] = known[p][i]
    BY <2>1 DEF Settled
  <2> QED
    BY <2>2
<1> QED
  BY <1>1, <1>2 DEF Settled

\* An end that is known and not settled is left to repair.
LEMMA UnsettledChanged ==
  ASSUME TypeInv, RepairInv, NEW p \in Peer, inGame[p], NEW f \in Nat, f < frame[p],
         f < Len(known[p]), ~Settled(p, f)
  PROVE  changed[p] # Never /\ changed[p] < frame[p]
<1>1. PICK i \in 1 .. f + 1 : played[p][i] # known[p][i]
  BY DEF Settled
<1>2. PICK n \in Nat, k \in Nat, c \in Nat \union {Never} :
        n = frame[p] /\ n = Len(played[p]) /\ k = Len(known[p]) /\ c = changed[p]
  <2>1. known[p] \in Seq(Input)
    BY RepairTypes DEF Inputs
  <2>2. Len(known[p]) \in Nat
    BY <2>1
  <2> QED
    BY <2>2, RepairTypes
<1>3. PICK j \in Nat : j = i - 1 /\ i = j + 1 /\ j < k /\ i <= n
  BY <1>2
<1>4. InputAt(known[p], j) = known[p][i]
  BY <1>2, <1>3, RepairTypes, InputAtType
<1>5. ~Agrees(p, i)
  BY <1>1, <1>3, <1>4 DEF Agrees
<1>6. i \in 1 .. Len(played[p])
  BY <1>2, <1>3
<1>7. c # Never /\ c < i
  BY <1>2, <1>5, <1>6 DEF RepairInv, RepairOf, RepairsOf
<1> QED
  BY <1>2, <1>3, <1>7 DEF Never

\* The invariant holds for a peer when nothing it speaks of changed.
LEMMA EndKept ==
  ASSUME EndInv, NEW q \in Peer,
         frame'[q] = frame[q], inGame'[q] = inGame[q], ahead'[q] = ahead[q], phase'[q] = phase[q],
         own'[q] = own[q], known'[q] = known[q], played'[q] = played[q], changed'[q] = changed[q],
         stopFrame'[q] = stopFrame[q], rollback'[q] = rollback[q],
         rollbackTimer'[q] = rollbackTimer[q], roundOverTimer'[q] = roundOverTimer[q]
  PROVE  EndOf(q)'
<1>1. \A f : GivenAt(q, f)' = GivenAt(q, f)
  BY DEF GivenAt
<1>2. IsOver(q)' <=> IsOver(q)
  BY <1>1 DEF IsOver
<1>3. \A f : Ends(q, f)' <=> Ends(q, f)
  BY <1>1 DEF Ends
<1>4. \A f : Settled(q, f)' <=> Settled(q, f)
  BY DEF Settled
<1>5. UntilLook(q)' = UntilLook(q)
  BY DEF UntilLook
<1>6. \A f, t : InTime(q, f, t)' <=> InTime(q, f, t)
  BY <1>4, <1>5 DEF InTime
<1>7. NextRoundOverTimer(q)' = NextRoundOverTimer(q)
  BY <1>2 DEF NextRoundOverTimer
<1>8. ChangedKnown(q) /\ FramesOwned(q) /\ EndAtStep(q) /\ EndAtPoll(q) /\ EndAfter(q)
  BY DEF EndInv, EndOf
<1>9. ChangedKnown(q)' /\ FramesOwned(q)'
  BY <1>8 DEF ChangedKnown, FramesOwned
<1>10. EndAtStep(q)'
  <2>1. \A f : InTime(q, f, NextRoundOverTimer(q))' <=> InTime(q, f, NextRoundOverTimer(q))
    BY <1>4, <1>5, <1>7 DEF InTime
  <2> QED
    BY <1>2, <1>3, <1>8, <2>1 DEF EndAtStep
<1>11. EndAtPoll(q)'
  <2>1. \A f : InTime(q, f, roundOverTimer[q] + 1)' <=> InTime(q, f, roundOverTimer[q] + 1)
    BY <1>4, <1>5 DEF InTime
  <2> QED
    BY <1>2, <1>3, <1>8, <2>1 DEF EndAtPoll
<1>12. EndAfter(q)'
  BY <1>3, <1>4, <1>8 DEF EndAfter
<1> QED
  BY <1>9, <1>10, <1>11, <1>12 DEF EndOf

\* A round is left when its end is settled.
LEMMA LeaveEnd ==
  ASSUME TypeInv, DelayFits, EndInv, NEW p \in Peer, Leave(p)
  PROVE  EndInv'
<1>1. /\ UNCHANGED <<frame, ahead, phase, own, known, played, changed, rollback, rollbackTimer>>
      /\ inGame[p] /\ phase[p] = "step" /\ ~inGame'[p] /\ IsOver(p) /\ roundOverTimer[p] = 0
      /\ \A q \in Peer : q # p => /\ inGame'[q] = inGame[q] /\ stopFrame'[q] = stopFrame[q]
                                  /\ roundOverTimer'[q] = roundOverTimer[q]
  BY DEF Leave, RoundOver, TypeInv, TypeOK
<1>2. ChangedKnown(p) /\ EndAtStep(p)
  BY DEF EndInv, EndOf
<1>3. NextRoundOverTimer(p) = 0
  BY <1>1, OverTimer
<1>4. ASSUME ~ahead[p]
      PROVE  \E f \in Nat : Ends(p, f) /\ Settled(p, f)
  <2>1. PICK f \in Nat : Ends(p, f) /\ InTime(p, f, 0)
    BY <1>1, <1>2, <1>3, <1>4 DEF EndAtStep
  <2>2. ~(UntilLook(p) <= 0) /\ ~(0 > RoundOverDelay)
    BY LookBound, EndTypes
  <2> QED
    BY <2>1, <2>2 DEF InTime
<1>5. \A f : (Ends(p, f)' <=> Ends(p, f)) /\ (Settled(p, f)' <=> Settled(p, f))
  BY <1>1 DEF Ends, Settled, GivenAt
<1>6. ChangedKnown(p)' /\ FramesOwned(p)' /\ EndAtStep(p)' /\ EndAtPoll(p)' /\ EndAfter(p)'
  BY <1>1, <1>2, <1>4, <1>5 DEF ChangedKnown, FramesOwned, EndAtStep, EndAtPoll, EndAfter
<1>7. ASSUME NEW q \in Peer, q # p
      PROVE  EndOf(q)'
  BY <1>1, <1>7, EndKept
<1> QED
  BY <1>6, <1>7 DEF EndInv, EndOf

\* A peer that sees the other ahead no longer ends on its own frames.
LEMMA ReceiveIndexEnd ==
  ASSUME TypeInv, EndInv, NEW p \in Peer, ReceiveIndex(p)
  PROVE  EndInv'
<1>1. /\ UNCHANGED <<frame, phase, inGame, own, known, played, changed, rollback, rollbackTimer,
                     roundOverTimer, stopFrame>>
      /\ ahead'[p] /\ \A q \in Peer : q # p => ahead'[q] = ahead[q]
  BY DEF ReceiveIndex, TypeInv, TypeOK
<1>2. EndOf(p)'
  BY <1>1 DEF EndInv, EndOf, ChangedKnown, FramesOwned, EndAtStep, EndAtPoll, EndAfter
<1>3. ASSUME NEW q \in Peer, q # p
      PROVE  EndOf(q)'
  BY <1>1, <1>3, EndKept
<1> QED
  BY <1>2, <1>3 DEF EndInv

\* As a frame begins the timer of a round that is over counts one frame down.
LEMMA BeginEnd ==
  ASSUME TypeInv, DelayFits, EndInv, NEW p \in Peer, NEW input \in Input, BeginFrame(p, input)
  PROVE  EndInv'
<1>1. /\ UNCHANGED <<frame, inGame, ahead, known, rollback, rollbackTimer, stopFrame, played>>
      /\ inGame[p] /\ phase[p] = "step" /\ phase'[p] = "poll" /\ ~RoundOver(p) /\ stopFrame[p] = 0
      /\ changed'[p] = Never \/ changed'[p] = changed[p]
      /\ own'[p] = Recorded(own[p], frame[p] + delay[p], input)
      /\ roundOverTimer'[p] = IF NextRoundOverTimer(p) > 0 THEN NextRoundOverTimer(p) - 1
                              ELSE NextRoundOverTimer(p)
      /\ \A q \in Peer : q # p => /\ phase'[q] = phase[q] /\ changed'[q] = changed[q] /\ own'[q] = own[q]
                                  /\ roundOverTimer'[q] = roundOverTimer[q]
  BY DEF BeginFrame, SetInput, TypeInv, TypeOK
<1>2. ChangedKnown(p) /\ FramesOwned(p) /\ EndAtStep(p)
  BY DEF EndInv, EndOf
<1>3. PICK n \in Nat, l \in Nat, t \in Nat \union {-1}, r \in Nat, d \in Nat, x \in Nat \union {-1} :
        /\ n = frame[p] /\ l = Len(own[p]) /\ t = roundOverTimer[p] /\ r = rollback[p] /\ r >= 1
        /\ d = RoundOverDelay /\ x = NextRoundOverTimer(p)
  BY EndTypes, TimerTypes DEF TypeInv
<1>4. /\ Len(own'[p]) \in Nat /\ Len(own'[p]) >= l
      /\ \A i \in 1 .. l : own'[p][i] = own[p][i]
  <2>1. own[p] \in Inputs /\ frame[p] + delay[p] \in Nat /\ DOMAIN own[p] = 1 .. l
    BY <1>3, Lengths DEF TypeInv
  <2>2. PICK g \in Nat : g = frame[p] + delay[p]
    BY <2>1
  <2>3. /\ Len(Recorded(own[p], g, input)) = IF g < Len(own[p]) THEN Len(own[p]) ELSE g + 1
        /\ \A i \in DOMAIN own[p] : Recorded(own[p], g, input)[i] = own[p][i]
    BY <2>1, <2>2, RecordedFields
  <2>4. own'[p] = Recorded(own[p], g, input)
    BY <1>1, <2>2
  <2>5. Len(own'[p]) = IF g < l THEN l ELSE g + 1
    BY <1>3, <2>3, <2>4
  <2>6. Len(own'[p]) \in Nat /\ Len(own'[p]) >= l
    BY <2>5
  <2>7. \A i \in 1 .. l : own'[p][i] = own[p][i]
    BY <2>1, <2>3, <2>4
  <2> QED
    BY <2>6, <2>7
<1>5. ChangedKnown(p)' /\ FramesOwned(p)'
  <2>1. FramesOwned(p)'
    BY <1>1, <1>2, <1>3, <1>4 DEF FramesOwned
  <2>2. ChangedKnown(p)'
    BY <1>1, <1>2 DEF ChangedKnown
  <2> QED
    BY <2>1, <2>2
<1>6. EndAtPoll(p)'
  <2> SUFFICES ASSUME ~ahead[p]
               PROVE  IF IsOver(p)'
                        THEN /\ roundOverTimer'[p] >= 0
                             /\ \E f \in Nat : Ends(p, f)' /\ InTime(p, f, roundOverTimer[p] + 1)'
                        ELSE roundOverTimer'[p] = -1
    BY <1>1 DEF EndAtPoll
  <2>1. ASSUME NEW f \in Nat
        PROVE  Ends(p, f)' <=> Ends(p, f)
    <3>1. CASE f < n
      <4>1. f + 1 \in 1 .. l
        BY <1>1, <1>2, <1>3, <3>1 DEF FramesOwned
      <4>2. GivenAt(p, f)' = GivenAt(p, f)
        BY <1>1, <1>4, <4>1, EndsKept
      <4> QED
        BY <1>1, <4>2 DEF Ends
    <3>2. CASE ~(f < n)
      BY <1>1, <1>3, <3>2 DEF Ends
    <3> QED
      BY <3>1, <3>2
  <2>2. IsOver(p)' <=> IsOver(p)
    <3>1. \A f \in 0 .. n - 1 : f \in Nat /\ f < n
      BY <1>3
    <3>2. \A f \in 0 .. n - 1 : GivenAt(p, f)' \in Deciding <=> GivenAt(p, f) \in Deciding
      BY <1>1, <1>3, <2>1, <3>1 DEF Ends
    <3> QED
      BY <1>1, <1>3, <3>2 DEF IsOver
  <2>3. CASE IsOver(p)
    <3>1. x > 0
      <4>1. t # 0
        BY <1>1, <1>3, <2>3 DEF RoundOver
      <4>2. x = IF t < 0 THEN r + d ELSE t
        BY <1>3, <2>3 DEF NextRoundOverTimer
      <4> QED
        BY <1>3, <4>1, <4>2
    <3>2. roundOverTimer'[p] = x - 1 /\ x - 1 >= 0 /\ roundOverTimer'[p] + 1 = x
      BY <1>1, <1>3, <3>1
    <3>3. PICK f \in Nat : Ends(p, f) /\ InTime(p, f, x)
      BY <1>1, <1>2, <1>3, <2>3 DEF EndAtStep
    <3>4. InTime(p, f, roundOverTimer[p] + 1)'
      BY <1>1, <3>2, <3>3 DEF InTime, Settled, UntilLook
    <3> QED
      BY <2>1, <2>2, <2>3, <3>2, <3>3, <3>4
  <2>4. CASE ~IsOver(p)
    BY <1>1, <1>3, <2>2, <2>4 DEF NextRoundOverTimer
  <2> QED
    BY <2>3, <2>4
<1>7. EndAtStep(p)' /\ EndAfter(p)'
  BY <1>1 DEF EndAtStep, EndAfter
<1>8. ASSUME NEW q \in Peer, q # p
      PROVE  EndOf(q)'
  BY <1>1, <1>8, EndKept
<1> QED
  BY <1>5, <1>6, <1>7, <1>8 DEF EndInv, EndOf

\* The earliest contradicted frame is one of those contradicted.
LEMMA NextChangedOneOf ==
  ASSUME NEW before \in Nat \union {Never}, NEW frames \in SUBSET Nat
  PROVE  NextChanged(before, frames) \in frames \union {before}
<1>1. CASE frames = {}
  BY <1>1 DEF NextChanged
<1>2. CASE frames # {}
  <2>1. \E f \in frames : \A g \in frames : f <= g
    BY <1>2, SmallestFrame
  <2>2. Earliest(frames) \in frames
    BY <2>1 DEF Earliest
  <2> QED
    BY <2>2 DEF NextChanged
<1> QED
  BY <1>1, <1>2

\* An input that arrives in time leaves a look to come.
LEMMA ReceiveEnd ==
  ASSUME TypeInv, TypeInv', SentInv, WindowInv, DelayFits, EndInv,
         NEW p \in Peer, NEW e \in sent[Other(p)], ReceiveInputs(p, e)
  PROVE  EndInv'
<1>1. Other(p) \in Peer
  BY OtherPeer
<1>2. PICK s \in Inputs, source \in Inputs : s = known[p] /\ source = own[Other(p)]
  BY <1>1, EndTypes
<1>3. e \in Nat /\ e <= Len(source)
  BY <1>1, <1>2 DEF SentInv, SentBound, TypeInv, TypeOK
<1> DEFINE frames == Contradicted(s, source, e)
<1>4. frames \in SUBSET Nat /\ \A c \in frames : c < e
  BY ConfigAssumption, <1>3 DEF Contradicted, StartFrame
<1> HIDE DEF frames
<1>5. /\ UNCHANGED <<frame, inGame, ahead, phase, own, rollback, rollbackTimer, roundOverTimer, stopFrame, played>>
      /\ inGame[p] /\ phase[p] = "poll"
      /\ known'[p] = Received(s, source, e)
      /\ changed'[p] = NextChanged(changed[p], frames)
      /\ \A q \in Peer : q # p => known'[q] = known[q] /\ changed'[q] = changed[q]
  BY <1>2 DEF ReceiveInputs, TypeInv, TypeOK, frames
<1>6. ChangedKnown(p) /\ FramesOwned(p) /\ EndAtPoll(p)
  BY DEF EndInv, EndOf
<1>7. PICK k \in Nat, m \in Nat, d \in Nat, t \in Nat \union {-1} :
        k = Len(known[p]) /\ m = Len(known'[p]) /\ d = RoundOverDelay /\ t = roundOverTimer[p]
  <2>1. known'[p] \in Seq(Input)
    BY DEF TypeInv, TypeOK, Inputs
  <2>2. Len(known'[p]) \in Nat
    BY <2>1
  <2> QED
    BY <2>2, EndTypes
<1>8. m = IF e > k THEN e ELSE k
  BY <1>2, <1>3, <1>5, <1>7, ReceivedFields
<1>9. \A i \in 1 .. k : known'[p][i] = known[p][i]
  <2>1. KnownOf(p) /\ WindowBound(p)
    BY DEF WindowInv
  <2>2. \A i \in 1 .. k : i \in DOMAIN s
    BY <1>2, <1>7 DEF Inputs
  <2>3. \A i \in 1 .. k : s[i] = source[i]
    BY <1>2, <2>1, <2>2 DEF KnownOf
  <2>4. Len(source) <= k + NumInputs
    BY <1>2, <1>5, <1>7, <2>1 DEF WindowBound
  <2>5. e <= Len(s) + NumInputs
    <3>1. Len(source) \in Nat /\ NumInputs \in Nat /\ Len(s) = k
      BY <1>2, <1>7, ConfigAssumption DEF Inputs
    <3> QED
      BY ONLY <1>3, <1>7, <2>4, <3>1
  <2>6. \A i \in DOMAIN known'[p] : known'[p][i] = source[i]
    BY <1>2, <1>3, <1>5, <2>1, <2>5, ReceivedFields DEF KnownOf
  <2>7. DOMAIN known'[p] = 1 .. m
    <3>1. known'[p] \in Seq(Input)
      BY DEF TypeInv, TypeOK, Inputs
    <3> QED
      BY <3>1, <1>7
  <2>8. \A i \in 1 .. k : i \in 1 .. m
    BY <1>8, <1>3
  <2> QED
    BY <1>2, <2>3, <2>6, <2>7, <2>8
<1>10. ChangedKnown(p)'
  <2>1. changed'[p] \in frames \union {changed[p]} /\ changed[p] \in Nat \union {Never}
    BY <1>4, <1>5, EndTypes, NextChangedOneOf
  <2>2. CASE changed'[p] \in frames
    <3>1. PICK c \in Nat : c = changed'[p] /\ c < e
      BY <2>2, <1>4
    <3>2. c < m
      BY ONLY <3>1, <1>3, <1>7, <1>8
    <3> QED
      BY <3>1, <3>2, <1>7 DEF ChangedKnown
  <2>3. CASE changed'[p] = changed[p]
    BY <2>1, <2>3, <1>3, <1>6, <1>7, <1>8 DEF ChangedKnown, Never
  <2> QED
    BY <2>1, <2>2, <2>3
<1>11. FramesOwned(p)' /\ EndAtStep(p)' /\ EndAfter(p)'
  BY <1>5, <1>6 DEF FramesOwned, EndAtStep, EndAfter
<1>12. EndAtPoll(p)'
  <2>1. \A f : Ends(p, f)' <=> Ends(p, f)
    BY <1>5 DEF Ends, GivenAt
  <2>2. IsOver(p)' <=> IsOver(p)
    BY <1>5 DEF IsOver, GivenAt
  <2>3. ASSUME NEW f \in Nat, t >= 0, InTime(p, f, t + 1)
        PROVE  InTime(p, f, t + 1)'
    <3>1. UntilLook(p)' = UntilLook(p) /\ UntilLook(p) \in Nat /\ UntilLook(p) <= d + 1
      BY <1>5, <1>7, LookBound DEF UntilLook
    <3>2. CASE Settled(p, f)
      <4>1. Len(known'[p]) >= Len(known[p])
        BY <1>3, <1>7, <1>8
      <4>2. \A i \in 1 .. f + 1 : played'[p][i] = played[p][i]
        BY <1>5
      <4>3. Settled(p, f)'
        BY <1>7, <1>9, <3>2, <4>1, <4>2, SettledKept
      <4> QED
        BY <4>3 DEF InTime
    <3>3. CASE f < k /\ UntilLook(p) <= t + 1
      BY <1>3, <1>7, <1>8, <3>1, <3>3 DEF InTime
    <3>4. CASE /\ f >= k /\ t + 1 > d
               /\ f + 1 + rollback[p] + d <= t + 1 + frame[p]
      <4>1. CASE f < m
        BY <1>7, <3>1, <3>4, <4>1 DEF InTime
      <4>2. CASE ~(f < m)
        BY <1>5, <1>7, <3>4, <4>2 DEF InTime
      <4> QED
        BY <4>1, <4>2
    <3> QED
      BY <1>7, <2>3, <3>2, <3>3, <3>4 DEF InTime
  <2>4. \A f \in Nat : t >= 0 /\ InTime(p, f, roundOverTimer[p] + 1) => InTime(p, f, roundOverTimer[p] + 1)'
    <3>1. roundOverTimer[p] + 1 = t + 1 /\ roundOverTimer'[p] + 1 = t + 1
      BY <1>5, <1>7
    <3>2. \A f : InTime(p, f, roundOverTimer[p] + 1)' <=> InTime(p, f, t + 1)'
      BY <3>1 DEF InTime
    <3> QED
      BY <2>3, <3>1, <3>2
  <2> QED
    BY <1>5, <1>6, <1>7, <2>1, <2>2, <2>4 DEF EndAtPoll
<1>13. ASSUME NEW q \in Peer, q # p
       PROVE  EndOf(q)'
  BY <1>5, <1>13, EndKept
<1> QED
  BY <1>10, <1>11, <1>12, <1>13 DEF EndInv, EndOf

\* What the game was given before stays when a frame is played.
LEMMA AppendKeeps ==
  ASSUME TypeInv, NEW p \in Peer, NEW n \in Nat, n = frame[p],
         played' = [played EXCEPT ![p] = Append(played[p], InputAt(known[p], frame[p]))]
  PROVE  \A i \in 1 .. n : played'[p][i] = played[p][i]
<1>1. PICK g \in Inputs : g = played[p] /\ Len(g) = n
  BY RepairTypes
<1>2. PICK x \in Input : x = InputAt(known[p], n)
  BY RepairTypes, InputAtType
<1>3. played'[p] = Append(g, x)
  BY <1>1, <1>2 DEF TypeInv, TypeOK
<1> QED
  BY <1>1, <1>3, AppendProperties DEF Inputs

\* A frame is played: an end that was there is still there, and a new one is at the new frame.
LEMMA FramePlayedEnds ==
  ASSUME TypeInv, TypeInv', NEW p \in Peer, NEW n \in Nat, n = frame[p], frame'[p] = n + 1,
         own'[p] = own[p], \A i \in 1 .. n : played'[p][i] = played[p][i]
  PROVE  /\ \A f \in Nat : Ends(p, f) => Ends(p, f)'
         /\ IsOver(p)' => IsOver(p) \/ Ends(p, n)'
<1>1. ASSUME NEW f \in Nat, f < n
      PROVE  GivenAt(p, f)' = GivenAt(p, f)
  <2>1. f + 1 \in 1 .. n
    BY <1>1
  <2> QED
    BY <2>1, EndsKept
<1>2. ASSUME NEW f \in Nat, Ends(p, f)
      PROVE  Ends(p, f)'
  BY <1>1, <1>2 DEF Ends
<1>3. ASSUME IsOver(p)', ~Ends(p, n)'
      PROVE  IsOver(p)
  <2>1. PICK f \in 0 .. n : GivenAt(p, f)' \in Deciding
    BY <1>3 DEF IsOver
  <2>2. f # n
    BY <1>3, <2>1 DEF Ends
  <2>3. f \in 0 .. n - 1 /\ f \in Nat /\ f < n
    BY <2>1, <2>2
  <2> QED
    BY <1>1, <2>1, <2>3 DEF IsOver
<1> QED
  BY <1>2, <1>3

\* A new end has the whole delay before it.
LEMMA NewEndInTime ==
  ASSUME TypeInv, TypeInv', DelayFits, NEW p \in Peer, NEW n \in Nat, frame'[p] = n + 1,
         IsOver(p)', roundOverTimer'[p] < 0
  PROVE  InTime(p, n, NextRoundOverTimer(p))'
<1>1. PICK r \in Nat, d \in Nat, k \in Nat :
        r = rollback'[p] /\ r >= 1 /\ d = RoundOverDelay /\ k = Len(known'[p])
  <2>1. rollback'[p] \in 1 .. MaxRollback /\ MaxRollback \in Nat /\ RoundOverDelay \in Nat
    BY ConfigAssumption DEF TypeInv, TypeOK
  <2>2. known'[p] \in Seq(Input)
    BY DEF TypeInv, TypeOK, Inputs
  <2>3. Len(known'[p]) \in Nat
    BY <2>2
  <2>4. rollback'[p] \in Nat /\ rollback'[p] >= 1
    BY <2>1
  <2> QED
    BY <2>1, <2>3, <2>4
<1>2. NextRoundOverTimer(p)' = r + d
  BY <1>1 DEF NextRoundOverTimer
<1>3. UntilLook(p)' <= d + 1 /\ UntilLook(p)' \in Nat
  <2>1. PICK t \in Nat, s \in Nat :
          t = rollbackTimer'[p] /\ s = Spacing(rollback'[p]) /\ s >= 2 /\ s <= d + 1
    <3>1. rollback'[p] \in 1 .. MaxRollback /\ MaxRollback \in Nat /\ rollbackTimer'[p] \in Nat
      BY ConfigAssumption DEF TypeInv, TypeOK
    <3>2. Spacing(r) \in Nat /\ Spacing(r) >= 2
      BY DEF Spacing
    <3>3. Spacing(r) <= d + 1
      BY <1>1, <3>1 DEF DelayFits
    <3> QED
      BY <1>1, <3>1, <3>2, <3>3
  <2>2. UntilLook(p)' = IF t >= s THEN 1 ELSE t + 1
    BY <2>1 DEF UntilLook
  <2> QED
    BY <2>1, <2>2
<1>4. CASE n < k
  <2>1. UntilLook(p)' <= NextRoundOverTimer(p)'
    BY <1>1, <1>2, <1>3
  <2> QED
    BY <1>1, <1>4, <2>1 DEF InTime
<1>5. CASE ~(n < k)
  <2>1. n >= k /\ r + d > d /\ n + 1 + r + d <= r + d + (n + 1)
    BY <1>1, <1>5
  <2> QED
    BY <1>1, <1>2, <2>1 DEF InTime
<1> QED
  BY <1>4, <1>5

\* A frame played with what is known so far: when an end is to be repaired a look comes
\* one frame nearer, and when it is not known yet the wait for inputs keeps it near enough.
LEMMA PlayEnd ==
  ASSUME TypeInv, TypeInv', CoversInv, RepairInv, DelayFits, EndInv, NEW p \in Peer, PlayFrame(p),
         roundOverTimer[p] >= 0 => /\ rollback'[p] <= rollback[p]
                                   /\ Spacing(rollback'[p]) = Spacing(rollback[p]),
         \A q \in Peer : q # p => rollback'[q] = rollback[q]
  PROVE  EndInv'
<1>1. /\ UNCHANGED <<inGame, ahead, own, known, changed, roundOverTimer, stopFrame>>
      /\ inGame[p] /\ phase[p] = "poll" /\ phase'[p] = "step" /\ RemoteInputReady(p) /\ ~MustRollBack(p)
      /\ frame'[p] = frame[p] + 1
      /\ rollbackTimer'[p] = NextRollbackTimer(p)
      /\ played' = [played EXCEPT ![p] = Append(played[p], InputAt(known[p], frame[p]))]
      /\ \A q \in Peer : q # p => /\ frame'[q] = frame[q] /\ phase'[q] = phase[q] /\ played'[q] = played[q]
                                  /\ rollbackTimer'[q] = rollbackTimer[q]
  BY DEF PlayFrame, TypeInv, TypeOK
<1>2. ChangedKnown(p) /\ FramesOwned(p) /\ EndAtPoll(p) /\ OwnCovers(p) /\ TimerOf(p) /\ stopFrame[p] = 0
  BY <1>1 DEF EndInv, EndOf, CoversInv, RepairInv, RepairOf, TypeInv, SavedNow
<1>3. PICK n \in Nat, k \in Nat, l \in Nat, r \in Nat, d \in Nat, t \in Int, x \in Nat, s \in Nat :
        /\ n = frame[p] /\ k = Len(known[p]) /\ l = Len(own[p]) /\ r = rollback[p]
        /\ d = RoundOverDelay /\ t = roundOverTimer[p] /\ x = rollbackTimer[p]
        /\ s = Spacing(rollback[p]) /\ s >= 2
  <2>1. roundOverTimer[p] \in Int
    BY EndTypes
  <2> QED
    BY <2>1, EndTypes
<1>4. PICK y \in Nat : y = rollback'[p] /\ (t >= 0 => y <= r)
  <2>1. rollback'[p] \in 1 .. MaxRollback
    BY DEF TypeInv, TypeOK
  <2> QED
    BY <2>1, <1>3, ConfigAssumption
<1>5. \A i \in 1 .. n : played'[p][i] = played[p][i]
  BY <1>1, <1>3, AppendKeeps
<1>6. /\ \A f \in Nat : Ends(p, f) => Ends(p, f)'
      /\ IsOver(p)' => IsOver(p) \/ Ends(p, n)'
  BY <1>1, <1>3, <1>5, FramePlayedEnds
<1>7. ChangedKnown(p)' /\ FramesOwned(p)'
  <2>1. n + 1 <= l
    BY <1>1, <1>2, <1>3 DEF OwnCovers
  <2>2. FramesOwned(p)'
    BY <1>1, <1>2, <1>3, <2>1 DEF FramesOwned
  <2> QED
    BY <1>1, <1>2, <2>2 DEF ChangedKnown
<1>8. ASSUME NEW f \in Nat, ~ahead[p], t >= 0, Ends(p, f), InTime(p, f, t + 1)
      PROVE  InTime(p, f, t)'
  <2>1. f < n
    BY <1>3, <1>8 DEF Ends
  <2>2. CASE Settled(p, f)
    <3>1. \A i \in 1 .. f + 1 : played'[p][i] = played[p][i]
      <4>1. \A i \in 1 .. f + 1 : i \in 1 .. n
        BY <2>1
      <4> QED
        BY <1>5, <4>1
    <3>2. Len(known'[p]) >= Len(known[p]) /\ \A i \in 1 .. Len(known[p]) : known'[p][i] = known[p][i]
      BY <1>1, <1>3
    <3>3. Settled(p, f)'
      BY <2>2, <3>1, <3>2, SettledKept
    <3> QED
      BY <3>3 DEF InTime
  <2>3. CASE ~Settled(p, f) /\ f < k /\ UntilLook(p) <= t + 1
    <3>1. changed[p] # Never /\ changed[p] < n
      BY <1>1, <1>3, <2>1, <2>3, UnsettledChanged
    <3>2. NextRollbackTimer(p) # s
      BY <1>1, <1>3, <3>1 DEF MustRollBack
    <3>3. x <= s
      BY <1>2, <1>3 DEF TimerOf
    <3>4. NextRollbackTimer(p) = IF x >= s THEN x ELSE IF x = 0 THEN s ELSE x - 1
      BY <1>3 DEF NextRollbackTimer
    <3>5. x < s /\ x # 0 /\ NextRollbackTimer(p) = x - 1
      BY <1>3, <3>2, <3>3, <3>4
    <3>6. UntilLook(p) = x + 1
      BY <1>3, <3>5 DEF UntilLook
    <3>7. UntilLook(p)' = x
      <4>1. rollbackTimer'[p] = x - 1 /\ Spacing(rollback'[p]) = s
        BY <1>1, <1>3, <1>8, <3>5
      <4>2. ~(x - 1 >= s) /\ x - 1 + 1 = x
        BY <3>5
      <4> QED
        BY <4>1, <4>2 DEF UntilLook
    <3>8. UntilLook(p)' <= t
      BY <2>3, <3>6, <3>7, <1>3
    <3> QED
      BY <1>1, <1>3, <2>3, <3>8 DEF InTime
  <2>4. CASE f >= k /\ t + 1 > d /\ f + 1 + r + d <= t + 1 + n
    <3>1. k - 1 + r >= n
      BY <1>1, <1>3, <1>8 DEF RemoteInputReady, Reaches
    <3>2. t > d
      BY ONLY f \in Nat, k \in Nat, n \in Nat, r \in Nat, d \in Nat, t \in Int, <2>4, <3>1
    <3>3. f + 1 + y + d <= t + (n + 1)
      BY ONLY f \in Nat, y \in Nat, n \in Nat, r \in Nat, d \in Nat, t \in Int, t >= 0, <1>4, <2>4
    <3> QED
      BY <1>1, <1>3, <1>4, <2>4, <3>2, <3>3 DEF InTime
  <2> QED
    BY <1>3, <1>8, <2>2, <2>3, <2>4 DEF InTime
<1>9. EndAtStep(p)'
  <2> SUFFICES ASSUME ~ahead[p], IsOver(p)'
               PROVE  \E f \in Nat : Ends(p, f)' /\ InTime(p, f, NextRoundOverTimer(p))'
    BY <1>1 DEF EndAtStep
  <2>1. CASE IsOver(p)
    <3>1. t >= 0 /\ \E f \in Nat : Ends(p, f) /\ InTime(p, f, roundOverTimer[p] + 1)
      BY <1>1, <1>2, <1>3, <2>1 DEF EndAtPoll
    <3>2. PICK f \in Nat : Ends(p, f) /\ InTime(p, f, t + 1)
      BY <1>3, <3>1
    <3>3. InTime(p, f, t)'
      BY <1>8, <3>1, <3>2
    <3>4. NextRoundOverTimer(p)' = t
      BY <1>1, <1>3, <3>1 DEF NextRoundOverTimer
    <3>5. InTime(p, f, NextRoundOverTimer(p))'
      BY <3>3, <3>4 DEF InTime
    <3> QED
      BY <1>6, <3>2, <3>5
  <2>2. CASE ~IsOver(p)
    <3>1. t = -1 /\ Ends(p, n)'
      BY <1>1, <1>2, <1>3, <1>6, <2>2 DEF EndAtPoll
    <3>2. roundOverTimer'[p] < 0 /\ frame'[p] = n + 1
      BY <1>1, <1>3, <3>1
    <3>3. InTime(p, n, NextRoundOverTimer(p))'
      BY <1>1, <3>2, NewEndInTime
    <3> QED
      BY <3>1, <3>3
  <2> QED
    BY <2>1, <2>2
<1>10. EndAtPoll(p)' /\ EndAfter(p)'
  BY <1>1 DEF EndAtPoll, EndAfter
<1>11. ASSUME NEW q \in Peer, q # p
       PROVE  EndOf(q)'
  BY <1>1, <1>11, EndKept
<1> QED
  BY <1>7, <1>9, <1>10, <1>11 DEF EndInv, EndOf

\* A frame played again: the timer does not count, and the frames advance.
LEMMA RerunEnd ==
  ASSUME TypeInv, TypeInv', WindowInv, DelayFits, EndInv, NEW p \in Peer, RerunFrame(p)
  PROVE  EndInv'
<1>1. /\ UNCHANGED <<phase, inGame, ahead, own, known, changed, rollback, rollbackTimer>>
      /\ inGame[p] /\ phase[p] = "step" /\ stopFrame[p] # 0
      /\ frame'[p] = frame[p] + 1
      /\ roundOverTimer'[p] = NextRoundOverTimer(p)
      /\ stopFrame'[p] = 0 \/ stopFrame'[p] = stopFrame[p]
      /\ played' = [played EXCEPT ![p] = Append(played[p], InputAt(known[p], frame[p]))]
      /\ \A q \in Peer : q # p => /\ frame'[q] = frame[q] /\ stopFrame'[q] = stopFrame[q]
                                  /\ played'[q] = played[q] /\ roundOverTimer'[q] = roundOverTimer[q]
  BY DEF RerunFrame, TypeInv, TypeOK
<1>2. ChangedKnown(p) /\ FramesOwned(p) /\ EndAtStep(p) /\ RunBound(p)
  BY DEF EndInv, EndOf, WindowInv
<1>3. PICK n \in Nat, k \in Nat, l \in Nat, r \in Nat, d \in Nat, t \in Int, z \in Nat :
        /\ n = frame[p] /\ k = Len(known[p]) /\ l = Len(own[p]) /\ r = rollback[p]
        /\ d = RoundOverDelay /\ t = NextRoundOverTimer(p) /\ z = stopFrame[p]
  <2>1. NextRoundOverTimer(p) \in Int
    BY TimerTypes DEF TypeInv
  <2> QED
    BY <2>1, EndTypes
<1>4. \A i \in 1 .. n : played'[p][i] = played[p][i]
  BY <1>1, <1>3, AppendKeeps
<1>5. /\ \A f \in Nat : Ends(p, f) => Ends(p, f)'
      /\ IsOver(p)' => IsOver(p) \/ Ends(p, n)'
  BY <1>1, <1>3, <1>4, FramePlayedEnds
<1>6. ChangedKnown(p)' /\ FramesOwned(p)'
  <2>1. ~ahead[p] => n <= z /\ z < l
    BY <1>1, <1>2, <1>3 DEF FramesOwned, RunBound
  <2>2. ~ahead[p] => n + 1 <= l
    BY <2>1
  <2>3. FramesOwned(p)'
    BY <1>1, <1>3, <2>1, <2>2 DEF FramesOwned
  <2> QED
    BY <1>1, <1>2, <2>3 DEF ChangedKnown
<1>7. ASSUME NEW f \in Nat, Ends(p, f), InTime(p, f, t)
      PROVE  InTime(p, f, t)'
  <2>1. f < n
    BY <1>3, <1>7 DEF Ends
  <2>2. CASE Settled(p, f)
    <3>1. \A i \in 1 .. f + 1 : played'[p][i] = played[p][i]
      <4>1. \A i \in 1 .. f + 1 : i \in 1 .. n
        BY <2>1
      <4> QED
        BY <1>4, <4>1
    <3>2. Len(known'[p]) >= Len(known[p]) /\ \A i \in 1 .. Len(known[p]) : known'[p][i] = known[p][i]
      BY <1>1, <1>3
    <3>3. Settled(p, f)'
      BY <2>2, <3>1, <3>2, SettledKept
    <3> QED
      BY <3>3 DEF InTime
  <2>3. CASE f < k /\ UntilLook(p) <= t
    <3>1. UntilLook(p)' = UntilLook(p)
      BY <1>1 DEF UntilLook
    <3> QED
      BY <1>1, <1>3, <2>3, <3>1 DEF InTime
  <2>4. CASE f >= k /\ t > d /\ f + 1 + r + d <= t + n
    <3>1. f + 1 + r + d <= t + (n + 1)
      BY ONLY f \in Nat, n \in Nat, r \in Nat, d \in Nat, t \in Int, <2>4
    <3> QED
      BY <1>1, <1>3, <2>4, <3>1 DEF InTime
  <2> QED
    BY <1>3, <1>7, <2>2, <2>3, <2>4 DEF InTime
<1>8. EndAtStep(p)'
  <2> SUFFICES ASSUME ~ahead[p], IsOver(p)'
               PROVE  \E f \in Nat : Ends(p, f)' /\ InTime(p, f, NextRoundOverTimer(p))'
    BY <1>1 DEF EndAtStep
  <2>1. CASE IsOver(p)
    <3>1. PICK f \in Nat : Ends(p, f) /\ InTime(p, f, t)
      BY <1>1, <1>2, <1>3, <2>1 DEF EndAtStep
    <3>2. InTime(p, f, t)'
      BY <1>7, <3>1
    <3>3. t >= 0
      <4>1. t = IF roundOverTimer[p] >= 0 THEN roundOverTimer[p] ELSE rollback[p] + RoundOverDelay
        <5>1. roundOverTimer[p] \in Nat \union {-1}
          BY EndTypes
        <5> QED
          BY <1>3, <2>1, <5>1, OverTimer
      <4>2. rollback[p] \in Nat /\ RoundOverDelay \in Nat /\ roundOverTimer[p] \in Nat \union {-1}
        BY EndTypes
      <4> QED
        BY ONLY <4>1, <4>2
    <3>4. NextRoundOverTimer(p)' = t
      BY <1>1, <1>3, <3>3 DEF NextRoundOverTimer
    <3>5. InTime(p, f, NextRoundOverTimer(p))'
      BY <3>2, <3>4 DEF InTime
    <3> QED
      BY <1>5, <3>1, <3>5
  <2>2. CASE ~IsOver(p)
    <3>1. roundOverTimer'[p] = -1 /\ Ends(p, n)'
      BY <1>1, <1>5, <2>2, OverTimer
    <3>2. roundOverTimer'[p] < 0 /\ frame'[p] = n + 1
      BY <1>1, <1>3, <3>1
    <3>3. InTime(p, n, NextRoundOverTimer(p))'
      BY <1>1, <3>2, NewEndInTime
    <3> QED
      BY <3>1, <3>3
  <2> QED
    BY <2>1, <2>2
<1>9. EndAtPoll(p)' /\ EndAfter(p)'
  BY <1>1 DEF EndAtPoll, EndAfter
<1>10. ASSUME NEW q \in Peer, q # p
       PROVE  EndOf(q)'
  BY <1>1, <1>10, EndKept
<1> QED
  BY <1>6, <1>8, <1>9, <1>10 DEF EndInv, EndOf

\* What a rollback leaves: the frames before the contradicted one, and the one it plays.
LEMMA RollBackFrames ==
  ASSUME TypeInv, RepairInv, NEW p \in Peer, RollBack(p)
  PROVE  \E target \in Nat, c \in Nat :
           /\ c = changed[p] /\ c < frame[p] /\ target <= c
           /\ frame'[p] = target + 1
           /\ \A i \in 1 .. target : played'[p][i] = played[p][i]
           /\ played'[p][target + 1] = InputAt(known[p], target)
<1>1. FirstOf(p) /\ SavedNow(p) /\ inGame[p] /\ phase[p] = "poll"
      /\ changed[p] # Never /\ changed[p] < frame[p]
  BY DEF RepairInv, RepairOf, TypeInv, RollBack, MustRollBack
<1>2. PICK s \in Seq(Nat), f \in Nat, g \in Inputs, c \in Nat :
        /\ s = saved[p] /\ f = frame[p] /\ g = played[p] /\ Len(g) = f
        /\ c = changed[p] /\ c < f
  BY <1>1, RepairTypes
<1>3. Ascending(s) /\ s # <<>> /\ s[1] = 0
  BY <1>1, <1>2 DEF SavedNow, FirstOf
<1>4. PICK last \in 1 .. Len(s) : last = LoadPosition(s, c) /\ s[last] <= c
  BY <1>3, LoadsNotAfter
<1>5. PICK target \in Nat : target = s[last] /\ target <= c
  BY <1>4
<1>6. PICK x \in Input : x = InputAt(known[p], target)
  BY RepairTypes, InputAtType
<1> DEFINE h == SubSeq(g, 1, target)
<1>7. h \in Inputs /\ Len(h) = target /\ \A i \in 1 .. target : h[i] = g[i]
  <2>1. target \in 0 .. Len(g) /\ g \in Seq(Input)
    BY <1>2, <1>5 DEF Inputs
  <2> QED
    BY <2>1, PrefixFields, Zenon DEF Inputs
<1> HIDE DEF h
<1>8. /\ Append(h, x)[target + 1] = x
      /\ \A i \in 1 .. target : Append(h, x)[i] = g[i]
  BY <1>7, AppendProperties DEF Inputs
<1>9. played'[p] = Append(h, x) /\ frame'[p] = target + 1
  BY <1>2, <1>4, <1>5, <1>6 DEF RollBack, TypeInv, TypeOK, h
<1> QED
  BY <1>2, <1>5, <1>6, <1>8, <1>9

\* After a rollback every end there is settled.
LEMMA RollBackEnd ==
  ASSUME TypeInv, TypeInv', CoversInv, RepairInv, DelayFits, EndInv, NEW p \in Peer, RollBack(p)
  PROVE  EndInv'
<1>1. /\ UNCHANGED <<inGame, ahead, own, known, rollback, roundOverTimer>>
      /\ inGame[p] /\ phase[p] = "poll" /\ phase'[p] = "step" /\ changed'[p] = Never
      /\ stopFrame'[p] = frame[p]
      /\ \A q \in Peer : q # p => /\ frame'[q] = frame[q] /\ stopFrame'[q] = stopFrame[q]
                                  /\ played'[q] = played[q] /\ changed'[q] = changed[q]
                                  /\ phase'[q] = phase[q] /\ rollbackTimer'[q] = rollbackTimer[q]
  BY DEF RollBack, TypeInv, TypeOK
<1>2. ChangedKnown(p) /\ OwnCovers(p) /\ RepairsOf(p)
  BY DEF EndInv, EndOf, CoversInv, RepairInv, RepairOf
<1>3. PICK n \in Nat, k \in Nat, l \in Nat :
        n = frame[p] /\ n = Len(played[p]) /\ k = Len(known[p]) /\ l = Len(own[p]) /\ n < l
  BY <1>1, <1>2, EndTypes DEF OwnCovers
<1>4. PICK target \in Nat, c \in Nat :
        /\ c = changed[p] /\ c < n /\ target <= c
        /\ frame'[p] = target + 1
        /\ \A i \in 1 .. target : played'[p][i] = played[p][i]
        /\ played'[p][target + 1] = InputAt(known[p], target)
  BY <1>3, RollBackFrames
<1>5. c < k
  BY <1>2, <1>3, <1>4 DEF ChangedKnown, Never
<1>6. ASSUME NEW i \in 1 .. target + 1
      PROVE  played'[p][i] = known[p][i]
  <2>1. PICK j \in Nat : j = i - 1 /\ i = j + 1 /\ j <= target
    BY <1>6
  <2>2. InputAt(known[p], j) = known[p][i]
    <3>1. j < k
      BY ONLY <1>4, <1>5, <2>1, k \in Nat
    <3> QED
      BY <1>3, <2>1, <3>1, EndTypes, InputAtType
  <2>3. CASE j = target
    BY <1>4, <2>1, <2>2, <2>3
  <2>4. CASE j # target
    <3>1. i \in 1 .. target /\ i \in 1 .. n /\ ~(c < i)
      BY ONLY <1>4, <2>1, <2>4, n \in Nat
    <3>2. played[p][i] = InputAt(known[p], i - 1)
      BY <1>1, <1>2, <1>3, <1>4, <3>1 DEF RepairsOf, Agrees
    <3> QED
      BY <1>4, <2>1, <2>2, <3>1, <3>2
  <2> QED
    BY <2>3, <2>4
<1>7. ChangedKnown(p)' /\ FramesOwned(p)'
  <2>1. target + 1 <= l
    BY ONLY <1>3, <1>4
  <2> QED
    BY <1>1, <1>3, <1>4, <2>1 DEF ChangedKnown, FramesOwned
<1>8. EndAtStep(p)'
  <2>1. ASSUME NEW f \in Nat, Ends(p, f)'
        PROVE  InTime(p, f, NextRoundOverTimer(p))'
    <3>1. f < target + 1
      BY <1>4, <2>1 DEF Ends
    <3>2. f < k
      BY ONLY <1>4, <1>5, <3>1, f \in Nat, k \in Nat
    <3>3. \A i \in 1 .. f + 1 : i \in 1 .. target + 1
      BY <3>1
    <3>4. \A i \in 1 .. f + 1 : played'[p][i] = known'[p][i]
      BY <1>1, <1>6, <3>3
    <3>5. Settled(p, f)'
      BY <1>1, <1>3, <3>2, <3>4 DEF Settled
    <3> QED
      BY <3>5 DEF InTime
  <2>2. IsOver(p)' => \E f \in Nat : Ends(p, f)'
    <3>1. \A f \in 0 .. target + 1 - 1 : f \in Nat /\ f < target + 1
      OBVIOUS
    <3> QED
      BY <1>4, <3>1 DEF IsOver, Ends
  <2> QED
    BY <2>1, <2>2 DEF EndAtStep
<1>9. EndAtPoll(p)' /\ EndAfter(p)'
  BY <1>1 DEF EndAtPoll, EndAfter
<1>10. ASSUME NEW q \in Peer, q # p
       PROVE  EndOf(q)'
  BY <1>1, <1>10, EndKept
<1> QED
  BY <1>7, <1>8, <1>9, <1>10 DEF EndInv, EndOf

\* The round starts with nothing played.
LEMMA EndInit ==
  ASSUME Init
  PROVE  EndInv
<1>1. ASSUME NEW p \in Peer
      PROVE  EndOf(p)
  <2>1. /\ frame[p] = 0 /\ stopFrame[p] = 0 /\ phase[p] = "step" /\ inGame[p] /\ changed[p] = Never
        /\ Len(own[p]) = 0
    BY DEF Init
  <2>2. ~IsOver(p)
    BY <2>1 DEF IsOver
  <2> QED
    BY <2>1, <2>2 DEF EndOf, ChangedKnown, FramesOwned, EndAtStep, EndAtPoll, EndAfter
<1> QED
  BY <1>1 DEF EndInv

\* Every step keeps it, if the rollback is not raised at the end nor the spacing lowered.
LEMMA EndStep ==
  ASSUME TypeInv, TypeInv', SentInv, WindowInv, CoversInv, RepairInv, DelayFits, EndInv,
         Next, NeverLowered, NotRaisedAtEnd
  PROVE  EndInv'
<1>1. PICK p \in Peer : Step(p)
  BY DEF Next
<1>2. ASSUME NEW q \in Peer, roundOverTimer[q] >= 0
      PROVE  rollback'[q] <= rollback[q] /\ Spacing(rollback'[q]) = Spacing(rollback[q])
  <2>1. PICK x \in Nat, y \in Nat : x = rollback[q] /\ y = rollback'[q] /\ y <= x
    <3>1. rollback[q] \in 1 .. MaxRollback /\ rollback'[q] \in 1 .. MaxRollback /\ MaxRollback \in Nat
      BY ConfigAssumption DEF TypeInv, TypeOK
    <3> QED
      BY <3>1, <1>2 DEF NotRaisedAtEnd
  <2>2. Spacing(y) <= Spacing(x) /\ Spacing(x) \in Nat /\ Spacing(y) \in Nat
    BY <2>1 DEF Spacing
  <2>3. Spacing(y) >= Spacing(x)
    BY <2>1 DEF NeverLowered
  <2> QED
    BY <2>1, <2>2, <2>3
<1>3. CASE Leave(p)
  BY <1>3, LeaveEnd
<1>4. CASE ReceiveIndex(p)
  BY <1>4, ReceiveIndexEnd
<1>5. ASSUME NEW input \in Input, BeginFrame(p, input)
      PROVE  EndInv'
  BY <1>5, BeginEnd
<1>6. ASSUME NEW e \in sent[Other(p)], ReceiveInputs(p, e)
      PROVE  EndInv'
  BY <1>6, ReceiveEnd
<1>7. CASE RollBack(p)
  BY <1>7, RollBackEnd
<1>8. CASE ContinueFrame(p)
  <2>1. PlayFrame(p) /\ rollback' = rollback
    BY <1>8 DEF ContinueFrame
  <2> QED
    BY <1>2, <2>1, PlayEnd
<1>9. ASSUME NEW r, NEW d, ChangeFrame(p, r, d)
      PROVE  EndInv'
  <2>1. PlayFrame(p) /\ \A q \in Peer : q # p => rollback'[q] = rollback[q]
    BY <1>9 DEF ChangeFrame, TypeInv, TypeOK
  <2> QED
    BY <1>2, <2>1, PlayEnd
<1>10. CASE RerunFrame(p)
  BY <1>10, RerunEnd
<1> QED
  BY <1>1, <1>3, <1>4, <1>5, <1>6, <1>7, <1>8, <1>9, <1>10 DEF Step

\* A peer that leaves the round while it follows the other one's inputs has seen a pair of
\* inputs that both players gave decide it, with every input before it known
\* (checkRoundOver, DllMain.cpp:1447-1464): the round stays open for the rollback and
\* ROLLBACK_ROUND_OVER_DELAY more frames, and a look for a rollback comes within that
\* delay, as it does with the spacing of at most 4 and the delay of 5 of the code.  It
\* holds for every round in which the windows hold what is missing, nobody lowers the
\* spacing, and nobody raises the rollback once the round-over timer counts; before that
\* it may be raised, and the delays changed, at any frame.
THEOREM RoundEndsOnRealInputs ==
  ASSUME WindowFits, DelayFits
  PROVE  Spec /\ []WithinTop /\ [][NeverLowered]_vars /\ [][NotRaisedAtEnd]_vars
           => []RoundEndIsReal
<1> DEFINE Inv == TypeInv /\ SentInv /\ WindowInv /\ CoversInv /\ RepairInv /\ EndInv
<1>1. Init => Inv
  BY InitTypeInv, InitWindowInv, RepairInit, EndInit DEF Init, SentInv, SentBound, CoversInv, OwnCovers
<1>2. Inv /\ WithinTop /\ [Next]_vars /\ [NeverLowered]_vars /\ [NotRaisedAtEnd]_vars => Inv'
  <2>1. Inv /\ WithinTop /\ Next /\ NeverLowered /\ NotRaisedAtEnd => Inv'
    <3> SUFFICES ASSUME Inv, WithinTop, Next, NeverLowered, NotRaisedAtEnd PROVE Inv'
      OBVIOUS
    <3>1. TypeInv' /\ SentInv' /\ WindowInv' /\ RepairInv'
      BY TypeStep, SentStep, WindowStep, RepairStep
    <3>2. CoversInv'
      BY CoversStep DEF TypeInv
    <3>3. EndInv'
      BY <3>1, EndStep
    <3> QED
      BY <3>1, <3>2, <3>3
  <2>2. Inv /\ UNCHANGED vars => Inv'
    <3> SUFFICES ASSUME Inv, UNCHANGED vars PROVE Inv'
      OBVIOUS
    <3>1. TypeInv' /\ SentInv' /\ WindowInv' /\ CoversInv' /\ RepairInv'
      BY DEF vars, TypeInv, SentInv, SentBound, TypeOK, SavedBefore, SavedNow, PlayedEach,
             WindowInv, RunBound, OwnBound, WindowBound, AheadOfLeft, KnownOf, CoversInv, OwnCovers,
             RepairInv, RepairOf, RepairsOf, LookedOf, TimerOf, FirstOf, Agrees
    <3>2. \A q \in Peer : EndOf(q)'
      BY EndKept DEF vars
    <3> QED
      BY <3>1, <3>2 DEF EndInv
  <2> QED
    BY <2>1, <2>2
<1>3. Inv => RoundEndIsReal
  <2> SUFFICES ASSUME Inv, NEW p \in Peer, ~inGame[p], ~ahead[p]
               PROVE  \E f \in 0 .. frame[p] - 1 :
                        /\ GivenAt(p, f) \in Deciding
                        /\ \A g \in 0 .. f : /\ g < Len(own[Other(p)])
                                             /\ played[p][g + 1] = own[Other(p)][g + 1]
    BY DEF RoundEndIsReal
  <2>1. PICK f \in Nat : Ends(p, f) /\ Settled(p, f)
    BY DEF EndInv, EndOf, EndAfter
  <2>2. f \in 0 .. frame[p] - 1 /\ GivenAt(p, f) \in Deciding
    <3>1. frame[p] \in Nat
      BY RepairTypes
    <3> QED
      BY <2>1, <3>1 DEF Ends
  <2>3. ASSUME NEW g \in 0 .. f
        PROVE  g < Len(own[Other(p)]) /\ played[p][g + 1] = own[Other(p)][g + 1]
    <3>1. PICK k \in Nat, o \in Nat :
            /\ k = Len(known[p]) /\ DOMAIN known[p] = 1 .. k
            /\ o = Len(own[Other(p)]) /\ DOMAIN own[Other(p)] = 1 .. o
      BY OtherPeer, Lengths DEF TypeInv
    <3>2. f < k
      BY <2>1, <3>1 DEF Settled
    <3>3. g + 1 \in 1 .. f + 1 /\ g + 1 \in 1 .. k
      BY <3>2
    <3>4. played[p][g + 1] = known[p][g + 1]
      BY <2>1, <3>3 DEF Settled
    <3>5. g + 1 \in 1 .. o /\ known[p][g + 1] = own[Other(p)][g + 1]
      BY <3>1, <3>3 DEF WindowInv, KnownOf
    <3> QED
      BY <3>1, <3>4, <3>5
  <2> QED
    BY <2>2, <2>3
<1> HIDE DEF Inv
<1> QED
  BY <1>1, <1>2, <1>3, PTL DEF Spec
=============================================================================

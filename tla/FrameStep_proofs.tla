-------------------------- MODULE FrameStep_proofs --------------------------
(***************************************************************************)
(* Proofs about two parts of DllMain::frameStep that share no state.       *)
(*                                                                         *)
(* RollbackPool, for every size of the pool and any number of frames and   *)
(* rounds, wherever connections are lost, as long as no new one starts on  *)
(* what a lost round left in the pool; and InputWait, for all intervals    *)
(* that its IntervalAssumption allows.                                     *)
(***************************************************************************)
EXTENDS RollbackPool, InputWait, SequenceTheorems, WellFoundedInduction, TLAPS

State == [frame : 0 .. MaxFrame, slot : Slot]

-----------------------------------------------------------------------------
(* Sequences.                                                              *)

\* Removing an element shifts those after it.
LEMMA RemoveAtFields ==
  ASSUME NEW S, NEW s \in Seq(S), NEW i \in 1 .. Len(s)
  PROVE  /\ RemoveAt(s, i) \in Seq(S)
         /\ Len(RemoveAt(s, i)) = Len(s) - 1
         /\ \A k \in 1 .. Len(s) - 1 : RemoveAt(s, i)[k] = IF k < i THEN s[k] ELSE s[k + 1]
<1> DEFINE a == SubSeq(s, 1, i - 1)
           b == SubSeq(s, i + 1, Len(s))
<1>1. a \in Seq(S) /\ Len(a) = i - 1 /\ \A k \in 1 .. i - 1 : a[k] = s[k]
  OBVIOUS
<1>2. b \in Seq(S) /\ Len(b) = Len(s) - i /\ \A k \in 1 .. Len(s) - i : b[k] = s[i + k]
  OBVIOUS
<1>4. RemoveAt(s, i) = a \o b
  BY DEF RemoveAt
<1> HIDE DEF a, b
<1>3. /\ a \o b \in Seq(S) /\ Len(a \o b) = Len(a) + Len(b)
      /\ \A k \in 1 .. Len(a) + Len(b) : (a \o b)[k] = IF k <= Len(a) THEN a[k] ELSE b[k - Len(a)]
  BY <1>1, <1>2, ConcatProperties
<1>5. Len(s) \in Nat /\ Len(a) + Len(b) = Len(s) - 1
  BY <1>1, <1>2
<1>6. ASSUME NEW k \in 1 .. Len(s) - 1
      PROVE  (a \o b)[k] = IF k < i THEN s[k] ELSE s[k + 1]
  <2>1. CASE k < i
    BY <1>1, <1>2, <1>3, <1>5, <2>1
  <2>2. CASE ~(k < i)
    <3>1. k - (i - 1) \in 1 .. Len(s) - i /\ i + (k - (i - 1)) = k + 1
      BY <1>5, <2>2
    <3>2. (a \o b)[k] = b[k - (i - 1)]
      BY <1>1, <1>2, <1>3, <1>5, <2>2
    <3> QED
      BY <1>2, <2>2, <3>1, <3>2
  <2> QED
    BY <2>1, <2>2
<1> QED
  BY <1>3, <1>4, <1>5, <1>6

\* All but the last one.
LEMMA FrontFields ==
  ASSUME NEW S, NEW s \in Seq(S), s # <<>>
  PROVE  /\ Front(s) \in Seq(S) /\ Last(s) \in S /\ Len(s) \in Nat \ {0}
         /\ Len(Front(s)) = Len(s) - 1
         /\ \A k \in 1 .. Len(s) - 1 : Front(s)[k] = s[k]
<1>1. Len(s) \in Nat \ {0}
  BY EmptySeq
<1> QED
  BY <1>1 DEF Front, Last

\* A set of positions has a last one.
LEMMA LastPosition ==
  ASSUME NEW n \in Nat, NEW S, S \subseteq 1 .. n, S # {}
  PROVE  Max(S) \in S /\ \A k \in S : k <= Max(S)
<1>0. \A k \in S : k \in 1 .. n /\ n - k \in Nat
  OBVIOUS
<1>1. PICK T : T = {n - k : k \in S}
  OBVIOUS
<1>2. T \subseteq Nat /\ T # {}
  BY <1>0, <1>1
<1>3. \E t \in T : \A u \in T : ~(<<u, t>> \in OpToRel(<, Nat))
  BY <1>2, NatLessThanWellFounded, WFMin
<1>4. PICK t \in T : \A u \in T : ~(<<u, t>> \in OpToRel(<, Nat))
  BY <1>3
<1>5. \A u \in T : u \in Nat /\ t \in Nat /\ ~(u < t)
  BY <1>2, <1>4 DEF OpToRel
<1>6. PICK x \in S : t = n - x
  BY <1>1
<1>7. ASSUME NEW y \in S PROVE y <= x
  <2>1. n - y \in T
    BY <1>1
  <2> QED
    BY <1>0, <1>5, <1>6, <2>1
<1>8. \A y \in S : x >= y
  BY <1>0, <1>7
<1>9. Max(S) \in S /\ \A y \in S : Max(S) >= y
  BY <1>8 DEF Max
<1> QED
  BY <1>0, <1>9

-----------------------------------------------------------------------------
(* Every slot is in one place.                                             *)

\* f and g, of p and q places, share out the slots.
Shared(f, p, g, q) ==
    /\ \A i, j \in 1 .. p : f[i] = f[j] => i = j
    /\ \A i, j \in 1 .. q : g[i] = g[j] => i = j
    /\ \A i \in 1 .. p, j \in 1 .. q : f[i] # g[j]
    /\ \A x \in Slot : (\E i \in 1 .. p : f[i] = x) \/ (\E j \in 1 .. q : g[j] = x)
    /\ p + q = NumStates

\* All slots on one side.
LEMMA SharedAll ==
  ASSUME NEW f, NEW g, NEW p \in Nat, p = NumStates, \A i \in 1 .. p : f[i] = i
  PROVE  Shared(f, p, g, 0)
BY DEF Shared, Slot

\* The last of f goes to the end of g.
LEMMA SharedTake ==
  ASSUME NEW f, NEW p \in Nat \ {0}, NEW g, NEW q \in Nat, Shared(f, p, g, q),
         NEW f2, \A k \in 1 .. p - 1 : f2[k] = f[k],
         NEW g2, \A k \in 1 .. q : g2[k] = g[k], g2[q + 1] = f[p]
  PROVE  Shared(f2, p - 1, g2, q + 1)
<1>1. \A i, j \in 1 .. p - 1 : f2[i] = f2[j] => i = j
  BY DEF Shared
<1>2. \A i, j \in 1 .. q + 1 : g2[i] = g2[j] => i = j
  BY DEF Shared
<1>3. \A i \in 1 .. p - 1, j \in 1 .. q + 1 : f2[i] # g2[j]
  BY DEF Shared
<1>4. ASSUME NEW x \in Slot
      PROVE  (\E i \in 1 .. p - 1 : f2[i] = x) \/ (\E j \in 1 .. q + 1 : g2[j] = x)
  <2>1. CASE \E i \in 1 .. p : f[i] = x
    <3>1. PICK i \in 1 .. p : f[i] = x
      BY <2>1
    <3>2. i = p \/ i \in 1 .. p - 1
      OBVIOUS
    <3> QED
      BY <3>1, <3>2
  <2>2. CASE \E j \in 1 .. q : g[j] = x
    BY <2>2
  <2> QED
    BY <2>1, <2>2 DEF Shared
<1>5. p - 1 + (q + 1) = NumStates
  BY DEF Shared
<1> QED
  BY <1>1, <1>2, <1>3, <1>4, <1>5 DEF Shared

\* One of g goes from its place to the end.
LEMMA SharedRotate ==
  ASSUME NEW f, NEW p \in Nat, NEW g, NEW q \in Nat, NEW n \in 1 .. q, Shared(f, p, g, q),
         NEW g2, \A k \in 1 .. n - 1 : g2[k] = g[k],
         \A k \in n .. q - 1 : g2[k] = g[k + 1], g2[q] = g[n]
  PROVE  Shared(f, p, g2, q)
<1> DEFINE From(k) == IF k = q THEN n ELSE IF k < n THEN k ELSE k + 1
<1>1. \A k \in 1 .. q : From(k) \in 1 .. q /\ g2[k] = g[From(k)]
  <2> TAKE k \in 1 .. q
  <2>1. k = q \/ k \in 1 .. n - 1 \/ k \in n .. q - 1
    OBVIOUS
  <2> QED
    BY <2>1
<1>2. \A j, k \in 1 .. q : From(j) = From(k) => j = k
  OBVIOUS
<1>3. ASSUME NEW k \in 1 .. q PROVE \E j \in 1 .. q : From(j) = k
  <2>1. CASE k = n
    <3>1. q \in 1 .. q /\ From(q) = k
      BY <2>1
    <3> QED
      BY <3>1
  <2>2. CASE k < n
    <3>1. k \in 1 .. q /\ From(k) = k
      BY <2>2
    <3> QED
      BY <3>1
  <2>3. CASE k > n
    <3>1. k - 1 \in 1 .. q /\ From(k - 1) = k
      BY <2>3
    <3> QED
      BY <3>1
  <2> QED
    BY <2>1, <2>2, <2>3
<1> HIDE DEF From
<1>4. \A i, j \in 1 .. q : g2[i] = g2[j] => i = j
  BY <1>1, <1>2 DEF Shared
<1>5. \A i \in 1 .. p, j \in 1 .. q : f[i] # g2[j]
  BY <1>1 DEF Shared
<1>6. ASSUME NEW x \in Slot
      PROVE  (\E i \in 1 .. p : f[i] = x) \/ (\E j \in 1 .. q : g2[j] = x)
  <2>1. CASE \E j \in 1 .. q : g[j] = x
    <3>1. PICK j \in 1 .. q : g[j] = x
      BY <2>1
    <3>2. PICK k \in 1 .. q : From(k) = j
      BY <1>3
    <3> QED
      BY <1>1, <3>1, <3>2
  <2> QED
    BY <2>1 DEF Shared
<1>7. p + q = NumStates
  BY DEF Shared
<1> QED
  BY <1>4, <1>5, <1>6, <1>7 DEF Shared

\* Those of g after the n-th go to the end of f.
LEMMA SharedReturn ==
  ASSUME NEW f, NEW p \in Nat, NEW g, NEW q \in Nat, NEW n \in 1 .. q, Shared(f, p, g, q),
         NEW f2, \A k \in 1 .. p : f2[k] = f[k],
         \A k \in 1 .. q - n : f2[p + k] = g[n + k],
         NEW g2, \A k \in 1 .. n : g2[k] = g[k]
  PROVE  Shared(f2, p + (q - n), g2, n)
<1>1. ASSUME NEW k \in 1 .. p + (q - n), ~(k \in 1 .. p)
      PROVE  n + (k - p) \in n + 1 .. q /\ f2[k] = g[n + (k - p)]
  <2>1. k - p \in 1 .. q - n /\ p + (k - p) = k
    BY <1>1
  <2> QED
    BY <2>1
<1>2. ASSUME NEW i \in 1 .. p + (q - n), NEW j \in 1 .. p + (q - n), f2[i] = f2[j] PROVE i = j
  <2>1. CASE i \in 1 .. p /\ j \in 1 .. p
    BY <1>2, <2>1 DEF Shared
  <2>2. CASE i \in 1 .. p /\ ~(j \in 1 .. p)
    <3>1. n + (j - p) \in 1 .. q /\ f2[j] = g[n + (j - p)]
      BY <1>1, <2>2
    <3> QED
      BY <1>2, <2>2, <3>1 DEF Shared
  <2>3. CASE ~(i \in 1 .. p) /\ j \in 1 .. p
    <3>1. n + (i - p) \in 1 .. q /\ f2[i] = g[n + (i - p)]
      BY <1>1, <2>3
    <3> QED
      BY <1>2, <2>3, <3>1 DEF Shared
  <2>4. CASE ~(i \in 1 .. p) /\ ~(j \in 1 .. p)
    <3>1. /\ n + (i - p) \in 1 .. q /\ f2[i] = g[n + (i - p)]
          /\ n + (j - p) \in 1 .. q /\ f2[j] = g[n + (j - p)]
      BY <1>1, <2>4
    <3>2. n + (i - p) = n + (j - p)
      BY <1>2, <3>1 DEF Shared
    <3> QED
      BY <3>2
  <2> QED
    BY <2>1, <2>2, <2>3, <2>4
<1>3. \A i, j \in 1 .. n : g2[i] = g2[j] => i = j
  BY DEF Shared
<1>4. ASSUME NEW i \in 1 .. p + (q - n), NEW j \in 1 .. n PROVE f2[i] # g2[j]
  <2>1. CASE i \in 1 .. p
    BY <2>1 DEF Shared
  <2>2. CASE ~(i \in 1 .. p)
    <3>1. n + (i - p) \in n + 1 .. q /\ f2[i] = g[n + (i - p)]
      BY <1>1, <2>2
    <3>2. n + (i - p) \in 1 .. q /\ n + (i - p) # j
      BY <3>1
    <3>3. g[n + (i - p)] # g[j]
      BY <3>2 DEF Shared
    <3> QED
      BY <3>1, <3>3
  <2> QED
    BY <2>1, <2>2
<1>5. ASSUME NEW x \in Slot
      PROVE  (\E i \in 1 .. p + (q - n) : f2[i] = x) \/ (\E j \in 1 .. n : g2[j] = x)
  <2>1. CASE \E i \in 1 .. p : f[i] = x
    BY <2>1
  <2>2. CASE \E j \in 1 .. q : g[j] = x
    <3>1. PICK j \in 1 .. q : g[j] = x
      BY <2>2
    <3>2. CASE j <= n
      BY <3>1, <3>2
    <3>3. CASE j > n
      <4>1. j - n \in 1 .. q - n /\ n + (j - n) = j /\ p + (j - n) \in 1 .. p + (q - n)
        BY <3>3
      <4> QED
        BY <3>1, <4>1
    <3> QED
      BY <3>2, <3>3
  <2> QED
    BY <2>1, <2>2 DEF Shared
<1>6. p + (q - n) + n = NumStates
  BY DEF Shared
<1> QED
  BY <1>2, <1>3, <1>4, <1>5, <1>6 DEF Shared

-----------------------------------------------------------------------------
(* The invariant.                                                          *)

SlotOf(sl) == [i \in 1 .. Len(sl) |-> sl[i].slot]

\* During a round with rollback stack and list share out the slots, and between
\* the rounds of a connection both are empty: allocateStates finds nothing to add
\* to.  Without a connection they may hold what a lost round left.
SharesInv ==
    rolling =>
        IF inGame
        THEN Shared(freeStack, Len(freeStack), SlotOf(statesList), Len(statesList))
        ELSE freeStack = <<>> /\ statesList = <<>>

\* Where a frame stands.
PhaseInv ==
    /\ ~inGame => phase = "step" /\ stopFrame = 0
    /\ phase # "step" => frame < MaxFrame
    /\ phase = "poll" => stopFrame = 0
    /\ phase = "play" => stopFrame = 0 \/ frame < stopFrame

\* The saved frames are past ones, and a rollback finds one to load.
FramesInv ==
    rolling =>
        /\ \A i \in 1 .. Len(statesList) :
             /\ statesList[i].frame <= frame
             /\ phase = "step" \/ (phase = "poll" /\ i < Len(statesList))
                  => statesList[i].frame < frame
        /\ phase = "poll" /\ frame > 0 => Len(statesList) >= 2
        /\ inGame /\ (phase # "step" \/ frame > 0 \/ stopFrame # 0) => Len(statesList) >= 1

\* The list is in the order of the frames: what is left after a rollback is
\* not newer than the frame gone back to.
OrderInv ==
    \A i, j \in 1 .. Len(statesList) : i < j => statesList[i].frame < statesList[j].frame

PoolInv == TypeOK /\ SharesInv /\ PhaseInv /\ FramesInv /\ OrderInv

\* The constants and the lengths are numbers.
LEMMA PoolNumbers ==
  ASSUME TypeOK
  PROVE  /\ NumStates \in Nat /\ NumStates > 1 /\ MaxFrame \in Nat
         /\ frame \in Nat /\ frame <= MaxFrame /\ stopFrame \in Nat /\ stopFrame <= MaxFrame
         /\ freeStack \in Seq(Slot) /\ Len(freeStack) \in Nat
         /\ statesList \in Seq(State) /\ Len(statesList) \in Nat
         /\ \A i \in 1 .. Len(statesList) :
              /\ statesList[i] \in State
              /\ statesList[i].frame \in 0 .. MaxFrame /\ statesList[i].slot \in Slot
<1>1. statesList \in Seq(State) /\ freeStack \in Seq(Slot)
  BY DEF TypeOK, State
<1>2. \A i \in 1 .. Len(statesList) : statesList[i] \in State
  BY <1>1
<1>3. \A e \in State : e.frame \in 0 .. MaxFrame /\ e.slot \in Slot
  BY DEF State
<1>4. Len(statesList) \in Nat /\ Len(freeStack) \in Nat
  BY <1>1
<1>5. /\ NumStates \in Nat /\ NumStates > 1 /\ MaxFrame \in Nat
  BY PoolAssumption DEF PoolAssumption
<1>6. frame \in Nat /\ frame <= MaxFrame /\ stopFrame \in Nat /\ stopFrame <= MaxFrame
  BY <1>5 DEF TypeOK
<1> QED
  BY <1>1, <1>2, <1>3, <1>4, <1>5, <1>6

\* A program starts without an allocated pool.
LEMMA InitPoolInv == Init => PoolInv
<1> SUFFICES ASSUME Init PROVE PoolInv
  OBVIOUS
<1>1. <<>> \in Seq(Slot) /\ <<>> \in Seq([frame : 0 .. MaxFrame, slot : Slot])
  OBVIOUS
<1>2. MaxFrame \in Nat
  BY PoolAssumption DEF PoolAssumption
<1>3. TypeOK
  <2>1. freeStack \in Seq(Slot)
    BY <1>1 DEF Init
  <2>2. statesList \in Seq([frame : 0 .. MaxFrame, slot : Slot])
    BY <1>1 DEF Init
  <2>3. frame \in 0 .. MaxFrame /\ stopFrame \in {0} \union frame .. MaxFrame
    BY <1>2 DEF Init
  <2>4. /\ rolling \in BOOLEAN /\ inGame \in BOOLEAN
        /\ phase \in {"step", "poll", "play"}
        /\ game \in Game /\ memory \in [Slot -> Game]
    BY DEF Init
  <2> QED
    BY <2>1, <2>2, <2>3, <2>4 DEF TypeOK
<1>4. SharesInv
  BY DEF Init, SharesInv
<1>5. PhaseInv
  BY DEF Init, PhaseInv
<1>6. Len(statesList) = 0
  BY DEF Init
<1>7. FramesInv /\ OrderInv
  BY <1>6 DEF Init, FramesInv, OrderInv
<1> QED
  BY <1>3, <1>4, <1>5, <1>7 DEF PoolInv

\* Entering a round fills the empty stack.
LEMMA EnterInGamePoolInv == PoolInv /\ EnterInGame => PoolInv'
<1> SUFFICES ASSUME PoolInv, EnterInGame PROVE PoolInv'
  OBVIOUS
<1>1. (rolling => freeStack = <<>> /\ statesList = <<>>) /\ phase = "step" /\ stopFrame = 0
  BY DEF PoolInv, SharesInv, PhaseInv, EnterInGame
<1>2. AllSlots \in Seq(Slot) /\ Len(AllSlots) = NumStates /\ \A i \in 1 .. NumStates : AllSlots[i] = i
  BY PoolAssumption DEF PoolAssumption, AllSlots, Slot
<1>3. <<>> \o AllSlots = AllSlots
  BY <1>2
<1>4. /\ statesList' = IF rolling THEN <<>> ELSE statesList
      /\ freeStack' = IF rolling THEN AllSlots ELSE freeStack
      /\ inGame' /\ frame' = 0 /\ phase' = "step" /\ stopFrame' = 0
      /\ rolling' = rolling /\ game' \in Game /\ memory' = memory
  BY <1>1, <1>3 DEF EnterInGame
<1>5. TypeOK'
  <2>1. <<>> \in Seq(Slot) /\ <<>> \in Seq([frame : 0 .. MaxFrame, slot : Slot])
    OBVIOUS
  <2>2. MaxFrame \in Nat
    BY PoolAssumption DEF PoolAssumption
  <2>3. freeStack' \in Seq(Slot) /\ statesList' \in Seq([frame : 0 .. MaxFrame, slot : Slot])
    BY <1>2, <1>4, <2>1 DEF PoolInv, TypeOK
  <2> QED
    BY <1>4, <2>1, <2>2, <2>3 DEF PoolInv, TypeOK, EnterInGame
<1>6. SharesInv'
  <2>1. CASE rolling
    <3>1. freeStack' = AllSlots /\ Len(freeStack') = NumStates /\ NumStates \in Nat
      BY <1>2, <1>4, <2>1, PoolAssumption DEF PoolAssumption
    <3>2. \A i \in 1 .. NumStates : freeStack'[i] = i
      BY <1>2, <3>1
    <3>3. Shared(freeStack', NumStates, SlotOf(statesList'), 0)
      BY <3>1, <3>2, SharedAll
    <3>4. Len(statesList') = 0
      BY <1>4, <2>1
    <3> QED
      BY <1>4, <3>1, <3>3, <3>4 DEF SharesInv
  <2>2. CASE ~rolling
    BY <1>4, <2>2 DEF SharesInv
  <2> QED
    BY <2>1, <2>2
<1>7. PhaseInv'
  BY <1>4 DEF PhaseInv
<1>8. FramesInv' /\ OrderInv'
  <2>1. CASE rolling
    <3>1. Len(statesList') = 0
      BY <1>4, <2>1
    <3> QED
      BY <1>4, <3>1 DEF FramesInv, OrderInv
  <2>2. CASE ~rolling
    BY <1>4, <2>2 DEF PoolInv, FramesInv, OrderInv
  <2> QED
    BY <2>1, <2>2
<1> QED
  BY <1>5, <1>6, <1>7, <1>8 DEF PoolInv

\* Leaving a round empties both, unless its connection was lost.
LEMMA LeaveInGamePoolInv == PoolInv /\ LeaveInGame => PoolInv'
<1> SUFFICES ASSUME PoolInv, LeaveInGame PROVE PoolInv'
  OBVIOUS
<1>1. /\ freeStack' = IF rolling THEN <<>> ELSE freeStack
      /\ statesList' = IF rolling THEN <<>> ELSE statesList
  BY DEF LeaveInGame, AfterLeaving
<1>2. /\ ~inGame' /\ frame' = 0 /\ phase' = "step" /\ stopFrame' = 0
      /\ rolling' = rolling /\ game' \in Game /\ memory' = memory
  BY DEF LeaveInGame
<1>3. TypeOK'
  <2>1. <<>> \in Seq(Slot) /\ <<>> \in Seq([frame : 0 .. MaxFrame, slot : Slot])
    OBVIOUS
  <2>2. MaxFrame \in Nat
    BY PoolAssumption DEF PoolAssumption
  <2>3. inGame' \in BOOLEAN
    BY DEF LeaveInGame
  <2>4. freeStack' \in Seq(Slot) /\ statesList' \in Seq([frame : 0 .. MaxFrame, slot : Slot])
    BY <1>1, <2>1 DEF PoolInv, TypeOK
  <2> QED
    BY <1>2, <2>2, <2>3, <2>4 DEF PoolInv, TypeOK
<1>4. SharesInv'
  BY <1>1, <1>2 DEF SharesInv
<1>5. PhaseInv'
  BY <1>2 DEF PhaseInv
<1>6. FramesInv' /\ OrderInv'
  <2>1. CASE rolling
    <3>1. Len(statesList') = 0
      BY <1>1, <2>1
    <3> QED
      BY <1>2, <3>1 DEF FramesInv, OrderInv
  <2>2. CASE ~rolling
    BY <1>1, <1>2, <2>2 DEF PoolInv, FramesInv, OrderInv
  <2> QED
    BY <2>1, <2>2
<1> QED
  BY <1>3, <1>4, <1>5, <1>6 DEF PoolInv

\* Saving takes the free slot on top, or that of the evicted state.
LEMMA SaveFields ==
  ASSUME PoolInv, NEW r \in 0 .. MaxFrame - 1, SaveState(r)
  PROVE  /\ freeStack' \in Seq(Slot) /\ statesList' \in Seq(State)
         /\ Len(statesList') >= 1 /\ (frame > 0 => Len(statesList') >= 2)
         /\ statesList'[Len(statesList')].frame = frame
         /\ statesList'[Len(statesList')].slot \in Slot
         /\ memory' = [memory EXCEPT ![statesList'[Len(statesList')].slot] = game]
         /\ \A i \in 1 .. Len(statesList') - 1 : statesList'[i].frame < frame
         /\ Shared(freeStack', Len(freeStack'), SlotOf(statesList'), Len(statesList'))
         /\ OrderInv'
         /\ \/ freeStack # <<>> /\ statesList' = Append(statesList, statesList'[Len(statesList')])
            \/ /\ freeStack = <<>>
               /\ \E n \in 1 .. Len(statesList) :
                    statesList' = Append(RemoveAt(statesList, n), statesList'[Len(statesList')])
<1>1. /\ NumStates \in Nat /\ NumStates > 1 /\ MaxFrame \in Nat
      /\ frame \in Nat /\ frame <= MaxFrame
      /\ freeStack \in Seq(Slot) /\ Len(freeStack) \in Nat
      /\ statesList \in Seq(State) /\ Len(statesList) \in Nat
      /\ \A i \in 1 .. Len(statesList) :
           /\ statesList[i] \in State
           /\ statesList[i].frame \in 0 .. MaxFrame /\ statesList[i].slot \in Slot
  BY PoolNumbers DEF PoolInv
<1>2. /\ Shared(freeStack, Len(freeStack), SlotOf(statesList), Len(statesList))
      /\ phase = "step" /\ stopFrame = 0
      /\ \A i \in 1 .. Len(statesList) : statesList[i].frame < frame
      /\ frame > 0 => Len(statesList) >= 1
  BY DEF PoolInv, SharesInv, FramesInv, SaveState
<1>5. \A i, j \in 1 .. Len(statesList) : i < j => statesList[i].frame < statesList[j].frame
  BY DEF PoolInv, OrderInv
<1>3. CASE freeStack # <<>>
  <2>0. Last(freeStack) \in Slot /\ frame \in 0 .. MaxFrame
    BY <1>1, <1>3, FrontFields
  <2>16. [frame |-> frame, slot |-> Last(freeStack)] \in State
    BY <2>0 DEF State
  <2>1. PICK e \in State : e = [frame |-> frame, slot |-> Last(freeStack)]
    BY <2>16
  <2>2. e.frame = frame /\ e.slot = freeStack[Len(freeStack)] /\ e.slot \in Slot /\ e.slot = Last(freeStack)
    BY <1>1, <1>3, <2>1, FrontFields DEF Last
  <2>3. /\ freeStack' \in Seq(Slot) /\ Len(freeStack') = Len(freeStack) - 1
        /\ Len(freeStack) \in Nat \ {0}
        /\ \A k \in 1 .. Len(freeStack) - 1 : freeStack'[k] = freeStack[k]
    <3>1. freeStack' = Front(freeStack)
      BY <1>3 DEF SaveState, SaveInto
    <3> QED
      BY <1>1, <1>3, <3>1, FrontFields
  <2>4. statesList' = Append(statesList, e)
    BY <1>3, <2>1 DEF SaveState, SaveInto
  <2>5. /\ statesList' \in Seq(State) /\ Len(statesList') = Len(statesList) + 1
        /\ \A k \in 1 .. Len(statesList) : statesList'[k] = statesList[k]
        /\ statesList'[Len(statesList) + 1] = e
    BY <1>1, <2>4, AppendProperties
  <2>6. memory' = [memory EXCEPT ![e.slot] = game]
    BY <1>3, <2>2 DEF SaveState, SaveInto
  <2>7. Shared(freeStack', Len(freeStack'), SlotOf(statesList'), Len(statesList'))
    <3> DEFINE g == SlotOf(statesList)
               h == SlotOf(statesList')
    <3>1. \A k \in 1 .. Len(statesList) : g[k] = statesList[k].slot
      BY DEF SlotOf
    <3>2. \A k \in 1 .. Len(statesList) + 1 : h[k] = statesList'[k].slot
      BY <2>5 DEF SlotOf
    <3> HIDE DEF g, h
    <3>3. \A k \in 1 .. Len(statesList) : h[k] = g[k]
      BY <1>1, <2>5, <3>1, <3>2
    <3>4. h[Len(statesList) + 1] = freeStack[Len(freeStack)]
      BY <1>1, <2>2, <2>5, <3>2
    <3>5. Shared(freeStack, Len(freeStack), g, Len(statesList))
      BY <1>2 DEF g
    <3>6. Shared(freeStack', Len(freeStack) - 1, h, Len(statesList) + 1)
      BY <1>1, <2>3, <3>3, <3>4, <3>5, SharedTake
    <3> QED
      BY <2>3, <2>5, <3>6 DEF h
  <2>8. statesList'[Len(statesList')] = e
    BY <2>5
  <2>9. \A i \in 1 .. Len(statesList') - 1 : statesList'[i].frame < frame
    BY <1>1, <1>2, <2>5
  <2>10. Len(statesList') >= 1 /\ (frame > 0 => Len(statesList') >= 2)
    BY <1>1, <1>2, <2>5
  <2>11. OrderInv'
    <3> SUFFICES ASSUME NEW i \in 1 .. Len(statesList'), NEW j \in 1 .. Len(statesList'), i < j
                 PROVE  statesList'[i].frame < statesList'[j].frame
      BY DEF OrderInv
    <3>1. Len(statesList) \in Nat /\ Len(statesList') = Len(statesList) + 1
      BY <1>1, <2>5
    <3>2. i \in 1 .. Len(statesList) /\ (j \in 1 .. Len(statesList) \/ j = Len(statesList) + 1)
      BY <3>1
    <3>3. CASE j \in 1 .. Len(statesList)
      BY <1>5, <2>5, <3>2, <3>3
    <3>4. CASE j = Len(statesList) + 1
      BY <1>2, <2>2, <2>5, <3>2, <3>4
    <3> QED
      BY <3>2, <3>3, <3>4
  <2> QED
    BY <1>3, <2>2, <2>3, <2>4, <2>5, <2>6, <2>7, <2>8, <2>9, <2>10, <2>11
<1>4. CASE freeStack = <<>>
  <2>1. Len(freeStack) = 0 /\ Len(statesList) = NumStates
    BY <1>1, <1>2, <1>4 DEF Shared
  <2>2. PICK n \in 1 .. Len(statesList) : n = Evicted(r)
    BY <1>1, <2>1 DEF Evicted
  <2> DEFINE one == <<statesList[n].slot>>
             rest == RemoveAt(statesList, n)
  <2>3. one \in Seq(Slot) /\ Len(one) = 1 /\ Last(one) = statesList[n].slot /\ Front(one) = <<>>
    <3>1. one \in Seq(Slot) /\ Len(one) = 1 /\ Last(one) = statesList[n].slot
      BY <1>1, <2>2 DEF Last
    <3> HIDE DEF one
    <3>2. one # <<>>
      BY <3>1
    <3>3. Front(one) \in Seq(Slot) /\ Len(Front(one)) = 0
      BY <3>1, <3>2, FrontFields
    <3> QED
      BY <3>1, <3>3, EmptySeq
  <2>4. /\ memory' = [memory EXCEPT ![statesList[n].slot] = game]
        /\ statesList' = Append(rest, [frame |-> frame, slot |-> statesList[n].slot])
        /\ freeStack' = <<>>
    BY <1>4, <2>2, <2>3 DEF SaveState, SaveInto
  <2>16. statesList[n].slot \in Slot /\ frame \in 0 .. MaxFrame
    BY <1>1, <2>2
  <2>17. [frame |-> frame, slot |-> statesList[n].slot] \in State
    BY <2>16 DEF State
  <2>5. PICK e \in State : e = [frame |-> frame, slot |-> statesList[n].slot]
    BY <2>17
  <2>6. e.frame = frame /\ e.slot = statesList[n].slot /\ e.slot \in Slot
    BY <1>1, <2>2, <2>5
  <2>7. /\ rest \in Seq(State) /\ Len(rest) = Len(statesList) - 1
        /\ \A k \in 1 .. Len(statesList) - 1 : rest[k] = IF k < n THEN statesList[k] ELSE statesList[k + 1]
    BY <1>1, <2>2, RemoveAtFields
  <2> HIDE DEF one, rest
  <2>8. /\ statesList' \in Seq(State) /\ Len(statesList') = Len(rest) + 1
        /\ \A k \in 1 .. Len(rest) : statesList'[k] = rest[k]
        /\ statesList'[Len(rest) + 1] = e
    BY <2>4, <2>5, <2>7, AppendProperties
  <2>9. /\ Len(statesList') = Len(statesList)
        /\ \A k \in 1 .. n - 1 : statesList'[k] = statesList[k]
        /\ \A k \in n .. Len(statesList) - 1 : statesList'[k] = statesList[k + 1]
        /\ statesList'[Len(statesList)] = e
    <3>1. Len(rest) + 1 = Len(statesList) /\ Len(rest) = Len(statesList) - 1
      BY <1>1, <2>7
    <3>2. ASSUME NEW k \in 1 .. n - 1 PROVE statesList'[k] = statesList[k]
      <4>1. k \in 1 .. Len(statesList) - 1 /\ k < n
        BY <1>1
      <4> QED
        BY <2>7, <2>8, <3>1, <4>1
    <3>3. ASSUME NEW k \in n .. Len(statesList) - 1 PROVE statesList'[k] = statesList[k + 1]
      <4>1. k \in 1 .. Len(statesList) - 1 /\ ~(k < n)
        BY <1>1
      <4> QED
        BY <2>7, <2>8, <3>1, <4>1
    <3> QED
      BY <2>8, <3>1, <3>2, <3>3
  <2>10. Shared(freeStack', Len(freeStack'), SlotOf(statesList'), Len(statesList'))
    <3> DEFINE g == SlotOf(statesList)
               h == SlotOf(statesList')
    <3>1. \A k \in 1 .. Len(statesList) : g[k] = statesList[k].slot /\ h[k] = statesList'[k].slot
      BY <2>9 DEF SlotOf
    <3> HIDE DEF g, h
    <3>2. ASSUME NEW k \in 1 .. n - 1 PROVE h[k] = g[k]
      <4>1. k \in 1 .. Len(statesList)
        BY <1>1
      <4> QED
        BY <2>9, <3>1, <4>1
    <3>3. ASSUME NEW k \in n .. Len(statesList) - 1 PROVE h[k] = g[k + 1]
      <4>1. k \in 1 .. Len(statesList) /\ k + 1 \in 1 .. Len(statesList)
        BY <1>1
      <4> QED
        BY <2>9, <3>1, <4>1
    <3>4. h[Len(statesList)] = g[n]
      BY <1>1, <2>2, <2>6, <2>9, <3>1
    <3>5. Shared(freeStack, 0, g, Len(statesList))
      BY <1>2, <2>1 DEF g
    <3>6. Shared(freeStack, 0, h, Len(statesList))
      BY <1>1, <2>2, <3>2, <3>3, <3>4, <3>5, SharedRotate
    <3> QED
      BY <1>4, <2>1, <2>4, <2>9, <3>6 DEF h
  <2>11. \A i \in 1 .. Len(statesList') - 1 : statesList'[i].frame < frame
    <3> TAKE i \in 1 .. Len(statesList') - 1
    <3>1. i \in 1 .. n - 1 \/ i \in n .. Len(statesList) - 1
      BY <1>1, <2>2, <2>9
    <3>2. i \in 1 .. Len(statesList) /\ i + 1 \in 1 .. Len(statesList)
      BY <1>1, <2>9
    <3>3. statesList'[i] = statesList[i] \/ statesList'[i] = statesList[i + 1]
      BY <2>9, <3>1
    <3> QED
      BY <1>2, <3>2, <3>3
  <2>12. Len(statesList') >= 2 /\ Len(statesList') >= 1
    BY <1>1, <2>1, <2>9
  <2>13. statesList'[Len(statesList')] = e /\ statesList' = Append(RemoveAt(statesList, n), e)
    BY <2>4, <2>5, <2>9 DEF rest
  <2>14. freeStack' \in Seq(Slot)
    BY <1>1, <1>4, <2>4
  <2>15. memory' = [memory EXCEPT ![e.slot] = game]
    BY <2>4, <2>6
  <2>18. OrderInv'
    <3> SUFFICES ASSUME NEW i \in 1 .. Len(statesList'), NEW j \in 1 .. Len(statesList'), i < j
                 PROVE  statesList'[i].frame < statesList'[j].frame
      BY DEF OrderInv
    <3> DEFINE From(k) == IF k < n THEN k ELSE k + 1
    <3>1. i \in 1 .. Len(statesList) - 1
      BY <1>1, <2>9
    <3>2. \A k \in 1 .. Len(statesList) - 1 :
            From(k) \in 1 .. Len(statesList) /\ statesList'[k] = statesList[From(k)]
      <4> TAKE k \in 1 .. Len(statesList) - 1
      <4>1. k \in 1 .. n - 1 \/ k \in n .. Len(statesList) - 1
        BY <1>1
      <4> QED
        BY <1>1, <2>9, <4>1
    <3>3. CASE j = Len(statesList)
      BY <2>6, <2>9, <2>11, <3>1, <3>3
    <3>4. CASE j # Len(statesList)
      <4>1. j \in 1 .. Len(statesList) - 1
        BY <1>1, <2>9, <3>4
      <4>2. From(i) < From(j)
        BY <1>1, <3>1, <4>1
      <4> QED
        BY <1>5, <3>1, <3>2, <4>1, <4>2
    <3> QED
      BY <3>3, <3>4
  <2> QED
    BY <1>4, <2>2, <2>6, <2>8, <2>10, <2>11, <2>12, <2>13, <2>14, <2>15, <2>18
<1> QED
  BY <1>3, <1>4

\* A saved state is the newest one.
LEMMA SaveStatePoolInv == PoolInv /\ (\E r \in 0 .. MaxFrame - 1 : SaveState(r)) => PoolInv'
<1> SUFFICES ASSUME PoolInv, NEW r \in 0 .. MaxFrame - 1, SaveState(r) PROVE PoolInv'
  OBVIOUS
<1>1. /\ rolling' = rolling /\ inGame' = inGame /\ rolling /\ inGame
      /\ phase' = "poll" /\ frame' = frame /\ frame < MaxFrame
      /\ stopFrame' = stopFrame /\ stopFrame = 0 /\ game' = game
  BY DEF SaveState
<1>2. /\ freeStack' \in Seq(Slot) /\ statesList' \in Seq(State)
      /\ Len(statesList') >= 1 /\ (frame > 0 => Len(statesList') >= 2)
      /\ statesList'[Len(statesList')].frame = frame
      /\ statesList'[Len(statesList')].slot \in Slot
      /\ memory' = [memory EXCEPT ![statesList'[Len(statesList')].slot] = game]
      /\ \A i \in 1 .. Len(statesList') - 1 : statesList'[i].frame < frame
      /\ Shared(freeStack', Len(freeStack'), SlotOf(statesList'), Len(statesList'))
      /\ OrderInv'
  BY SaveFields
<1>3. TypeOK'
  <2>1. memory' \in [Slot -> Game]
    BY <1>2 DEF PoolInv, TypeOK
  <2>2. statesList' \in Seq([frame : 0 .. MaxFrame, slot : Slot])
    BY <1>2 DEF State
  <2> QED
    BY <1>1, <1>2, <2>1, <2>2 DEF PoolInv, TypeOK
<1>4. SharesInv'
  BY <1>1, <1>2 DEF SharesInv
<1>5. PhaseInv'
  BY <1>1 DEF PhaseInv
<1>6. FramesInv'
  <2>1. Len(statesList') \in Nat /\ frame \in Nat
    BY <1>2, PoolNumbers DEF PoolInv
  <2>2. ASSUME NEW i \in 1 .. Len(statesList')
        PROVE  /\ statesList'[i].frame <= frame
               /\ i < Len(statesList') => statesList'[i].frame < frame
    <3>1. CASE i = Len(statesList')
      BY <1>2, <2>1, <3>1
    <3>2. CASE i # Len(statesList')
      <4>1. i \in 1 .. Len(statesList') - 1
        BY <2>1, <3>2
      <4>2. statesList'[i] \in State
        BY <1>2
      <4>3. statesList'[i].frame \in 0 .. MaxFrame /\ MaxFrame \in Nat
        BY <4>2, PoolAssumption DEF State, PoolAssumption
      <4> QED
        BY <1>2, <2>1, <4>1, <4>3
    <3> QED
      BY <3>1, <3>2
  <2> QED
    BY <1>1, <1>2, <2>2 DEF FramesInv
<1> QED
  BY <1>2, <1>3, <1>4, <1>5, <1>6 DEF PoolInv

\* A frame of a rerun, or without rollback, saves nothing.
LEMMA SkipSavingPoolInv == PoolInv /\ SkipSaving => PoolInv'
<1> SUFFICES ASSUME PoolInv, SkipSaving PROVE PoolInv'
  OBVIOUS
<1>1. /\ rolling' = rolling /\ inGame' = inGame /\ inGame
      /\ phase = "step" /\ phase' = "play" /\ frame' = frame /\ frame < MaxFrame
      /\ stopFrame' = NextStopFrame /\ game' = game
      /\ memory' = memory /\ freeStack' = freeStack /\ statesList' = statesList
      /\ rolling => stopFrame # 0
  BY DEF SkipSaving, pool
<1>2. /\ frame \in Nat /\ stopFrame \in Nat /\ stopFrame <= MaxFrame /\ MaxFrame \in Nat
      /\ Len(statesList) \in Nat
      /\ \A i \in 1 .. Len(statesList) : statesList[i].frame \in 0 .. MaxFrame
  BY PoolNumbers DEF PoolInv
<1>3. stopFrame' = 0 \/ (stopFrame' = stopFrame /\ frame < stopFrame)
  BY <1>1, <1>2 DEF NextStopFrame
<1>4. TypeOK'
  <2>1. stopFrame' \in {0} \union frame' .. MaxFrame
    BY <1>1, <1>2, <1>3
  <2>2. frame' \in 0 .. MaxFrame
    BY <1>1, <1>2
  <2> QED
    BY <1>1, <2>1, <2>2 DEF PoolInv, TypeOK
<1>5. SharesInv'
  BY <1>1 DEF PoolInv, SharesInv
<1>6. PhaseInv'
  BY <1>1, <1>3 DEF PhaseInv
<1>7. FramesInv' /\ OrderInv'
  BY <1>1, <1>2 DEF PoolInv, FramesInv, OrderInv
<1> QED
  BY <1>4, <1>5, <1>6, <1>7 DEF PoolInv

\* A frame without a rollback goes on.
LEMMA ContinueFramePoolInv == PoolInv /\ ContinueFrame => PoolInv'
<1> SUFFICES ASSUME PoolInv, ContinueFrame PROVE PoolInv'
  OBVIOUS
<1>1. /\ rolling' = rolling /\ inGame' = inGame
      /\ phase = "poll" /\ phase' = "play" /\ frame' = frame
      /\ stopFrame' = stopFrame /\ game' = game
      /\ memory' = memory /\ freeStack' = freeStack /\ statesList' = statesList
  BY DEF ContinueFrame, pool
<1>2. TypeOK'
  BY <1>1 DEF PoolInv, TypeOK
<1>3. SharesInv'
  BY <1>1 DEF PoolInv, SharesInv
<1>4. PhaseInv'
  BY <1>1 DEF PoolInv, PhaseInv
<1>5. FramesInv' /\ OrderInv'
  BY <1>1 DEF PoolInv, FramesInv, OrderInv
<1> QED
  BY <1>2, <1>3, <1>4, <1>5 DEF PoolInv

\* The game computes a frame.
LEMMA PlayPoolInv == PoolInv /\ Play => PoolInv'
<1> SUFFICES ASSUME PoolInv, Play PROVE PoolInv'
  OBVIOUS
<1>1. /\ rolling' = rolling /\ inGame' = inGame
      /\ phase = "play" /\ phase' = "step" /\ frame' = frame + 1
      /\ stopFrame' = stopFrame /\ game' \in Game
      /\ memory' = memory /\ freeStack' = freeStack /\ statesList' = statesList
  BY DEF Play, pool
<1>2. /\ frame \in Nat /\ stopFrame \in Nat /\ stopFrame <= MaxFrame /\ MaxFrame \in Nat
      /\ Len(statesList) \in Nat
      /\ \A i \in 1 .. Len(statesList) : statesList[i].frame \in 0 .. MaxFrame
  BY PoolNumbers DEF PoolInv
<1>3. frame < MaxFrame /\ (stopFrame = 0 \/ frame < stopFrame) /\ inGame
  BY <1>1 DEF PoolInv, PhaseInv
<1>4. TypeOK'
  <2>1. frame' \in 0 .. MaxFrame /\ stopFrame' \in {0} \union frame' .. MaxFrame
    BY <1>1, <1>2, <1>3
  <2> QED
    BY <1>1, <2>1 DEF PoolInv, TypeOK
<1>5. SharesInv'
  BY <1>1 DEF PoolInv, SharesInv
<1>6. PhaseInv'
  BY <1>1, <1>3 DEF PhaseInv
<1>7. FramesInv' /\ OrderInv'
  BY <1>1, <1>2 DEF PoolInv, FramesInv, OrderInv
<1> QED
  BY <1>4, <1>5, <1>6, <1>7 DEF PoolInv

\* A connection is made only while the pool is empty, that is, not by a host that lost
\* one in mid-round.
RenewsEmpty == ~rolling /\ rolling' => freeStack = <<>> /\ statesList = <<>>

\* The connection may be lost at any time, and renewed between two rounds.
LEMMA ConnectionPoolInv ==
  RenewsEmpty => (PoolInv /\ (Disconnect \/ Reconnect) => PoolInv')
<1> SUFFICES ASSUME RenewsEmpty, PoolInv, Disconnect \/ Reconnect PROVE PoolInv'
  OBVIOUS
<1>1. /\ rolling' \in BOOLEAN /\ inGame' = inGame
      /\ rolling' => ~inGame /\ freeStack = <<>> /\ statesList = <<>>
      /\ phase' = phase /\ frame' = frame
      /\ stopFrame' = stopFrame /\ game' = game
      /\ memory' = memory /\ freeStack' = freeStack /\ statesList' = statesList
  BY DEF Disconnect, Reconnect, pool, RenewsEmpty
<1>2. TypeOK'
  BY <1>1 DEF PoolInv, TypeOK
<1>3. SharesInv'
  BY <1>1 DEF PoolInv, SharesInv
<1>4. PhaseInv'
  BY <1>1 DEF PoolInv, PhaseInv
<1>5. FramesInv' /\ OrderInv'
  <2>1. rolling' => Len(statesList') = 0 /\ ~inGame' /\ phase' = "step"
    BY <1>1 DEF PoolInv, PhaseInv
  <2> QED
    BY <1>1, <2>1 DEF PoolInv, FramesInv, OrderInv
<1> QED
  BY <1>2, <1>3, <1>4, <1>5 DEF PoolInv

\* A rollback loads an earlier frame, and frees what is newer.
LEMMA LoadFields ==
  ASSUME PoolInv, NEW t \in 0 .. MaxFrame - 1, LoadState(t)
  PROVE  \E n \in 1 .. Len(statesList) :
           /\ statesList' = SubSeq(statesList, 1, n) /\ statesList' \in Seq(State)
           /\ Len(statesList') = n /\ \A k \in 1 .. n : statesList'[k] = statesList[k]
           /\ freeStack' \in Seq(Slot)
           /\ Shared(freeStack', Len(freeStack'), SlotOf(statesList'), Len(statesList'))
           /\ frame' = statesList[n].frame /\ game' = memory[statesList[n].slot]
           /\ statesList[n].frame < frame
<1>1. /\ NumStates \in Nat /\ NumStates > 1 /\ MaxFrame \in Nat
      /\ frame \in Nat /\ frame <= MaxFrame
      /\ freeStack \in Seq(Slot) /\ Len(freeStack) \in Nat
      /\ statesList \in Seq(State) /\ Len(statesList) \in Nat
      /\ \A i \in 1 .. Len(statesList) :
           /\ statesList[i] \in State
           /\ statesList[i].frame \in 0 .. MaxFrame /\ statesList[i].slot \in Slot
  BY PoolNumbers DEF PoolInv
<1>2. /\ phase = "poll" /\ rolling /\ t < frame /\ inGame
  BY DEF PoolInv, PhaseInv, LoadState
<1>3. /\ Shared(freeStack, Len(freeStack), SlotOf(statesList), Len(statesList))
      /\ frame > 0 => Len(statesList) >= 2
      /\ \A i \in 1 .. Len(statesList) : i < Len(statesList) => statesList[i].frame < frame
  BY <1>2 DEF PoolInv, SharesInv, FramesInv
<1>4. Len(statesList) >= 2
  BY <1>1, <1>2, <1>3
<1> DEFINE before == {i \in 1 .. Len(statesList) : statesList[i].frame <= t}
<1>5. Loaded(t) = IF before = {} THEN 1 ELSE Max(before)
  <2>1. DOMAIN statesList = 1 .. Len(statesList)
    BY <1>1
  <2> QED
    BY <2>1 DEF Loaded
<1>6. Loaded(t) \in 1 .. Len(statesList) /\ statesList[Loaded(t)].frame < frame
  <2>1. CASE before = {}
    <3>1. Loaded(t) = 1
      BY <1>5, <2>1
    <3> QED
      BY <1>1, <1>3, <1>4, <3>1
  <2>2. CASE before # {}
    <3>1. Max(before) \in before
      BY <1>1, <2>2, LastPosition
    <3>2. Loaded(t) \in 1 .. Len(statesList) /\ statesList[Loaded(t)].frame <= t
      BY <1>5, <2>2, <3>1
    <3> QED
      BY <1>1, <1>2, <3>2
  <2> QED
    BY <2>1, <2>2
<1> HIDE DEF before
<1>7. PICK n \in 1 .. Len(statesList) : n = Loaded(t)
  BY <1>6
<1>8. /\ statesList' = SubSeq(statesList, 1, n) /\ freeStack' = freeStack \o SlotsFreed(n)
      /\ frame' = statesList[n].frame /\ game' = memory[statesList[n].slot]
  BY <1>7 DEF LoadState
<1>9. /\ statesList' \in Seq(State) /\ Len(statesList') = n
      /\ \A k \in 1 .. n : statesList'[k] = statesList[k]
  <2>1. PICK s \in Seq(State) : s = statesList
    BY <1>1
  <2>2. n \in 1 .. Len(s)
    BY <2>1
  <2>3. /\ SubSeq(s, 1, n) \in Seq(State) /\ Len(SubSeq(s, 1, n)) = n
        /\ \A k \in 1 .. n : SubSeq(s, 1, n)[k] = s[k]
    BY <2>2
  <2> QED
    BY <1>8, <2>1, <2>3
<1>10. /\ SlotsFreed(n) \in Seq(Slot) /\ Len(SlotsFreed(n)) = Len(statesList) - n
       /\ \A k \in 1 .. Len(statesList) - n : SlotsFreed(n)[k] = statesList[n + k].slot
  <2>1. \A k \in 1 .. Len(statesList) - n : n + k \in 1 .. Len(statesList)
    BY <1>1
  <2>2. \A k \in 1 .. Len(statesList) - n : statesList[n + k].slot \in Slot
    BY <1>1, <2>1
  <2>3. Len(statesList) - n \in Nat
    BY <1>1
  <2> QED
    BY <2>2, <2>3 DEF SlotsFreed
<1>11. /\ freeStack' \in Seq(Slot) /\ Len(freeStack') = Len(freeStack) + (Len(statesList) - n)
       /\ \A k \in 1 .. Len(freeStack) : freeStack'[k] = freeStack[k]
       /\ \A k \in 1 .. Len(statesList) - n : freeStack'[Len(freeStack) + k] = statesList[n + k].slot
  <2>1. PICK b \in Seq(Slot) : b = SlotsFreed(n)
    BY <1>10
  <2>2. /\ Len(b) = Len(statesList) - n /\ Len(b) \in Nat
        /\ \A k \in 1 .. Len(statesList) - n : b[k] = statesList[n + k].slot
    BY <1>10, <2>1
  <2>3. /\ freeStack \o b \in Seq(Slot) /\ Len(freeStack \o b) = Len(freeStack) + Len(b)
        /\ \A k \in 1 .. Len(freeStack) + Len(b) :
             (freeStack \o b)[k] = IF k <= Len(freeStack) THEN freeStack[k] ELSE b[k - Len(freeStack)]
    BY <1>1, ConcatProperties
  <2>4. freeStack' = freeStack \o b
    BY <1>8, <2>1
  <2>5. \A k \in 1 .. Len(freeStack) : (freeStack \o b)[k] = freeStack[k]
    BY <1>1, <2>2, <2>3
  <2>6. ASSUME NEW k \in 1 .. Len(statesList) - n
        PROVE  (freeStack \o b)[Len(freeStack) + k] = b[k]
    <3>1. /\ Len(freeStack) + k \in 1 .. Len(freeStack) + Len(b)
          /\ ~(Len(freeStack) + k <= Len(freeStack)) /\ (Len(freeStack) + k) - Len(freeStack) = k
      BY <1>1, <2>2
    <3> QED
      BY <2>3, <3>1
  <2> QED
    BY <2>2, <2>3, <2>4, <2>5, <2>6
<1>12. Shared(freeStack', Len(freeStack'), SlotOf(statesList'), Len(statesList'))
  <2> DEFINE g == SlotOf(statesList)
             h == SlotOf(statesList')
  <2>1. \A k \in 1 .. Len(statesList) : g[k] = statesList[k].slot
    BY DEF SlotOf
  <2>2. \A k \in 1 .. n : h[k] = statesList'[k].slot
    BY <1>9 DEF SlotOf
  <2> HIDE DEF g, h
  <2>3. ASSUME NEW k \in 1 .. n PROVE h[k] = g[k]
    <3>1. k \in 1 .. Len(statesList)
      BY <1>1
    <3> QED
      BY <1>9, <2>1, <2>2, <3>1
  <2>4. ASSUME NEW k \in 1 .. Len(statesList) - n
        PROVE  freeStack'[Len(freeStack) + k] = g[n + k]
    <3>1. n + k \in 1 .. Len(statesList)
      BY <1>1
    <3> QED
      BY <1>11, <2>1, <3>1
  <2>5. Shared(freeStack, Len(freeStack), g, Len(statesList))
    BY <1>3 DEF g
  <2>7. Len(freeStack) \in Nat /\ Len(statesList) \in Nat
    BY <1>1
  <2>8. \A k \in 1 .. Len(freeStack) : freeStack'[k] = freeStack[k]
    BY <1>11
  <2>6. Shared(freeStack', Len(freeStack) + (Len(statesList) - n), h, n)
    BY <2>3, <2>4, <2>5, <2>7, <2>8, SharedReturn
  <2> QED
    BY <1>9, <1>11, <2>6 DEF h
<1> QED
  BY <1>6, <1>7, <1>8, <1>9, <1>11, <1>12

\* A rollback goes back to the newest of the states it keeps.
LEMMA LoadStatePoolInv == PoolInv /\ (\E t \in 0 .. MaxFrame - 1 : LoadState(t)) => PoolInv'
<1> SUFFICES ASSUME PoolInv, NEW t \in 0 .. MaxFrame - 1, LoadState(t) PROVE PoolInv'
  OBVIOUS
<1>1. /\ rolling' = rolling /\ inGame' = inGame /\ rolling /\ inGame
      /\ phase' = "play" /\ stopFrame' = frame /\ memory' = memory /\ frame < MaxFrame
  BY DEF PoolInv, PhaseInv, LoadState
<1>2. PICK n \in 1 .. Len(statesList) :
           /\ statesList' \in Seq(State)
           /\ Len(statesList') = n /\ \A k \in 1 .. n : statesList'[k] = statesList[k]
           /\ freeStack' \in Seq(Slot)
           /\ Shared(freeStack', Len(freeStack'), SlotOf(statesList'), Len(statesList'))
           /\ frame' = statesList[n].frame /\ game' = memory[statesList[n].slot]
           /\ statesList[n].frame < frame
  BY LoadFields
<1>3. /\ frame \in Nat /\ MaxFrame \in Nat /\ Len(statesList) \in Nat
      /\ \A i \in 1 .. Len(statesList) :
           statesList[i].frame \in 0 .. MaxFrame /\ statesList[i].slot \in Slot
  BY PoolNumbers DEF PoolInv
<1>4. frame' \in Nat /\ frame' < frame /\ frame' \in 0 .. MaxFrame
  BY <1>2, <1>3
<1>5. TypeOK'
  <2>1. stopFrame' \in {0} \union frame' .. MaxFrame
    BY <1>1, <1>3, <1>4
  <2>2. game' \in Game
    BY <1>2, <1>3 DEF PoolInv, TypeOK
  <2>3. statesList' \in Seq([frame : 0 .. MaxFrame, slot : Slot])
    BY <1>2 DEF State
  <2> QED
    BY <1>1, <1>2, <1>4, <2>1, <2>2, <2>3 DEF PoolInv, TypeOK
<1>6. SharesInv'
  <2>1. Shared(freeStack', Len(freeStack'), SlotOf(statesList'), Len(statesList'))
    BY <1>2
  <2>2. rolling' /\ inGame'
    BY <1>1
  <2> QED
    BY <2>1, <2>2 DEF SharesInv
<1>7. PhaseInv'
  BY <1>1, <1>3, <1>4 DEF PhaseInv
<1>8. \A i, j \in 1 .. n : i < j => statesList[i].frame < statesList[j].frame
  BY <1>3 DEF PoolInv, OrderInv
<1>9. OrderInv'
  BY <1>2, <1>8 DEF OrderInv
<1>10. ASSUME NEW i \in 1 .. n PROVE statesList'[i].frame <= frame'
  <2>1. i = n \/ i < n
    BY <1>3
  <2>2. statesList'[i] = statesList[i] /\ statesList[i].frame \in Nat
    BY <1>2, <1>3
  <2>3. n \in 1 .. n
    BY <1>3
  <2> QED
    BY <1>2, <1>4, <1>8, <2>1, <2>2, <2>3
<1>11. FramesInv'
  BY <1>1, <1>2, <1>3, <1>10 DEF FramesInv
<1> QED
  BY <1>5, <1>6, <1>7, <1>9, <1>11 DEF PoolInv

-----------------------------------------------------------------------------
(* The theorems.                                                           *)

\* Every step keeps the invariant, if no connection starts on a lost round's pool.
LEMMA NextPoolInv == PoolInv /\ [Next]_vars /\ [RenewsEmpty]_vars => PoolInv'
<1> SUFFICES ASSUME PoolInv, [Next]_vars, [RenewsEmpty]_vars PROVE PoolInv'
  OBVIOUS
<1>1. CASE EnterInGame
  BY <1>1, EnterInGamePoolInv
<1>2. CASE LeaveInGame
  BY <1>2, LeaveInGamePoolInv
<1>3. CASE \E r \in 0 .. MaxFrame - 1 : SaveState(r)
  BY <1>3, SaveStatePoolInv
<1>4. CASE \E t \in 0 .. MaxFrame - 1 : LoadState(t)
  BY <1>4, LoadStatePoolInv
<1>5. CASE SkipSaving
  BY <1>5, SkipSavingPoolInv
<1>6. CASE ContinueFrame
  BY <1>6, ContinueFramePoolInv
<1>7. CASE Play
  BY <1>7, PlayPoolInv
<1>8. CASE Disconnect \/ Reconnect
  <2>1. CASE RenewsEmpty
    BY <1>8, <2>1, ConnectionPoolInv
  <2>2. CASE UNCHANGED vars
    BY <1>8, <2>2 DEF vars, Disconnect, Reconnect
  <2> QED
    BY <2>1, <2>2
<1>9. CASE UNCHANGED vars
  <2>1. /\ rolling' = rolling /\ inGame' = inGame /\ phase' = phase /\ frame' = frame
        /\ stopFrame' = stopFrame /\ game' = game
        /\ memory' = memory /\ freeStack' = freeStack /\ statesList' = statesList
    BY <1>9 DEF vars
  <2>2. TypeOK'
    BY <2>1 DEF PoolInv, TypeOK
  <2>3. SharesInv'
    BY <2>1 DEF PoolInv, SharesInv
  <2>4. PhaseInv'
    BY <2>1 DEF PoolInv, PhaseInv
  <2>5. FramesInv' /\ OrderInv'
    BY <2>1 DEF PoolInv, FramesInv, OrderInv
  <2> QED
    BY <2>2, <2>3, <2>4, <2>5 DEF PoolInv
<1> QED
  BY <1>1, <1>2, <1>3, <1>4, <1>5, <1>6, <1>7, <1>8, <1>9 DEF Next

\* Stack and list, taken as sets, are all slots.
LEMMA SharesEverySlot == PoolInv => EverySlotOnce
<1> SUFFICES ASSUME PoolInv, rolling, inGame
             PROVE  /\ ToSet(freeStack) \union SlotsInUse = Slot
                    /\ Len(freeStack) + Len(statesList) = NumStates
  BY DEF EverySlotOnce
<1>1. /\ freeStack \in Seq(Slot) /\ statesList \in Seq(State)
      /\ \A i \in 1 .. Len(statesList) : statesList[i].slot \in Slot
  BY PoolNumbers DEF PoolInv
<1> DEFINE g == SlotOf(statesList)
<1>2. \A k \in 1 .. Len(statesList) : g[k] = statesList[k].slot
  BY DEF SlotOf
<1>3. Shared(freeStack, Len(freeStack), g, Len(statesList))
  BY DEF PoolInv, SharesInv
<1> HIDE DEF g
<1>4. Len(freeStack) + Len(statesList) = NumStates
  BY <1>3 DEF Shared
<1>5. ToSet(freeStack) = {freeStack[i] : i \in 1 .. Len(freeStack)}
  BY <1>1 DEF ToSet
<1>6. SlotsInUse = {statesList[i].slot : i \in 1 .. Len(statesList)}
  BY <1>1 DEF SlotsInUse
<1>7. \A x \in ToSet(freeStack) \union SlotsInUse : x \in Slot
  BY <1>1, <1>5, <1>6
<1>8. ASSUME NEW x \in Slot PROVE x \in ToSet(freeStack) \union SlotsInUse
  <2>1. (\E i \in 1 .. Len(freeStack) : freeStack[i] = x) \/ (\E j \in 1 .. Len(statesList) : g[j] = x)
    BY <1>3 DEF Shared
  <2> QED
    BY <1>2, <1>5, <1>6, <2>1
<1> QED
  BY <1>4, <1>7, <1>8

\* Variables keep their types, and fast-forwarding never passes the frame it
\* stops at, whatever the size of the pool, unless a host that lost its connection in
\* mid-round makes a new one.
THEOREM PoolTypeCorrect == Spec /\ [][RenewsEmpty]_vars => []TypeOK
<1>1. Init => PoolInv
  BY InitPoolInv
<1>2. PoolInv /\ [Next]_vars /\ [RenewsEmpty]_vars => PoolInv'
  BY NextPoolInv
<1>3. PoolInv => TypeOK
  BY DEF PoolInv
<1> QED
  BY <1>1, <1>2, <1>3, PTL DEF Spec

\* allocateStates, saveState, loadState and deallocateStates neither lose a
\* slot of the pool nor give one out twice, over any number of rounds and of
\* connections, lost in mid-round or not, until a host makes a new connection on what
\* a round lost in its middle left in the pool (DllMain.cpp:1272, where
\* deallocateStates is skipped): that is the only way to give a slot out twice.
THEOREM NoSlotIsLost == Spec /\ [][RenewsEmpty]_vars => []EverySlotOnce
<1>1. Init => PoolInv
  BY InitPoolInv
<1>2. PoolInv /\ [Next]_vars /\ [RenewsEmpty]_vars => PoolInv'
  BY NextPoolInv
<1> QED
  BY <1>1, <1>2, SharesEverySlot, PTL DEF Spec

-----------------------------------------------------------------------------
(* The pool implements SavedStates.                                        *)

\* What a list of states and the memory hold.
SavedOf(sl, mem) ==
    [i \in DOMAIN sl |-> [frame |-> sl[i].frame, game |-> mem[sl[i].slot]]]

SavedState == [frame : 0 .. MaxFrame, game : Game]

\* A saved state per element of the list.
LEMMA SavedFields ==
  ASSUME NEW sl \in Seq(State), NEW mem \in [Slot -> Game]
  PROVE  /\ SavedOf(sl, mem) \in Seq(SavedState) /\ Len(SavedOf(sl, mem)) = Len(sl)
         /\ \A k \in 1 .. Len(sl) :
              SavedOf(sl, mem)[k] = [frame |-> sl[k].frame, game |-> mem[sl[k].slot]]
<1>1. Len(sl) \in Nat /\ DOMAIN sl = 1 .. Len(sl)
  OBVIOUS
<1>2. \A k \in 1 .. Len(sl) : sl[k] \in State
  OBVIOUS
<1>3. \A e \in State : e.frame \in 0 .. MaxFrame /\ e.slot \in Slot
  BY DEF State
<1>4. \A e \in State : [frame |-> e.frame, game |-> mem[e.slot]] \in SavedState
  BY <1>3 DEF SavedState
<1>5. \A k \in 1 .. Len(sl) : [frame |-> sl[k].frame, game |-> mem[sl[k].slot]] \in SavedState
  BY <1>2, <1>4
<1>6. SavedOf(sl, mem) = [k \in 1 .. Len(sl) |-> [frame |-> sl[k].frame, game |-> mem[sl[k].slot]]]
  BY <1>1 DEF SavedOf
<1> QED
  BY <1>1, <1>5, <1>6

\* An empty list.
LEMMA SavedNone ==
  ASSUME NEW mem \in [Slot -> Game] PROVE SavedOf(<<>>, mem) = <<>>
<1>1. <<>> \in Seq(State) /\ Len(<<>>) = 0
  OBVIOUS
<1>2. SavedOf(<<>>, mem) \in Seq(SavedState) /\ Len(SavedOf(<<>>, mem)) = 0
  BY <1>1, SavedFields
<1> QED
  BY <1>2, EmptySeq

\* A save writes into no slot that another state is in.
LEMMA SaveIsSave ==
  ASSUME PoolInv, NEW r \in 0 .. MaxFrame - 1, SaveState(r), PoolInv'
  PROVE  Promised!Save
<1>1. /\ statesList \in Seq(State) /\ Len(statesList) \in Nat /\ Len(freeStack) \in Nat
      /\ memory \in [Slot -> Game] /\ memory' \in [Slot -> Game] /\ NumStates \in Nat
      /\ frame \in 0 .. MaxFrame /\ game \in Game
  BY PoolNumbers DEF PoolInv, TypeOK
<1>2. freeStack \in Seq(Slot) /\ statesList' \in Seq(State)
  BY PoolNumbers, SaveFields DEF PoolInv
<1>3. /\ Len(statesList') >= 1 /\ Len(statesList') \in Nat
      /\ statesList'[Len(statesList')].frame = frame
      /\ statesList'[Len(statesList')].slot \in Slot
      /\ memory' = [memory EXCEPT ![statesList'[Len(statesList')].slot] = game]
  BY <1>2, SaveFields
<1>4. Shared(freeStack', Len(freeStack'), SlotOf(statesList'), Len(statesList'))
  BY SaveFields
<1>5. \/ freeStack # <<>> /\ statesList' = Append(statesList, statesList'[Len(statesList')])
      \/ /\ freeStack = <<>>
         /\ \E n \in 1 .. Len(statesList) :
              statesList' = Append(RemoveAt(statesList, n), statesList'[Len(statesList')])
  BY SaveFields
<1>6. PICK e \in State : e = statesList'[Len(statesList')]
  BY <1>2, <1>3
<1>7. e.frame = frame /\ e.slot \in Slot /\ memory' = [memory EXCEPT ![e.slot] = game]
  BY <1>3, <1>6
<1>8. memory'[e.slot] = game /\ \A x \in Slot : x # e.slot => memory'[x] = memory[x]
  BY <1>1, <1>7
<1>9. ASSUME NEW k \in 1 .. Len(statesList') - 1
      PROVE  statesList'[k].slot \in Slot /\ memory'[statesList'[k].slot] = memory[statesList'[k].slot]
  <2> DEFINE h == SlotOf(statesList')
  <2>1. \A j \in 1 .. Len(statesList') : h[j] = statesList'[j].slot
    BY DEF SlotOf
  <2>2. \A i, j \in 1 .. Len(statesList') : h[i] = h[j] => i = j
    BY <1>4 DEF Shared
  <2> HIDE DEF h
  <2>3. k \in 1 .. Len(statesList') /\ Len(statesList') \in 1 .. Len(statesList') /\ k # Len(statesList')
    BY <1>3
  <2>4. statesList'[k].slot # e.slot
    BY <1>6, <2>1, <2>2, <2>3
  <2>5. statesList'[k] \in State
    BY <1>2, <2>3
  <2>6. statesList'[k].slot \in Slot
    BY <2>5 DEF State
  <2> QED
    BY <1>8, <2>4, <2>6
<1> DEFINE old == SavedOf(statesList, memory)
           new == SavedOf(statesList', memory')
           s == [frame |-> frame, game |-> game]
<1>10. /\ old \in Seq(SavedState) /\ Len(old) = Len(statesList)
       /\ \A k \in 1 .. Len(statesList) :
            old[k] = [frame |-> statesList[k].frame, game |-> memory[statesList[k].slot]]
  BY <1>1, SavedFields
<1>11. /\ new \in Seq(SavedState) /\ Len(new) = Len(statesList')
       /\ \A k \in 1 .. Len(statesList') :
            new[k] = [frame |-> statesList'[k].frame, game |-> memory'[statesList'[k].slot]]
  BY <1>1, <1>2, SavedFields
<1>12. s \in SavedState
  BY <1>1 DEF SavedState
<1>13. new[Len(statesList')] = s
  <2>1. Len(statesList') \in 1 .. Len(statesList')
    BY <1>3
  <2> QED
    BY <1>6, <1>7, <1>8, <1>11, <2>1
<1>14. \A k \in 1 .. Len(statesList') - 1 :
         new[k] = [frame |-> statesList'[k].frame, game |-> memory[statesList'[k].slot]]
  <2> TAKE k \in 1 .. Len(statesList') - 1
  <2>1. k \in 1 .. Len(statesList')
    BY <1>3
  <2> QED
    BY <1>9, <1>11, <2>1
<1> HIDE DEF old, new, s
<1>15. \E kept \in {old} \union {RemoveAt(old, i) : i \in DOMAIN old} :
         Len(kept) < NumStates /\ new = Append(kept, s)
  <2>1. CASE freeStack # <<>> /\ statesList' = Append(statesList, e)
    <3>1. Len(freeStack) \in Nat \ {0} /\ Len(freeStack) + Len(statesList) = NumStates
      <4>1. Shared(freeStack, Len(freeStack), SlotOf(statesList), Len(statesList))
        BY DEF PoolInv, SharesInv, SaveState
      <4> QED
        BY <1>2, <2>1, <4>1, EmptySeq DEF Shared
    <3>2. Len(old) < NumStates
      BY <1>1, <1>10, <3>1
    <3>3. /\ Len(statesList') = Len(statesList) + 1
          /\ \A k \in 1 .. Len(statesList) : statesList'[k] = statesList[k]
      BY <1>1, <2>1, AppendProperties
    <3>4. /\ Append(old, s) \in Seq(SavedState) /\ Len(Append(old, s)) = Len(statesList) + 1
          /\ \A k \in 1 .. Len(statesList) : Append(old, s)[k] = old[k]
          /\ Append(old, s)[Len(statesList) + 1] = s
      BY <1>10, <1>12, AppendProperties
    <3>5. ASSUME NEW k \in 1 .. Len(new) PROVE new[k] = Append(old, s)[k]
      <4>1. k \in 1 .. Len(statesList) + 1
        BY <1>11, <3>3
      <4>2. CASE k = Len(statesList) + 1
        BY <1>13, <3>3, <3>4, <4>2
      <4>3. CASE k # Len(statesList) + 1
        <5>1. k \in 1 .. Len(statesList) /\ k \in 1 .. Len(statesList') - 1
          BY <1>1, <3>3, <4>1, <4>3
        <5> QED
          BY <1>10, <1>14, <3>3, <3>4, <5>1
      <4> QED
        BY <4>2, <4>3
    <3>6. new = Append(old, s)
      <4>1. Len(new) = Len(Append(old, s))
        BY <1>11, <3>3, <3>4
      <4> QED
        BY <1>11, <3>4, <3>5, <4>1, SeqEqual
    <3> QED
      BY <3>2, <3>6
  <2>2. ASSUME NEW n \in 1 .. Len(statesList), freeStack = <<>>,
               statesList' = Append(RemoveAt(statesList, n), e)
        PROVE  \E kept \in {old} \union {RemoveAt(old, i) : i \in DOMAIN old} :
                 Len(kept) < NumStates /\ new = Append(kept, s)
    <3>1. Len(freeStack) + Len(statesList) = NumStates
      <4>1. Shared(freeStack, Len(freeStack), SlotOf(statesList), Len(statesList))
        BY DEF PoolInv, SharesInv, SaveState
      <4> QED
        BY <4>1 DEF Shared
    <3> DEFINE rest == RemoveAt(statesList, n)
               kept == RemoveAt(old, n)
    <3>2. /\ rest \in Seq(State) /\ Len(rest) = Len(statesList) - 1
          /\ \A k \in 1 .. Len(statesList) - 1 : rest[k] = IF k < n THEN statesList[k] ELSE statesList[k + 1]
      BY <1>1, RemoveAtFields
    <3>3. n \in 1 .. Len(old)
      BY <1>10
    <3>4. /\ kept \in Seq(SavedState) /\ Len(kept) = Len(old) - 1
          /\ \A k \in 1 .. Len(old) - 1 : kept[k] = IF k < n THEN old[k] ELSE old[k + 1]
      BY <1>10, <3>3, RemoveAtFields
    <3>5. kept \in {old} \union {RemoveAt(old, i) : i \in DOMAIN old}
      <4>1. DOMAIN old = 1 .. Len(old)
        BY <1>10
      <4> QED
        BY <3>3, <4>1
    <3>6. statesList' = Append(rest, e)
      BY <2>2
    <3> HIDE DEF rest, kept
    <3>7. Len(kept) < NumStates /\ Len(kept) = Len(statesList) - 1 /\ Len(rest) = Len(kept)
      BY <1>1, <1>10, <3>1, <3>2, <3>4
    <3>8. /\ Len(statesList') = Len(kept) + 1
          /\ \A k \in 1 .. Len(rest) : statesList'[k] = rest[k]
      BY <3>2, <3>6, <3>7, AppendProperties
    <3>9. /\ Append(kept, s) \in Seq(SavedState) /\ Len(Append(kept, s)) = Len(kept) + 1
          /\ \A k \in 1 .. Len(kept) : Append(kept, s)[k] = kept[k]
          /\ Append(kept, s)[Len(kept) + 1] = s
      BY <1>12, <3>4, AppendProperties
    <3>10. ASSUME NEW k \in 1 .. Len(new) PROVE new[k] = Append(kept, s)[k]
      <4>1. k \in 1 .. Len(kept) + 1 /\ Len(kept) \in Nat
        BY <1>11, <3>4, <3>8
      <4>2. CASE k = Len(kept) + 1
        BY <1>13, <3>8, <3>9, <4>2
      <4>3. CASE k # Len(kept) + 1
        <5>1. /\ k \in 1 .. Len(kept) /\ k \in 1 .. Len(rest)
              /\ k \in 1 .. Len(statesList') - 1 /\ k \in 1 .. Len(statesList) - 1
              /\ k \in 1 .. Len(old) - 1
          BY <1>10, <3>7, <3>8, <4>1, <4>3
        <5>2. k \in 1 .. Len(statesList) /\ k + 1 \in 1 .. Len(statesList)
          BY <1>1, <5>1
        <5>3. statesList'[k] = IF k < n THEN statesList[k] ELSE statesList[k + 1]
          BY <3>2, <3>8, <5>1
        <5>4. Append(kept, s)[k] = IF k < n THEN old[k] ELSE old[k + 1]
          BY <3>4, <3>9, <5>1
        <5>5. new[k] = [frame |-> statesList'[k].frame, game |-> memory[statesList'[k].slot]]
          BY <1>14, <5>1
        <5>6. CASE k < n
          BY <1>10, <5>2, <5>3, <5>4, <5>5, <5>6
        <5>7. CASE ~(k < n)
          BY <1>10, <5>2, <5>3, <5>4, <5>5, <5>7
        <5> QED
          BY <5>6, <5>7
      <4> QED
        BY <4>2, <4>3
    <3>11. new = Append(kept, s)
      <4>1. Len(new) = Len(Append(kept, s))
        BY <1>11, <3>8, <3>9
      <4> QED
        BY <1>11, <3>9, <3>10, <4>1, SeqEqual
    <3> QED
      BY <3>5, <3>7, <3>11
  <2> QED
    BY <1>5, <1>6, <2>1, <2>2
<1>16. frame' = frame /\ game' = game /\ rolling /\ rolling'
  BY DEF SaveState
<1>17. PICK kept \in {old} \union {RemoveAt(old, i) : i \in DOMAIN old} :
         Len(kept) < NumStates /\ new = Append(kept, s)
  BY <1>15
<1>18. \A q, i : Promised!RemoveAt(q, i) = RemoveAt(q, i)
  BY DEF Promised!RemoveAt, RemoveAt
<1>19. Promised!Kept = {old} \union {RemoveAt(old, i) : i \in DOMAIN old}
  <2>1. Promised!Kept = {old} \union {Promised!RemoveAt(old, i) : i \in DOMAIN old}
    BY <1>16 DEF Promised!Kept, old, SavedOf
  <2> QED
    BY <1>18, <2>1
<1>20. kept \in Promised!Kept /\ Len(kept) < NumStates
  BY <1>17, <1>19
<1>21. new = Append(kept, [frame |-> frame, game |-> game])
  BY <1>17 DEF s
<1> QED
  BY <1>16, <1>20, <1>21 DEF Promised!Save, new, SavedOf

\* A rollback loads what was saved.
LEMMA LoadIsLoad ==
  ASSUME PoolInv, NEW t \in 0 .. MaxFrame - 1, LoadState(t)
  PROVE  Promised!Load
<1>1. /\ statesList \in Seq(State) /\ Len(statesList) \in Nat
      /\ memory \in [Slot -> Game]
  BY PoolNumbers DEF PoolInv, TypeOK
<1>2. PICK n \in 1 .. Len(statesList) :
           /\ statesList' \in Seq(State)
           /\ Len(statesList') = n /\ \A k \in 1 .. n : statesList'[k] = statesList[k]
           /\ frame' = statesList[n].frame /\ game' = memory[statesList[n].slot]
  BY LoadFields
<1>3. memory' = memory /\ rolling /\ rolling'
  BY DEF LoadState
<1> DEFINE old == SavedOf(statesList, memory)
           new == SavedOf(statesList', memory')
<1>4. /\ old \in Seq(SavedState) /\ Len(old) = Len(statesList)
      /\ \A k \in 1 .. Len(statesList) :
           old[k] = [frame |-> statesList[k].frame, game |-> memory[statesList[k].slot]]
  BY <1>1, SavedFields
<1>5. /\ new \in Seq(SavedState) /\ Len(new) = n
      /\ \A k \in 1 .. n :
           new[k] = [frame |-> statesList'[k].frame, game |-> memory[statesList'[k].slot]]
  BY <1>1, <1>2, <1>3, SavedFields
<1> HIDE DEF old, new
<1>6. \A k \in 1 .. n : k \in 1 .. Len(statesList) /\ new[k] = old[k]
  <2> TAKE k \in 1 .. n
  <2>1. k \in 1 .. Len(statesList)
    BY <1>1
  <2> QED
    BY <1>2, <1>4, <1>5, <2>1
<1>7. n \in 1 .. Len(old)
  BY <1>4
<1>8. /\ SubSeq(old, 1, n) \in Seq(SavedState) /\ Len(SubSeq(old, 1, n)) = n
      /\ \A k \in 1 .. n : SubSeq(old, 1, n)[k] = old[k]
  <2>1. PICK q \in Seq(SavedState) : q = old
    BY <1>4
  <2>2. n \in 1 .. Len(q)
    BY <1>7, <2>1
  <2>3. /\ SubSeq(q, 1, n) \in Seq(SavedState) /\ Len(SubSeq(q, 1, n)) = n
        /\ \A k \in 1 .. n : SubSeq(q, 1, n)[k] = q[k]
    BY <2>2
  <2> QED
    BY <2>1, <2>3
<1>9. new = SubSeq(old, 1, n)
  <2>1. \A k \in 1 .. Len(new) : new[k] = SubSeq(old, 1, n)[k]
    BY <1>5, <1>6, <1>8
  <2>2. Len(new) = Len(SubSeq(old, 1, n))
    BY <1>5, <1>8
  <2> QED
    BY <1>5, <1>8, <2>1, <2>2, SeqEqual
<1>10. n \in DOMAIN old /\ frame' = old[n].frame /\ game' = old[n].game
  <2>1. DOMAIN old = 1 .. Len(old)
    BY <1>4
  <2>2. old[n] = [frame |-> statesList[n].frame, game |-> memory[statesList[n].slot]]
    BY <1>4
  <2>3. old[n].frame = statesList[n].frame /\ old[n].game = memory[statesList[n].slot]
    BY <2>2
  <2> QED
    BY <1>2, <1>7, <2>1, <2>3
<1> QED
  BY <1>3, <1>9, <1>10 DEF Promised!Load, old, new, SavedOf

\* Every step of the pool is a step of SavedStates, or none.
LEMMA StepKeepsPromise ==
  ASSUME PoolInv, PoolInv', [Next]_vars, [RenewsEmpty]_vars
  PROVE  [Promised!Next]_(Promised!states)
<1>1. CASE \E r \in 0 .. MaxFrame - 1 : SaveState(r)
  BY <1>1, SaveIsSave DEF Promised!Next
<1>2. CASE \E t \in 0 .. MaxFrame - 1 : LoadState(t)
  BY <1>2, LoadIsLoad DEF Promised!Next
<1>3. CASE EnterInGame \/ LeaveInGame
  <2>1. /\ rolling' = rolling /\ (rolling => statesList' = <<>>)
        /\ frame' = 0 /\ game' \in Game /\ memory' \in [Slot -> Game]
    BY <1>3 DEF PoolInv, TypeOK, SharesInv, EnterInGame, LeaveInGame, AfterLeaving
  <2>2. SavedOf(<<>>, memory') = <<>>
    BY <2>1, SavedNone
  <2>3. Promised!Forget
    BY <2>1, <2>2 DEF Promised!Forget, SavedOf
  <2> QED
    BY <2>3 DEF Promised!Next
<1>4. CASE Play
  <2>1. /\ rolling' = rolling
        /\ game' \in Game /\ frame' = frame + 1 /\ memory' = memory /\ statesList' = statesList
    BY <1>4 DEF Play, pool
  <2>2. Promised!Play
    BY <2>1 DEF Promised!Play
  <2> QED
    BY <2>2 DEF Promised!Next
<1>5. CASE SkipSaving \/ ContinueFrame \/ UNCHANGED vars
  <2>1. /\ rolling' = rolling
        /\ frame' = frame /\ game' = game /\ memory' = memory /\ statesList' = statesList
    BY <1>5 DEF SkipSaving, ContinueFrame, pool, vars
  <2> QED
    BY <2>1 DEF Promised!states
<1>6. CASE Disconnect
  <2>1. ~rolling' /\ frame' = frame /\ game' = game
    BY <1>6 DEF Disconnect
  <2>2. Promised!GiveUp
    BY <2>1 DEF Promised!GiveUp
  <2> QED
    BY <2>2 DEF Promised!Next
<1>7. CASE Reconnect
  <2>1. /\ ~rolling /\ rolling' /\ frame' = frame /\ game' = game
        /\ memory' = memory /\ statesList' = statesList
    BY <1>7 DEF Reconnect, pool
  <2>2. statesList = <<>> /\ memory' \in [Slot -> Game]
    BY <2>1 DEF RenewsEmpty, vars, PoolInv, TypeOK
  <2>3. SavedOf(<<>>, memory') = <<>>
    BY <2>2, SavedNone
  <2> QED
    BY <2>1, <2>2, <2>3 DEF Promised!states, SavedOf
<1> QED
  BY <1>1, <1>2, <1>3, <1>4, <1>5, <1>6, <1>7 DEF Next

\* The pool keeps the promise of SavedStates: a rollback loads exactly what
\* was saved, however often its slot was used before and wherever connections were
\* lost, until a new connection starts on what a round lost in its middle left.
THEOREM PoolKeepsPromise == Spec /\ [][RenewsEmpty]_vars => SavedStatesSpec
<1>1. Init => PoolInv
  BY InitPoolInv
<1>2. PoolInv /\ [Next]_vars /\ [RenewsEmpty]_vars => PoolInv'
  BY NextPoolInv
<1>3. Init => Promised!Init
  <2> SUFFICES ASSUME Init PROVE Promised!Init
    OBVIOUS
  <2>1. statesList = <<>> /\ frame = 0 /\ game \in Game /\ memory \in [Slot -> Game]
    BY DEF Init
  <2>2. SavedOf(statesList, memory) = <<>>
    BY <2>1, SavedNone
  <2> QED
    BY <2>1, <2>2 DEF Promised!Init, SavedOf
<1>4. PoolInv /\ PoolInv' /\ [Next]_vars /\ [RenewsEmpty]_vars
        => [Promised!Next]_(Promised!states)
  BY StepKeepsPromise
<1> QED
  BY <1>1, <1>2, <1>3, <1>4, PTL DEF Spec, SavedStatesSpec, Promised!Spec

-----------------------------------------------------------------------------
(* A waiting peer repeats its inputs in time.                              *)

FlagsOK ==
    /\ waiting \in BOOLEAN /\ connected \in BOOLEAN /\ disconnected \in BOOLEAN
    /\ rngMissing \in BOOLEAN /\ isDisconnecting \in BOOLEAN /\ stopped \in BOOLEAN

TimesOK ==
    /\ framesWithoutData \in Nat
    /\ resendTimer \in {NoTimer} \cup 0 .. ResendInputsInterval
    /\ waitInputsTimer \in Nat \cup {-1}
    /\ sinceSent \in Nat

\* The time since a waiting peer has sent, and what its timer has to go, never add up to
\* more than an interval and the poll that started the timer.
SentBefore ==
    waiting => IF resendTimer = NoTimer THEN sinceSent = 0
               ELSE sinceSent + resendTimer <= ResendInputsInterval + PollTimeout

ResendInv == FlagsOK /\ TimesOK /\ SentBefore

\* No timer runs before the first frame.
LEMMA InitResendInv == InitWait => ResendInv
<1>. SUFFICES ASSUME InitWait PROVE ResendInv
  OBVIOUS
<1>1. FlagsOK
  BY DEF InitWait, FlagsOK
<1>2. TimesOK
  BY IntervalAssumption DEF IntervalAssumption, InitWait, TimesOK, NoTimer
<1>3. SentBefore
  BY DEF InitWait, SentBefore
<1>. QED BY <1>1, <1>2, <1>3 DEF ResendInv

\* What a poll leaves of the timer.
LEMMA TimerAfterPoll ==
  ASSUME TimesOK, resendTimer # NoTimer
  PROVE  /\ TimerAfter \in 0 .. ResendInputsInterval
         /\ Resends => PollTimeout - resendTimer \in Nat
         /\ Resends => PollTimeout - resendTimer + TimerAfter = ResendInputsInterval
         /\ ~Resends => TimerAfter = resendTimer - PollTimeout
BY IntervalAssumption DEF IntervalAssumption, TimesOK, NoTimer, TimerAfter, Resends

\* Every step keeps the timer within its bounds.
LEMMA NextResendInv == ResendInv /\ [NextWait]_waitVars => ResendInv'
<1>. SUFFICES ASSUME ResendInv, [NextWait]_waitVars PROVE ResendInv'
  OBVIOUS
<1>. USE IntervalAssumption DEF IntervalAssumption, ResendInv
<1>1. CASE BeginFrame
  <2>1. FlagsOK'
    BY <1>1 DEF BeginFrame, FlagsOK
  <2>2. TimesOK'
    BY <1>1 DEF BeginFrame, TimesOK
  <2>3. SentBefore'
    BY <1>1 DEF BeginFrame, SentBefore, TimesOK, NoTimer
  <2>. QED BY <2>1, <2>2, <2>3
<1>2. CASE PollReady
  <2>1. FlagsOK'
    BY <1>2 DEF PollReady, Poll, FlagsOK, Resends
  <2>2. TimesOK'
    BY <1>2 DEF PollReady, Poll, Resends, TimesOK, NoTimer
  <2>3. SentBefore'
    BY <1>2 DEF PollReady, SentBefore
  <2>. QED BY <2>1, <2>2, <2>3
<1>3. CASE PollEmpty
  <2>1. FlagsOK'
    BY <1>3 DEF PollEmpty, Poll, FlagsOK
  <2>2. TimesOK'
    <3>1. CASE resendTimer = NoTimer
      BY <1>3, <3>1 DEF PollEmpty, Poll, Resends, WithoutData, TimesOK, NoTimer
    <3>2. CASE resendTimer # NoTimer
      <4>1. ResendsAfter \in Nat \cup {-1}
        BY DEF TimesOK, ResendsAfter
      <4>. QED BY <1>3, <3>2, <4>1, TimerAfterPoll DEF PollEmpty, Poll, WithoutData, TimesOK, NoTimer
    <3>. QED BY <3>1, <3>2
  <2>3. SentBefore'
    <3>0. waiting
      BY <1>3 DEF PollEmpty
    <3>1. CASE resendTimer = NoTimer
      BY <1>3, <3>0, <3>1 DEF PollEmpty, Poll, Resends, TimesOK, SentBefore, NoTimer
    <3>2. CASE resendTimer # NoTimer
      BY <1>3, <3>0, <3>2, TimerAfterPoll DEF PollEmpty, Poll, TimesOK, SentBefore, NoTimer
    <3>. QED BY <3>1, <3>2
  <2>. QED BY <2>1, <2>2, <2>3
<1>4. CASE PollTimedOut
  <2>1. FlagsOK'
    BY <1>4 DEF PollTimedOut, Poll, FlagsOK
  <2>2. TimesOK'
    <3>0. ResendsAfter \in Nat \cup {-1}
      BY DEF TimesOK, ResendsAfter
    <3>1. CASE resendTimer = NoTimer
      BY <1>4, <3>0, <3>1 DEF PollTimedOut, Poll, Resends, TimerAfter, WithoutData, TimesOK, NoTimer
    <3>2. CASE resendTimer # NoTimer
      BY <1>4, <3>0, <3>2, TimerAfterPoll DEF PollTimedOut, Poll, WithoutData, TimesOK, NoTimer
    <3>. QED BY <3>1, <3>2
  <2>3. SentBefore'
    BY <1>4 DEF PollTimedOut, SentBefore
  <2>. QED BY <2>1, <2>2, <2>3
<1>5. CASE SocketDisconnected
  <2>1. FlagsOK'
    BY <1>5 DEF SocketDisconnected, FlagsOK
  <2>2. TimesOK' /\ SentBefore'
    BY <1>5 DEF SocketDisconnected, TimesOK, SentBefore
  <2>. QED BY <2>1, <2>2
<1>6. CASE UNCHANGED waitVars
  BY <1>6 DEF waitVars, FlagsOK, TimesOK, SentBefore
<1>. QED BY <1>1, <1>2, <1>3, <1>4, <1>5, <1>6 DEF NextWait

\* A waiting peer has always sent its inputs within the last interval of the
\* resend timer and the poll that followed it, whatever the intervals.
THEOREM AlwaysResentInTime == WaitSpec => []ResentInTime
<1>1. ResendInv => ResentInTime
  BY IntervalAssumption DEF IntervalAssumption, ResendInv, TimesOK, SentBefore, ResentInTime, NoTimer
<1>. QED BY InitResendInv, NextResendInv, <1>1, PTL DEF WaitSpec

-----------------------------------------------------------------------------
(* A connected peer is not stopped.                                        *)

MaxResends == MaxWaitInputsInterval \div ResendInputsInterval

\* The polls without data that a connected peer may make take less time than the resends
\* after which it would give up.
PollsEndFirst == DisconnectTimeoutFrames * PollTimeout < (MaxResends + 1) * ResendInputsInterval

\* While it is connected, a peer has counted the polls that its resends have taken, and
\* they are not too many.
PollsCounted ==
    connected /\ ~isDisconnecting /\ resendTimer # NoTimer =>
        /\ waitInputsTimer \in Nat
        /\ waitInputsTimer * ResendInputsInterval + ResendInputsInterval - resendTimer
             <= framesWithoutData * PollTimeout
        /\ framesWithoutData < DisconnectTimeoutFrames

StopInv == ResendInv /\ PollsCounted

\* Products of numbers grow with their factors.
LEMMA ProductMonotone == \A a, b, c \in Nat : a <= b => a * c <= b * c
<1>. SUFFICES ASSUME NEW a \in Nat, NEW b \in Nat, NEW c \in Nat, a <= b PROVE a * c <= b * c
  OBVIOUS
<1>1. b - a \in Nat
  OBVIOUS
<1>2. (b - a) * c \in Nat
  BY <1>1
<1>3. (b - a) * c = b * c - a * c
  OBVIOUS
<1>4. a * c \in Nat /\ b * c \in Nat
  OBVIOUS
<1>. QED BY <1>2, <1>3, <1>4

\* The number of resends after which DllMain gives up.
LEMMA MaxResendsInNat == MaxResends \in Nat
BY IntervalAssumption DEF IntervalAssumption, MaxResends

\* A poll that is not too many does not stop a connected peer.
LEMMA PollDoesNotStop ==
  ASSUME PollsEndFirst, StopInv, connected
  PROVE  ~(Resends /\ GivesUp)
<1>. SUFFICES ASSUME Resends, GivesUp PROVE FALSE
  OBVIOUS
<1>. USE IntervalAssumption DEF IntervalAssumption
<1>1. /\ resendTimer \in Nat /\ resendTimer <= PollTimeout /\ resendTimer # NoTimer
      /\ framesWithoutData \in Nat
  BY DEF StopInv, ResendInv, TimesOK, Resends, NoTimer
<1>2. /\ waitInputsTimer \in Nat
      /\ waitInputsTimer * ResendInputsInterval + ResendInputsInterval - resendTimer
           <= framesWithoutData * PollTimeout
      /\ framesWithoutData < DisconnectTimeoutFrames
  BY <1>1 DEF StopInv, PollsCounted, GivesUp
<1>3. MaxResends + 1 <= waitInputsTimer + 1
  BY <1>2, MaxResendsInNat DEF GivesUp, MaxResends
<1>4. (MaxResends + 1) * ResendInputsInterval <= (waitInputsTimer + 1) * ResendInputsInterval
  BY <1>2, <1>3, MaxResendsInNat, ProductMonotone
<1>5. (framesWithoutData + 1) * PollTimeout <= DisconnectTimeoutFrames * PollTimeout
  BY <1>1, <1>2, ProductMonotone
<1>6. (waitInputsTimer + 1) * ResendInputsInterval
        = waitInputsTimer * ResendInputsInterval + ResendInputsInterval
  BY <1>2
<1>7. (framesWithoutData + 1) * PollTimeout = framesWithoutData * PollTimeout + PollTimeout
  BY <1>1
<1>8. /\ waitInputsTimer * ResendInputsInterval \in Nat /\ framesWithoutData * PollTimeout \in Nat
      /\ (MaxResends + 1) * ResendInputsInterval \in Nat /\ DisconnectTimeoutFrames * PollTimeout \in Nat
  BY <1>1, <1>2, MaxResendsInNat
<1>. QED BY <1>1, <1>2, <1>4, <1>5, <1>6, <1>7, <1>8 DEF PollsEndFirst

\* Every step keeps the count of polls below what the resends allow.
LEMMA NextStopInv == PollsEndFirst /\ StopInv /\ [NextWait]_waitVars => StopInv'
<1>. SUFFICES ASSUME PollsEndFirst, StopInv, [NextWait]_waitVars PROVE PollsCounted'
  BY NextResendInv DEF StopInv
<1>. USE IntervalAssumption DEF IntervalAssumption
<1>0. FlagsOK /\ TimesOK /\ PollsCounted
  BY DEF StopInv, ResendInv
<1>1. CASE BeginFrame
  BY <1>0, <1>1 DEF BeginFrame, PollsCounted
<1>2. CASE PollReady
  BY <1>2 DEF PollReady, Poll, PollsCounted
<1>3. CASE PollEmpty
  <2>. SUFFICES ASSUME connected, ~isDisconnecting PROVE PollsCounted'
    BY <1>3 DEF PollEmpty, PollsCounted
  <2>1. framesWithoutData' = framesWithoutData + 1 /\ framesWithoutData' < DisconnectTimeoutFrames
    BY <1>0, <1>3 DEF PollEmpty, TimesOut, WithoutData, TimesOK
  <2>2. framesWithoutData \in Nat
        /\ framesWithoutData' * PollTimeout = framesWithoutData * PollTimeout + PollTimeout
        /\ framesWithoutData * PollTimeout \in Nat
    BY <1>0, <2>1 DEF TimesOK
  <2>3. CASE resendTimer = NoTimer
    <3>1. resendTimer' = ResendInputsInterval /\ waitInputsTimer' = 0
      BY <1>3, <2>3 DEF PollEmpty, Poll
    <3>. QED BY <2>1, <2>2, <3>1 DEF PollsCounted
  <2>4. CASE resendTimer # NoTimer
    <3>1. resendTimer' = TimerAfter /\ waitInputsTimer' = ResendsAfter
      BY <1>3, <2>4 DEF PollEmpty, Poll
    <3>2. /\ resendTimer \in Nat /\ waitInputsTimer \in Nat
          /\ waitInputsTimer * ResendInputsInterval \in Nat
          /\ waitInputsTimer * ResendInputsInterval + ResendInputsInterval - resendTimer
               <= framesWithoutData * PollTimeout
      BY <1>0, <2>4 DEF PollsCounted, TimesOK, NoTimer
    <3>3. CASE Resends
      <4>1. PollTimeout - resendTimer + TimerAfter = ResendInputsInterval
            /\ TimerAfter \in Nat
        BY <1>0, <2>4, <3>3, TimerAfterPoll
      <4>2. /\ ResendsAfter \in Nat
            /\ ResendsAfter * ResendInputsInterval
                 <= waitInputsTimer * ResendInputsInterval + ResendInputsInterval
            /\ ResendsAfter * ResendInputsInterval \in Nat
        <5>1. CASE ResendsAfter = waitInputsTimer
          BY <3>2, <5>1
        <5>2. CASE ResendsAfter = waitInputsTimer + 1
          BY <3>2, <5>2
        <5>. QED BY <5>1, <5>2 DEF ResendsAfter
      <4>. QED BY <2>1, <2>2, <3>1, <3>2, <4>1, <4>2 DEF PollsCounted
    <3>4. CASE ~Resends
      <4>1. TimerAfter = resendTimer - PollTimeout /\ ResendsAfter = waitInputsTimer
        BY <1>0, <2>4, <3>4, TimerAfterPoll DEF ResendsAfter
      <4>. QED BY <2>1, <2>2, <3>1, <3>2, <4>1 DEF PollsCounted
    <3>. QED BY <3>3, <3>4
  <2>. QED BY <2>3, <2>4
<1>4. CASE PollTimedOut
  BY <1>4 DEF PollTimedOut, PollsCounted
<1>5. CASE SocketDisconnected
  BY <1>5 DEF SocketDisconnected, PollsCounted
<1>6. CASE UNCHANGED waitVars
  BY <1>0, <1>6 DEF waitVars, PollsCounted
<1>. QED BY <1>1, <1>2, <1>3, <1>4, <1>5, <1>6 DEF NextWait

\* While the socket is connected the game is never closed by "Timed out!".
THEOREM ConnectedNeverStops ==
  ASSUME PollsEndFirst
  PROVE  WaitSpec => ConnectedIsNotStopped
<1>1. InitWait => StopInv
  BY InitResendInv DEF StopInv, InitWait, PollsCounted
<1>2. StopInv /\ [NextWait]_waitVars => StopInv'
  BY NextStopInv
<1>3. StopInv /\ [NextWait]_waitVars => [stopped' /\ ~stopped => ~connected]_waitVars
  <2>. SUFFICES ASSUME StopInv, NextWait, stopped', ~stopped, connected PROVE FALSE
    BY DEF waitVars
  <2>1. ~(Resends /\ GivesUp)
    BY PollDoesNotStop
  <2>. QED BY <2>1 DEF NextWait, BeginFrame, PollReady, PollEmpty, PollTimedOut, SocketDisconnected, Poll
<1>. QED BY <1>1, <1>2, <1>3, PTL DEF WaitSpec, ConnectedIsNotStopped
=============================================================================

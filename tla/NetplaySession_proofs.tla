----------------------- MODULE NetplaySession_proofs -----------------------
(***************************************************************************)
(* Proofs about NetplaySession for every choice of delays, losses, window  *)
(* length and bounds: the state keeps its types, and a peer's own inputs   *)
(* always reach the index that labels the windows it sends.                *)
(***************************************************************************)
EXTENDS NetplaySession, SequenceTheorems, WellFoundedInduction, TLAPS

Input == {0, 1}

-----------------------------------------------------------------------------
(* The input histories.                                                    *)

\* A nonempty set of positions of a sequence has a last one.
LEMMA LastPosition ==
  ASSUME NEW n \in Nat, NEW known, known \subseteq 1 .. n, known # {}
  PROVE  \E j \in known : \A k \in known : k <= j
<1> DEFINE left == {m \in Nat : n - m \in known}
<1>1. PICK i : i \in known
  OBVIOUS
<1>2. PICK m0 \in Nat : m0 = n - i /\ n - m0 = i
  BY <1>1
<1>3. left # {}
  BY <1>1, <1>2
<1>4. \E m \in left : \A o \in left : ~(<<o, m>> \in OpToRel(<, Nat))
  <2>1. left \subseteq Nat
    OBVIOUS
  <2> HIDE DEF left
  <2> QED
    BY <1>3, <2>1, NatLessThanWellFounded, WFMin
<1>5. PICK m \in left : \A o \in left : ~(<<o, m>> \in OpToRel(<, Nat))
  BY <1>4
<1>6. ASSUME NEW k \in known
      PROVE  k <= n - m
  <2>1. PICK o \in Nat : o = n - k /\ n - o = k
    OBVIOUS
  <2>2. o \in left
    BY <2>1
  <2>3. ~(o < m)
    BY <1>5, <2>1, <2>2 DEF OpToRel
  <2> QED
    BY <2>1, <2>3
<1>7. n - m \in known
  OBVIOUS
<1> QED
  BY <1>6, <1>7

\* Inputs that are there can be looked up.
LEMMA HistoryFields ==
  ASSUME NEW h \in InputsType
  PROVE  /\ Len(h) \in Nat /\ DOMAIN h = 1 .. Len(h)
         /\ \A i \in 1 .. Len(h) :
              /\ h[i] \in Seq(Input) /\ Len(h[i]) \in Nat /\ DOMAIN h[i] = 1 .. Len(h[i])
              /\ \A k \in 1 .. Len(h[i]) : h[i][k] \in Input
              /\ h[i] # << >> => Len(h[i]) \in 1 .. Len(h[i]) /\ LastOf(h[i]) \in Input
<1>1. Len(h) \in Nat /\ DOMAIN h = 1 .. Len(h)
  BY DEF InputsType
<1>2. ASSUME NEW i \in 1 .. Len(h)
      PROVE  /\ h[i] \in Seq(Input) /\ Len(h[i]) \in Nat /\ DOMAIN h[i] = 1 .. Len(h[i])
             /\ \A k \in 1 .. Len(h[i]) : h[i][k] \in Input
             /\ h[i] # << >> => Len(h[i]) \in 1 .. Len(h[i]) /\ LastOf(h[i]) \in Input
  <2>1. h[i] \in Seq(Input)
    BY <1>1 DEF InputsType, Input
  <2>2. Len(h[i]) \in Nat /\ DOMAIN h[i] = 1 .. Len(h[i]) /\ \A k \in 1 .. Len(h[i]) : h[i][k] \in Input
    BY <2>1
  <2>3. h[i] # << >> => Len(h[i]) \in Nat \ {0}
    BY <2>1, EmptySeq
  <2> QED
    BY <2>1, <2>2, <2>3 DEF LastOf
<1> QED
  BY <1>1, <1>2

\* The last input before an index is an input, also if there is none.
LEMMA LastInputType ==
  ASSUME NEW h \in InputsType, NEW i \in Nat
  PROVE  LastInputBefore(h, i) \in Input
<1> DEFINE known == {j \in 1 .. Len(h) : j <= i /\ h[j] # << >>}
<1>1. CASE known = {}
  BY <1>1 DEF LastInputBefore, NoInput, Input
<1>2. CASE known # {}
  <2>1. Len(h) \in Nat /\ known \subseteq 1 .. Len(h)
    BY HistoryFields
  <2>2. \E j \in known : \A k \in known : k <= j
    <3> HIDE DEF known
    <3> QED
      BY <1>2, <2>1, LastPosition
  <2>3. PICK j \in known : j = CHOOSE m \in known : \A k \in known : k <= m
    BY <2>2
  <2>4. LastInputBefore(h, i) = LastOf(h[j])
    BY <1>2, <2>3 DEF LastInputBefore
  <2> QED
    BY <2>4, HistoryFields
<1> QED
  BY <1>1, <1>2

\* get answers for every index and frame.
LEMMA GetType ==
  ASSUME NEW h \in InputsType, NEW i \in Nat, NEW f \in Nat
  PROVE  Get(h, i, f) \in Input
<1>1. CASE EndFrame(h, i) = 0
  BY <1>1, LastInputType DEF Get
<1>2. CASE EndFrame(h, i) # 0
  <2>1. i + 1 \in 1 .. Len(h) /\ EndFrame(h, i) = Len(h[i + 1])
    BY <1>2, HistoryFields DEF EndFrame
  <2>2. h[i + 1] # << >>
    BY <1>2, <2>1, EmptySeq
  <2>3. f < Len(h[i + 1]) => f + 1 \in 1 .. Len(h[i + 1])
    BY <2>1, HistoryFields
  <2> QED
    BY <1>2, <2>1, <2>2, <2>3, HistoryFields DEF Get
<1> QED
  BY <1>1, <1>2

\* The number of indexes, and of inputs of index i, after a resize.
Extent(h, i) == IF i >= Len(h) THEN i + 1 ELSE Len(h)
Grow(h, i, n) == IF i < Len(h) /\ Len(h[i + 1]) > n THEN Len(h[i + 1]) ELSE n

\* r has room for index i, and what h has in the other indexes
Extends(r, h, i) ==
    /\ r \in InputsType
    /\ Len(r) = Extent(h, i)
    /\ \A j \in 1 .. Len(h) : j # i + 1 => r[j] = h[j]
    /\ \A j \in 1 .. Len(r) : j > Len(h) /\ j # i + 1 => r[j] = << >>

\* and what h has in that index
Keeps(r, h, i) == i < Len(h) => \A k \in 1 .. Len(h[i + 1]) : r[i + 1][k] = h[i + 1][k]

\* resize keeps the inputs there are, in every index.
LEMMA ResizeFields ==
  ASSUME NEW h \in InputsType, NEW i \in Nat, NEW f \in Nat, NEW n \in Nat
  PROVE  LET r == Resize(h, i, f, n) IN
         /\ Extends(r, h, i)
         /\ Len(r[i + 1]) = Grow(h, i, f + n)
         /\ Keeps(r, h, i)
<1> DEFINE r == Resize(h, i, f, n)
           last == IF i >= Len(h) THEN LastInputBefore(h, Len(h))
                   ELSE IF h[i + 1] # << >> THEN LastOf(h[i + 1])
                   ELSE NoInput
           old == IF i + 1 <= Len(h) THEN h[i + 1] ELSE << >>
           m == IF f + n > Len(old) THEN f + n ELSE Len(old)
           grown == [k \in 1 .. m |-> IF k <= Len(old) THEN old[k] ELSE last]
           z == IF i >= Len(h) THEN i + 1 ELSE Len(h)
<1>1. Len(h) \in Nat /\ z \in Nat /\ i + 1 \in 1 .. z
  BY HistoryFields
<1>2. last \in Input
  <2>1. i < Len(h) => i + 1 \in 1 .. Len(h)
    BY <1>1
  <2> QED
    BY <1>1, <2>1, HistoryFields, LastInputType DEF NoInput, Input
<1>3. old \in Seq(Input) /\ Len(old) \in Nat /\ \A k \in 1 .. Len(old) : old[k] \in Input
  <2>1. CASE i + 1 <= Len(h)
    BY <2>1, <1>1, HistoryFields
  <2>2. CASE ~(i + 1 <= Len(h))
    BY <2>2
  <2> QED
    BY <2>1, <2>2
<1>4. m \in Nat /\ Len(old) <= m
  BY <1>3
<1>5. r = [j \in 1 .. z |-> IF j = i + 1 THEN grown
                            ELSE IF j <= Len(h) THEN h[j] ELSE << >>]
  BY DEF Resize
<1>6. m = Grow(h, i, f + n) /\ (i < Len(h) => old = h[i + 1])
  BY <1>1, <1>3, EmptySeq DEF Grow
<1> HIDE DEF r, last, old, m, z
<1>7. \A k \in 1 .. m : (IF k <= Len(old) THEN old[k] ELSE last) \in Input
  BY <1>2, <1>3, <1>4
<1>8. grown \in Seq(Input) /\ Len(grown) = m /\ \A k \in 1 .. Len(old) : grown[k] = old[k]
  <2>1. grown \in Seq(Input)
    BY <1>4, <1>7, IsASeq
  <2>2. DOMAIN grown = 1 .. m
    OBVIOUS
  <2>3. Len(grown) = m
    BY <1>4, <2>1, <2>2, LenProperties
  <2>4. ASSUME NEW k \in 1 .. Len(old)
        PROVE  grown[k] = old[k]
    <3>1. k \in 1 .. m /\ k <= Len(old)
      BY <1>3, <1>4
    <3> QED
      BY <3>1
  <2> QED
    BY <2>1, <2>3, <2>4
<1> HIDE DEF grown
<1>9. \A j \in 1 .. z : (IF j = i + 1 THEN grown ELSE IF j <= Len(h) THEN h[j] ELSE << >>) \in Seq(Input)
  BY <1>1, <1>8, HistoryFields
<1>10. r \in InputsType
  BY <1>1, <1>5, <1>9, IsASeq DEF InputsType, Input
<1>11. Len(r) = z
  BY <1>1, <1>5, <1>10, LenProperties DEF InputsType
<1>12. r[i + 1] = grown
  BY <1>1, <1>5
<1>13. \A j \in 1 .. Len(h) : j # i + 1 => r[j] = h[j]
  BY <1>1, <1>5 DEF z
<1>14. \A j \in 1 .. Len(r) : j > Len(h) /\ j # i + 1 => r[j] = << >>
  BY <1>1, <1>5, <1>11
<1> QED
  BY <1>6, <1>8, <1>10, <1>11, <1>12, <1>13, <1>14 DEF r, z, Extent, Extends, Keeps

\* set keeps the inputs there are.
LEMMA SetFields ==
  ASSUME NEW h \in InputsType, NEW i \in Nat, NEW f \in Nat, NEW input \in Input
  PROVE  LET r == Set(h, i, f, input) IN
         /\ Extends(r, h, i)
         /\ Len(r[i + 1]) = Grow(h, i, f + 1)
         /\ Keeps(r, h, i)
<1> DEFINE r == Set(h, i, f, input)
<1>1. Len(h) \in Nat
  BY HistoryFields
<1>2. CASE f < EndFrame(h, i)
  <2>1. i < Len(h) /\ f < Len(h[i + 1]) /\ r = h /\ i + 1 \in 1 .. Len(h)
    BY <1>1, <1>2 DEF EndFrame, Set
  <2>2. Len(h[i + 1]) \in Nat
    BY <2>1, HistoryFields
  <2>3. Grow(h, i, f + 1) = Len(h[i + 1])
    BY <2>1, <2>2 DEF Grow
  <2> QED
    BY <1>1, <2>1, <2>3 DEF Extent, Extends, Keeps
<1>3. CASE ~(f < EndFrame(h, i))
  <2> DEFINE z == Resize(h, i, f, 1)
             m == Grow(h, i, f + 1)
  <2>1. /\ Extends(z, h, i)
        /\ Len(z[i + 1]) = m
        /\ Keeps(z, h, i)
    <3>1. PICK one \in Nat : one = 1
      OBVIOUS
    <3> QED
      BY <3>1, ResizeFields
  <2>2. r = [z EXCEPT ![i + 1] = [z[i + 1] EXCEPT ![f + 1] = input]]
    BY <1>3 DEF Set
  <2>3. i + 1 \in 1 .. Len(z)
    BY <1>1, <2>1 DEF Extent, Extends
  <2>4. i < Len(h) => Len(h[i + 1]) \in Nat /\ Len(h[i + 1]) <= f
    <3> SUFFICES ASSUME i < Len(h) PROVE Len(h[i + 1]) \in Nat /\ Len(h[i + 1]) <= f
      OBVIOUS
    <3>1. i + 1 \in 1 .. Len(h)
      BY <1>1
    <3> QED
      BY <1>3, <3>1, HistoryFields DEF EndFrame
  <2>5. m = f + 1
    BY <1>1, <2>4 DEF Grow
  <2> HIDE DEF z, m, r
  <2>6. z[i + 1] \in Seq(Input) /\ f + 1 \in 1 .. Len(z[i + 1])
    BY <2>1, <2>3, <2>5, HistoryFields DEF Extends
  <2> DEFINE s == [z[i + 1] EXCEPT ![f + 1] = input]
  <2>7. s \in Seq(Input) /\ Len(s) = m
        /\ \A k \in 1 .. Len(z[i + 1]) : s[k] = IF k = f + 1 THEN input ELSE z[i + 1][k]
    BY <2>1, <2>6, ExceptSeq
  <2>8. z \in Seq(Seq(Input))
    BY <2>1 DEF InputsType, Input, Extends
  <2> HIDE DEF s
  <2>9. r \in InputsType /\ Len(r) = Len(z) /\ \A j \in 1 .. Len(z) : r[j] = IF j = i + 1 THEN s ELSE z[j]
    BY <2>2, <2>3, <2>7, <2>8, ExceptSeq DEF s, InputsType, Input
  <2>10. i < Len(h) => \A k \in 1 .. Len(h[i + 1]) : k \in 1 .. Len(z[i + 1]) /\ k # f + 1
    BY <2>1, <2>4, <2>5
  <2>11. \A j \in 1 .. Len(h) : j \in 1 .. Len(z)
    BY <1>1, <2>1 DEF Extent, Extends
  <2>12. r[i + 1] = s
    BY <2>3, <2>9
  <2> QED
    BY <2>1, <2>7, <2>9, <2>10, <2>11, <2>12 DEF r, m, Extends, Keeps
<1> QED
  BY <1>2, <1>3

\* r has the window in index i, and around it what h has there
Windowed(r, h, i, f, window) ==
    \A k \in 1 .. Len(r[i + 1]) :
        /\ k - f \in 1 .. Len(window) => r[i + 1][k] = window[k - f]
        /\ k - f \notin 1 .. Len(window) /\ i < Len(h) /\ k <= Len(h[i + 1]) => r[i + 1][k] = h[i + 1][k]

\* A window replaces inputs of its index, and keeps those of the others.
LEMMA SetWindowFields ==
  ASSUME NEW h \in InputsType, NEW i \in Nat, NEW f \in Nat, NEW window \in Seq(Input)
  PROVE  LET r == SetWindow(h, i, f, window) IN
         /\ Extends(r, h, i)
         /\ Len(r[i + 1]) = Grow(h, i, f + Len(window))
         /\ Windowed(r, h, i, f, window)
<1> DEFINE r == SetWindow(h, i, f, window)
           n == Len(window)
           z == Resize(h, i, f, n)
           m == Grow(h, i, f + n)
           s == [k \in DOMAIN z[i + 1] |-> IF k - f \in DOMAIN window THEN window[k - f] ELSE z[i + 1][k]]
<1>1. Len(h) \in Nat /\ n \in Nat /\ DOMAIN window = 1 .. n /\ \A k \in 1 .. n : window[k] \in Input
  BY HistoryFields
<1>2. /\ Extends(z, h, i)
      /\ Len(z[i + 1]) = m
      /\ Keeps(z, h, i)
  BY <1>1, ResizeFields
<1>3. r = [z EXCEPT ![i + 1] = s]
  BY DEF SetWindow
<1>4. i + 1 \in 1 .. Len(z)
  BY <1>1, <1>2 DEF Extent, Extends
<1> HIDE DEF z, m, r, n
<1>5. /\ z[i + 1] \in Seq(Input) /\ DOMAIN z[i + 1] = 1 .. m /\ m \in Nat
      /\ \A k \in 1 .. m : z[i + 1][k] \in Input
  BY <1>2, <1>4, HistoryFields DEF Extends
<1>6. s = [k \in 1 .. m |-> IF k - f \in 1 .. n THEN window[k - f] ELSE z[i + 1][k]]
  BY <1>1, <1>5
<1> HIDE DEF s
<1>7. \A k \in 1 .. m : (IF k - f \in 1 .. n THEN window[k - f] ELSE z[i + 1][k]) \in Input
  BY <1>1, <1>5
<1>8. s \in Seq(Input)
  BY <1>5, <1>6, <1>7, IsASeq
<1>9. Len(s) = m
  BY <1>5, <1>6, <1>8, LenProperties
<1>10. z \in Seq(Seq(Input))
  BY <1>2 DEF InputsType, Input, Extends
<1>11. r \in InputsType /\ Len(r) = Len(z) /\ \A j \in 1 .. Len(z) : r[j] = IF j = i + 1 THEN s ELSE z[j]
  BY <1>3, <1>4, <1>8, <1>10, ExceptSeq DEF InputsType, Input
<1>12. r[i + 1] = s
  BY <1>4, <1>11
<1>13. \A j \in 1 .. Len(h) : j \in 1 .. Len(z)
  BY <1>1, <1>2 DEF Extent, Extends
<1>14. ASSUME NEW k \in 1 .. Len(r[i + 1])
       PROVE  /\ k - f \in 1 .. n => r[i + 1][k] = window[k - f]
              /\ k - f \notin 1 .. n /\ i < Len(h) /\ k <= Len(h[i + 1]) => r[i + 1][k] = h[i + 1][k]
  <2>1. k \in 1 .. m
    BY <1>9, <1>12
  <2>2. i < Len(h) /\ k <= Len(h[i + 1]) => k \in 1 .. Len(h[i + 1])
    <3> SUFFICES ASSUME i < Len(h), k <= Len(h[i + 1]) PROVE k \in 1 .. Len(h[i + 1])
      OBVIOUS
    <3>1. i + 1 \in 1 .. Len(h)
      BY <1>1
    <3>2. Len(h[i + 1]) \in Nat
      BY <3>1, HistoryFields
    <3> QED
      BY <2>1, <1>5, <3>2
  <2> QED
    BY <2>1, <2>2, <1>2, <1>6, <1>12 DEF Keeps
<1> QED
  BY <1>2, <1>9, <1>11, <1>12, <1>13, <1>14 DEF r, m, n, Extends, Windowed

\* A window is a sequence of inputs.
LEMMA WindowType ==
  ASSUME NEW h \in InputsType, NEW i \in Nat, NEW f \in Nat, NEW n \in Int
  PROVE  Window(h, i, f, n) \in Seq(Input)
<1>1. CASE i < Len(h) /\ f + n <= Len(h[i + 1])
  <2>1. i + 1 \in 1 .. Len(h)
    BY <1>1, HistoryFields
  <2>2. \A k \in 1 .. Len(h[i + 1]) : h[i + 1][k] \in Input
    BY <2>1, HistoryFields
  <2>3. Len(h[i + 1]) \in Nat
    BY <2>1, HistoryFields
  <2>4. \A k \in f + 1 .. f + n : k \in 1 .. Len(h[i + 1])
    BY <1>1, <2>3
  <2>5. \A k \in f + 1 .. f + n : h[i + 1][k] \in Input
    BY <2>2, <2>4
  <2>6. f + 1 \in Int /\ f + n \in Int
    OBVIOUS
  <2>7. SubSeq(h[i + 1], f + 1, f + n) \in Seq(Input)
    BY <2>5, <2>6, SubSeqProperties
  <2> QED
    BY <1>1, <2>7 DEF Window
<1>2. CASE ~(i < Len(h) /\ f + n <= Len(h[i + 1]))
  BY <1>2 DEF Window
<1> QED
  BY <1>1, <1>2

\* Erasing keeps the newer indexes.
LEMMA EraseFields ==
  ASSUME NEW h \in InputsType, NEW i \in Nat
  PROVE  LET r == EraseIndexOlderThan(h, i) IN
         /\ r \in InputsType
         /\ Len(r) = IF i + 1 >= Len(h) THEN 0 ELSE Len(h) - i
         /\ \A j \in 1 .. Len(r) : r[j] = h[i + j]
<1>1. Len(h) \in Nat /\ \A j \in 1 .. Len(h) : h[j] \in Seq(Input)
  BY HistoryFields
<1>2. CASE i + 1 >= Len(h)
  BY <1>2 DEF EraseIndexOlderThan, InputsType
<1>3. CASE ~(i + 1 >= Len(h))
  <2>1. PICK n \in Nat : n = Len(h)
    BY <1>1
  <2>2. \A j \in i + 1 .. n : h[j] \in Seq(Input)
    BY <1>1, <2>1
  <2>3. i + 1 \in Int /\ n \in Int /\ n - (i + 1) + 1 = n - i /\ i + 1 <= n
    BY <1>3, <2>1
  <2>4. /\ SubSeq(h, i + 1, n) \in Seq(Seq(Input))
        /\ Len(SubSeq(h, i + 1, n)) = n - i
        /\ \A j \in 1 .. n - i : SubSeq(h, i + 1, n)[j] = h[(i + 1) + j - 1]
    BY <2>2, <2>3, SubSeqProperties
  <2>5. EraseIndexOlderThan(h, i) = SubSeq(h, i + 1, n)
    BY <1>3, <2>1 DEF EraseIndexOlderThan
  <2>6. \A j \in 1 .. n - i : (i + 1) + j - 1 = i + j
    BY <2>3
  <2> QED
    BY <1>3, <2>1, <2>4, <2>5, <2>6 DEF InputsType, Input
<1> QED
  BY <1>2, <1>3

-----------------------------------------------------------------------------
(* A peer.                                                                 *)

States == {"Initial", "CharaSelect", "Loading", "CharaIntro", "Skippable", "InGame", "RetryMenu"}
Scenes == (States \ {"Initial"}) \cup {NoScene, "IntroDone"}

\* a peer, with only the states and scenes that a netplay session has
NetplayPeer ==
    [versus : BOOLEAN, state : States, index : 0 .. MaxIndex, startIndex : 0 .. MaxIndex,
     frame : Nat, delay : Delays \cup {0}, own : InputsType, remote : InputsType,
     rngStates : Seq(1 .. MaxIndex \cup {None}), shouldSync : BOOLEAN,
     rng : -2 .. MaxIndex, localMenu : {None, 0, 1}, remoteMenu : {None, 0, 1},
     target : {None, 0, 1}, menuSent : BOOLEAN, lazy : BOOLEAN, connected : BOOLEAN,
     disconnected : BOOLEAN, offline : BOOLEAN, stopped : BOOLEAN, scene : Scenes, draw : BOOLEAN]

\* no own inputs of a later index are there, and nothing is asked for before the first
PeerOK(r) ==
    /\ r \in NetplayPeer
    /\ r.startIndex <= r.index
    /\ Len(r.own) <= (r.index - r.startIndex) + 1
    /\ r.index = 0 => r.state = "Initial" /\ r.scene # "IntroDone" /\ (r.stopped \/ ~r.shouldSync)

\* its own inputs reach its index
OwnIsCurrent(r) ==
    r.state # "Initial" =>
        /\ Len(r.own) = (r.index - r.startIndex) + 1
        /\ Len(r.own[Len(r.own)]) >= 1

\* The bounds on the indexes of the two modes are at most MaxIndex.
LEMMA MaxIndexType == MaxIndex \in Nat /\ MaxIndexVersus <= MaxIndex /\ MaxIndexTraining <= MaxIndex
  BY SessionAssumption DEF MaxIndex

\* A delay is a number of frames.
LEMMA DelayType ==
  ASSUME NEW delay \in Delays \cup {0}
  PROVE  delay \in Nat
  BY SessionAssumption

\* No state leads back to the initial one.
LEMMA NextStates ==
  /\ DOMAIN ValidNext = States
  /\ \A s \in States : ValidNext[s] \subseteq (States \ {"Initial"}) \cup {"ReplayMenu", "AutoCharaSelect"}
  /\ Scenes \subseteq (UNION {ValidNext[s] : s \in DOMAIN ValidNext}) \cup {NoScene, "IntroDone"}
<1>1. DOMAIN ValidNext = States
  BY DEF ValidNext, States
<1>2. /\ ValidNext["Initial"] = {"AutoCharaSelect", "CharaSelect", "ReplayMenu"}
      /\ ValidNext["CharaSelect"] = {"Loading"}
      /\ ValidNext["Loading"] = {"Skippable", "CharaIntro", "InGame"}
      /\ ValidNext["CharaIntro"] = {"InGame"}
      /\ ValidNext["Skippable"] = {"InGame", "RetryMenu"}
      /\ ValidNext["InGame"] = {"Skippable", "CharaSelect", "ReplayMenu", "RetryMenu"}
      /\ ValidNext["RetryMenu"] = {"Loading", "CharaSelect", "ReplayMenu"}
  BY DEF ValidNext
<1>3. \A s \in States : ValidNext[s] \subseteq (States \ {"Initial"}) \cup {"ReplayMenu", "AutoCharaSelect"}
  BY <1>2 DEF States
<1>4. \A s \in States \ {"Initial"} : \E u \in States : s \in ValidNext[u]
  BY <1>2 DEF States
<1>5. ASSUME NEW s \in Scenes
      PROVE  s \in (UNION {ValidNext[u] : u \in DOMAIN ValidNext}) \cup {NoScene, "IntroDone"}
  <2>1. CASE s \in States \ {"Initial"}
    <3>1. PICK u \in States : s \in ValidNext[u]
      BY <2>1, <1>4
    <3> QED
      BY <3>1, <1>1
  <2>2. CASE s \in {NoScene, "IntroDone"}
    BY <2>2
  <2> QED
    BY <2>1, <2>2 DEF Scenes
<1> QED
  BY <1>1, <1>3, <1>5

\* A peer of a session has the types of DllMain's and NetplayManager's members.
LEMMA NetplayPeerType == NetplayPeer \subseteq PeerType
<1>1. SUFFICES ASSUME NEW r \in NetplayPeer
               PROVE  r \in PeerType
  OBVIOUS
<1> DEFINE all == (UNION {ValidNext[s] : s \in DOMAIN ValidNext}) \cup {NoScene, "IntroDone"}
<1>2. r.scene \in all
  BY NextStates DEF NetplayPeer
<1> QED
  BY <1>2, NextStates DEF NetplayPeer, PeerType

\* The retry menu's decision is forgotten, and so are the indexes before this one.
LEMMA ForgottenFields ==
  ASSUME NEW r \in NetplayPeer, r.startIndex <= r.index
  PROVE  LET t == Forgotten(r) IN
         /\ t \in NetplayPeer
         /\ t.startIndex = r.index
         /\ Len(r.own) <= r.index - r.startIndex => Len(t.own) = 0
         /\ t.index = r.index /\ t.state = r.state /\ t.shouldSync = r.shouldSync /\ t.scene = r.scene
         /\ t.stopped = r.stopped
<1> DEFINE t == Forgotten(r)
<1>1. PICK offset \in Nat : offset = r.index - r.startIndex
  BY MaxIndexType DEF NetplayPeer
<1>2. CASE offset = 0
  <2>1. t = [r EXCEPT !.localMenu = None, !.remoteMenu = None]
    BY <1>1, <1>2 DEF Forgotten
  <2>2. Len(r.own) \in Nat
    BY HistoryFields DEF NetplayPeer
  <2>3. r.startIndex = r.index
    BY <1>1, <1>2, MaxIndexType DEF NetplayPeer
  <2> HIDE DEF t
  <2>4. t \in NetplayPeer
    BY <2>1 DEF NetplayPeer
  <2>5. /\ t.startIndex = r.startIndex /\ t.own = r.own
        /\ t.index = r.index /\ t.state = r.state /\ t.shouldSync = r.shouldSync /\ t.scene = r.scene
        /\ t.stopped = r.stopped
    BY <2>1 DEF NetplayPeer
  <2>6. Len(r.own) <= r.index - r.startIndex => Len(t.own) = 0
    BY <2>2, <2>5, <1>1, <1>2
  <2> QED
    BY <2>3, <2>4, <2>5, <2>6 DEF t
<1>3. CASE offset # 0
  <2>1. PICK own \in InputsType : own = EraseIndexOlderThan(r.own, offset)
    BY <1>1, EraseFields DEF NetplayPeer
  <2>2. PICK remote \in InputsType : remote = EraseIndexOlderThan(r.remote, offset)
    BY <1>1, EraseFields DEF NetplayPeer
  <2>3. SubSeq(r.rngStates, offset + 1, Len(r.rngStates)) \in Seq(1 .. MaxIndex \cup {None})
    <3> DEFINE S == 1 .. MaxIndex \cup {None}
    <3>1. r.rngStates \in Seq(S)
      BY DEF NetplayPeer
    <3> HIDE DEF S
    <3>2. PICK n \in Nat : n = Len(r.rngStates)
      BY <3>1, LenProperties
    <3>3. \A i \in offset + 1 .. n : r.rngStates[i] \in S
      BY <3>1, <3>2
    <3>4. SubSeq(r.rngStates, offset + 1, n) \in Seq(S)
      BY <3>3, SubSeqProperties
    <3> QED
      BY <3>2, <3>4 DEF S
  <2>4. PICK rngs \in Seq(1 .. MaxIndex \cup {None}) : rngs = SubSeq(r.rngStates, offset + 1, Len(r.rngStates))
    BY <2>3
  <2>5. t = [r EXCEPT !.own = own, !.remote = remote, !.rngStates = rngs, !.startIndex = r.index,
                      !.localMenu = None, !.remoteMenu = None]
    BY <1>1, <1>3, <2>1, <2>2, <2>4 DEF Forgotten
  <2>6. Len(r.own) \in Nat /\ Len(own) = IF offset + 1 >= Len(r.own) THEN 0 ELSE Len(r.own) - offset
    BY <1>1, <2>1, EraseFields, HistoryFields DEF NetplayPeer
  <2>7. Len(r.own) <= r.index - r.startIndex => Len(own) = 0
    BY <1>1, <2>6
  <2> HIDE DEF t
  <2>8. t \in NetplayPeer
    BY <2>5 DEF NetplayPeer
  <2> QED
    BY <2>5, <2>7, <2>8 DEF t, NetplayPeer
<1> QED
  BY <1>1, <1>2, <1>3

\* A new state: its index is one more, and no own inputs are there yet.
LEMMA SetStateFields ==
  ASSUME NEW r \in NetplayPeer, NEW state \in States \ {"Initial"},
         r.startIndex <= r.index, r.index < MaxIndex,
         Len(r.own) <= (r.index - r.startIndex) + 1
  PROVE  LET t == SetState(r, state) IN
         /\ t \in NetplayPeer
         /\ t.startIndex <= t.index
         /\ Len(t.own) <= t.index - t.startIndex
         /\ t.index = r.index + 1 /\ t.state = state /\ t.scene = r.scene /\ t.stopped = r.stopped
<1> DEFINE n == r.index + 1
           u == [r EXCEPT !.index = n, !.frame = 0, !.target = None, !.state = state]
<1>1. n \in 0 .. MaxIndex /\ n \in Nat /\ r.index \in Nat /\ r.startIndex \in Nat /\ n = r.index + 1
  BY MaxIndexType DEF NetplayPeer
<1> HIDE DEF n
<1>2. u \in NetplayPeer
  BY <1>1 DEF NetplayPeer, None
<1>3. /\ u.index = n /\ u.state = state /\ u.scene = r.scene /\ u.stopped = r.stopped
      /\ u.startIndex = r.startIndex /\ u.own = r.own
  BY DEF NetplayPeer
<1>4. Len(r.own) \in Nat
  BY HistoryFields DEF NetplayPeer
<1>5. u.startIndex <= u.index /\ Len(u.own) <= u.index - u.startIndex
  BY <1>1, <1>3, <1>4
<1>6. SetState(r, state) = IF state = "Loading" THEN Forgotten(u) ELSE u
  BY DEF SetState, n
<1> HIDE DEF u
<1>7. CASE state = "Loading"
  <2> DEFINE t == Forgotten(u)
  <2>1. /\ t \in NetplayPeer
        /\ t.startIndex = u.index
        /\ Len(t.own) = 0
        /\ t.index = u.index /\ t.state = u.state /\ t.shouldSync = u.shouldSync /\ t.scene = u.scene
        /\ t.stopped = u.stopped
    BY <1>2, <1>5, ForgottenFields
  <2> HIDE DEF t
  <2>2. t.startIndex <= t.index /\ Len(t.own) <= t.index - t.startIndex
    BY <1>1, <1>3, <2>1
  <2>3. SetState(r, state) = t
    BY <1>6, <1>7 DEF t
  <2> QED
    BY <1>1, <1>3, <2>1, <2>2, <2>3
<1>8. CASE state # "Loading"
  BY <1>1, <1>2, <1>3, <1>5, <1>6, <1>8
<1> QED
  BY <1>7, <1>8

\* After a change of the scene the peer stops, or is in a new state with no own
\* inputs for it yet, or has not changed its state.
LEMMA ChangedFields ==
  ASSUME NEW r, PeerOK(r), r.index < MaxIndex
  PROVE  LET s == Changed(r) IN
         /\ PeerOK(s)
         /\ s.index \in {r.index, r.index + 1}
         /\ s.index # r.index => s.state # "Initial" /\ Len(s.own) <= s.index - s.startIndex
         /\ s.index = r.index => s.own = r.own /\ s.startIndex = r.startIndex /\ s.state = r.state
         /\ s.stopped => r.stopped \/ s.index = r.index
<1> DEFINE s == Changed(r)
<1>1. CASE r.scene = NoScene
  BY <1>1 DEF Changed, NoScene
<1>2. CASE r.scene = "IntroDone"
  <2>1. s = [r EXCEPT !.shouldSync = TRUE]
    BY <1>2 DEF Changed, NoScene
  <2>2. s \in NetplayPeer
    BY <2>1 DEF PeerOK, NetplayPeer
  <2>3. /\ s.index = r.index /\ s.own = r.own /\ s.startIndex = r.startIndex /\ s.state = r.state
        /\ s.scene = r.scene
    BY <2>1 DEF PeerOK, NetplayPeer
  <2>4. r.index # 0
    BY <1>2 DEF PeerOK
  <2> QED
    BY <2>2, <2>3, <2>4 DEF PeerOK, s
<1>3. CASE r.scene \notin {NoScene, "IntroDone"}
  <2> DEFINE state == r.scene
             lazy == r.lazy /\ r.state \notin {"Skippable", "CharaIntro"}
             t == [r EXCEPT !.lazy = FALSE, !.shouldSync = r.shouldSync \/ state \in Lockstep]
  <2>1. /\ r \in NetplayPeer /\ r.startIndex <= r.index /\ Len(r.own) <= (r.index - r.startIndex) + 1
        /\ r.index \in Nat
    BY MaxIndexType DEF PeerOK, NetplayPeer
  <2>2. s = NetplayStateChanged(r, state)
    BY <1>3 DEF Changed
  <2>3. state \in States \ {"Initial"}
    BY <1>3 DEF PeerOK, NetplayPeer, Scenes
  <2>4. /\ t \in NetplayPeer
        /\ t.index = r.index /\ t.startIndex = r.startIndex /\ t.own = r.own
        /\ t.scene = r.scene /\ t.stopped = r.stopped /\ t.state = r.state
        /\ t.shouldSync = (r.shouldSync \/ r.scene \in Lockstep)
    BY DEF PeerOK, NetplayPeer
  <2> HIDE DEF state
  <2> HIDE DEF t, s
  <2>5. CASE state \notin ValidNext[r.state]
    <3>1. s = [r EXCEPT !.stopped = TRUE]
      BY <2>2, <2>5 DEF NetplayStateChanged, Stop
    <3>2. s \in NetplayPeer /\ s.index = r.index /\ s.own = r.own /\ s.startIndex = r.startIndex
          /\ s.state = r.state /\ s.stopped /\ s.scene = r.scene
      BY <2>1, <3>1 DEF NetplayPeer
    <3> QED
      BY <2>1, <3>2 DEF PeerOK, s
  <2>6. CASE state \in ValidNext[r.state] /\ state = "RetryMenu"
    <3> DEFINE u == [t EXCEPT !.lazy = TRUE, !.menuSent = FALSE]
    <3>1. s = SetState(u, state)
      BY <2>2, <2>6 DEF NetplayStateChanged, t, state
    <3>2. /\ u \in NetplayPeer /\ u.index = r.index /\ u.startIndex = r.startIndex /\ u.own = r.own
          /\ u.stopped = r.stopped /\ u.scene = r.scene
      BY <2>4 DEF NetplayPeer
    <3> HIDE DEF u
    <3>3. /\ s \in NetplayPeer
          /\ s.startIndex <= s.index
          /\ Len(s.own) <= s.index - s.startIndex
          /\ s.index = u.index + 1 /\ s.state = state /\ s.scene = u.scene /\ s.stopped = u.stopped
      BY <2>1, <2>3, <3>1, <3>2, SetStateFields
    <3>4. Len(s.own) \in Nat /\ s.index \in Nat /\ s.startIndex \in Nat
      BY <3>3, HistoryFields DEF NetplayPeer
    <3> QED
      BY <2>1, <2>3, <3>2, <3>3, <3>4 DEF PeerOK, s
  <2>7. CASE state \in ValidNext[r.state] /\ state # "RetryMenu" /\ lazy /\ ~r.connected
    <3>1. s = [t EXCEPT !.stopped = TRUE]
      BY <2>2, <2>7 DEF NetplayStateChanged, Stop, t, state
    <3>2. s \in NetplayPeer /\ s.index = r.index /\ s.own = r.own /\ s.startIndex = r.startIndex
          /\ s.state = r.state /\ s.stopped /\ s.scene = r.scene
      BY <2>4, <3>1 DEF NetplayPeer
    <3> QED
      BY <2>1, <3>2 DEF PeerOK, s
  <2>8. CASE state \in ValidNext[r.state] /\ state # "RetryMenu" /\ ~(lazy /\ ~r.connected)
    <3>1. s = SetState(t, state)
      BY <2>2, <2>8 DEF NetplayStateChanged, t, state
    <3>2. /\ s \in NetplayPeer
          /\ s.startIndex <= s.index
          /\ Len(s.own) <= s.index - s.startIndex
          /\ s.index = t.index + 1 /\ s.state = state /\ s.scene = t.scene /\ s.stopped = t.stopped
      BY <2>1, <2>3, <2>4, <3>1, SetStateFields
    <3>3. Len(s.own) \in Nat /\ s.index \in Nat /\ s.startIndex \in Nat
      BY <3>2, HistoryFields DEF NetplayPeer
    <3> QED
      BY <2>1, <2>3, <2>4, <3>2, <3>3 DEF PeerOK, s
  <2> QED
    BY <2>5, <2>6, <2>7, <2>8
<1> QED
  BY <1>1, <1>2, <1>3

\* Taking the host's RngState leaves the peer in its index, with its inputs.
LEMMA SyncedFields ==
  ASSUME NEW p, NEW r, PeerOK(r)
  PROVE  LET t == Synced(p, r) IN
         /\ PeerOK(t)
         /\ t.index = r.index /\ t.own = r.own /\ t.startIndex = r.startIndex /\ t.state = r.state
         /\ t.stopped = r.stopped /\ t.scene = r.scene
<1> DEFINE t == Synced(p, r)
           slot == RngSlot(r)
           rng == IF /\ r.shouldSync /\ ~r.offline
                     /\ Len(r.rngStates) >= slot /\ r.rngStates[slot] # None
                    THEN r.rngStates[slot] ELSE r.rng
<1>1. slot \in Nat \ {0}
  BY MaxIndexType DEF PeerOK, NetplayPeer, RngSlot
<1>2. rng \in -2 .. MaxIndex
  <2>1. CASE Len(r.rngStates) >= slot
    <3> DEFINE S == 1 .. MaxIndex \cup {None}
    <3>1. r.rngStates \in Seq(S)
      BY DEF PeerOK, NetplayPeer
    <3> HIDE DEF S, slot
    <3>2. slot \in 1 .. Len(r.rngStates)
      BY <1>1, <2>1, <3>1
    <3>3. r.rngStates[slot] \in S
      BY <3>1, <3>2
    <3> QED
      BY <3>3, MaxIndexType DEF S, None, PeerOK, NetplayPeer
  <2>2. CASE ~(Len(r.rngStates) >= slot)
    BY <2>2, MaxIndexType DEF PeerOK, NetplayPeer
  <2> QED
    BY <2>1, <2>2
<1>3. t = [r EXCEPT !.shouldSync = FALSE, !.rng = rng]
  BY DEF Synced
<1> HIDE DEF rng, t
<1>4. /\ t \in NetplayPeer
      /\ t.index = r.index /\ t.own = r.own /\ t.startIndex = r.startIndex /\ t.state = r.state
      /\ t.stopped = r.stopped /\ t.scene = r.scene /\ t.shouldSync = FALSE
  BY <1>2, <1>3 DEF PeerOK, NetplayPeer
<1> QED
  BY <1>4 DEF PeerOK, t

\* The scene that the game is asked for is one that a session has.
LEMMA NextSceneType ==
  ASSUME NEW r, PeerOK(r), NEW in
  PROVE  /\ NextScene(r, in) \in Scenes
         /\ r.index = 0 => NextScene(r, in) # "IntroDone"
<1>1. r.scene \in Scenes /\ r.state \in States
  BY DEF PeerOK, NetplayPeer
<1>2. CASE r.scene # NoScene
  <2>1. NextScene(r, in) = r.scene
    BY <1>2 DEF NextScene
  <2> QED
    BY <2>1, <1>1 DEF PeerOK
<1>3. CASE r.scene = NoScene
  <2>1. CASE r.state = "Initial"
    BY <1>3, <2>1 DEF NextScene, Scenes, NoScene
  <2>2. CASE r.state = "CharaSelect"
    BY <1>3, <2>2 DEF NextScene, Scenes, States, NoScene, PeerOK
  <2>3. CASE r.state = "Loading"
    BY <1>3, <2>3 DEF NextScene, Scenes, States, NoScene, PeerOK
  <2>4. CASE r.state = "CharaIntro"
    BY <1>3, <2>4 DEF NextScene, Scenes, States, NoScene, PeerOK
  <2>5. CASE r.state = "Skippable"
    BY <1>3, <2>5 DEF NextScene, Scenes, States, NoScene, PeerOK
  <2>6. CASE r.state = "InGame"
    BY <1>3, <2>6 DEF NextScene, Scenes, States, NoScene, PeerOK
  <2>7. CASE r.state = "RetryMenu"
    BY <1>3, <2>7 DEF NextScene, Scenes, States, NoScene, PeerOK
  <2> QED
    BY <1>1, <2>1, <2>2, <2>3, <2>4, <2>5, <2>6, <2>7 DEF States
<1> QED
  BY <1>2, <1>3

\* A player of the retry menu confirms an option, or follows the one decided.
LEMMA MenuInputFields ==
  ASSUME NEW r, PeerOK(r), NEW choice \in {None, 0, 1}
  PROVE  LET t == MenuInput(r, choice) IN
         /\ PeerOK(t)
         /\ t.index = r.index /\ t.own = r.own /\ t.startIndex = r.startIndex /\ t.state = r.state
         /\ t.stopped = r.stopped /\ t.scene = r.scene
<1> DEFINE t == MenuInput(r, choice)
           most == IF r.localMenu > r.remoteMenu THEN r.localMenu ELSE r.remoteMenu
<1>1. CASE r.localMenu # None /\ r.remoteMenu # None
  <2>1. r.localMenu \in {0, 1} /\ r.remoteMenu \in {0, 1}
    BY <1>1 DEF PeerOK, NetplayPeer
  <2>2. PICK target \in {0, 1} : target = IF most > 1 THEN 1 ELSE most
    BY <2>1
  <2>3. t = [r EXCEPT !.target = target]
    BY <1>1, <2>2 DEF MenuInput
  <2> HIDE DEF t
  <2>4. /\ t \in NetplayPeer
        /\ t.index = r.index /\ t.own = r.own /\ t.startIndex = r.startIndex /\ t.state = r.state
        /\ t.stopped = r.stopped /\ t.scene = r.scene /\ t.shouldSync = r.shouldSync
    BY <2>3 DEF PeerOK, NetplayPeer
  <2> QED
    BY <2>4 DEF PeerOK, t
<1>2. CASE ~(r.localMenu # None /\ r.remoteMenu # None) /\ r.localMenu = None
  <2>1. t = [r EXCEPT !.localMenu = choice]
    BY <1>2 DEF MenuInput
  <2> HIDE DEF t
  <2>2. /\ t \in NetplayPeer
        /\ t.index = r.index /\ t.own = r.own /\ t.startIndex = r.startIndex /\ t.state = r.state
        /\ t.stopped = r.stopped /\ t.scene = r.scene /\ t.shouldSync = r.shouldSync
    BY <2>1 DEF PeerOK, NetplayPeer
  <2> QED
    BY <2>2 DEF PeerOK, t
<1>3. CASE ~(r.localMenu # None /\ r.remoteMenu # None) /\ r.localMenu # None
  <2>1. t = r
    BY <1>3 DEF MenuInput
  <2> QED
    BY <2>1
<1> QED
  BY <1>1, <1>2, <1>3

\* So does the game, when it plays a frame.
LEMMA PlayedFields ==
  ASSUME NEW r, PeerOK(r), NEW in, NEW choice \in {None, 0, 1}, NEW delay \in Delays \cup {0}
  PROVE  LET t == Played(r, in, choice, delay) IN
         /\ PeerOK(t)
         /\ t.index = r.index /\ t.own = r.own /\ t.startIndex = r.startIndex /\ t.state = r.state
         /\ t.stopped = r.stopped
<1> DEFINE t == Played(r, in, choice, delay)
           u == IF r.state = "RetryMenu" /\ r.target = None THEN MenuInput(r, choice) ELSE r
<1>1. /\ PeerOK(u)
      /\ u.index = r.index /\ u.own = r.own /\ u.startIndex = r.startIndex /\ u.state = r.state
      /\ u.stopped = r.stopped
  BY MenuInputFields
<1> HIDE DEF u
<1>2. PICK scene \in Scenes : scene = NextScene(r, in) /\ (r.index = 0 => scene # "IntroDone")
  BY NextSceneType
<1>3. PICK frame \in Nat : frame = IF r.state \in Lockstep \/ u.frame = 0 THEN u.frame + 1 ELSE u.frame
  BY <1>1 DEF PeerOK, NetplayPeer
<1>4. PICK draw \in BOOLEAN : draw = IF r.state = "InGame" THEN in = <<1, 1>> ELSE u.draw
  BY <1>1 DEF PeerOK, NetplayPeer
<1>5. PICK after \in Delays \cup {0} : after = IF r.offline THEN 0 ELSE delay
  OBVIOUS
<1>6. t = [u EXCEPT !.frame = frame, !.scene = scene, !.draw = draw, !.delay = after]
  BY <1>2, <1>3, <1>4, <1>5 DEF Played, u
<1> HIDE DEF t
<1>7. /\ t \in NetplayPeer
      /\ t.index = u.index /\ t.own = u.own /\ t.startIndex = u.startIndex /\ t.state = u.state
      /\ t.stopped = u.stopped /\ t.scene = scene /\ t.shouldSync = u.shouldSync
  BY <1>1, <1>6 DEF PeerOK, NetplayPeer
<1> QED
  BY <1>1, <1>2, <1>7 DEF PeerOK, t

\* The input of the next frame belongs to the index of the peer.
LEMMA PressedFields ==
  ASSUME NEW p \in Peers, NEW r, PeerOK(r), NEW input \in Input,
         OwnIsCurrent(r) \/ Len(r.own) <= r.index - r.startIndex
  PROVE  LET t == Pressed(p, r, input) IN
         /\ PeerOK(t) /\ OwnIsCurrent(t)
         /\ t.index = r.index /\ t.startIndex = r.startIndex /\ t.state = r.state /\ t.stopped = r.stopped
<1> DEFINE t == Pressed(p, r, input)
           rng == IF r.state \in Lockstep THEN r.rng ELSE OwnRng(p)
           s == [r EXCEPT !.scene = NoScene, !.rng = rng]
<1>1. /\ s \in NetplayPeer
      /\ s.index = r.index /\ s.own = r.own /\ s.startIndex = r.startIndex /\ s.state = r.state
      /\ s.stopped = r.stopped /\ s.scene = NoScene /\ s.shouldSync = r.shouldSync
      /\ s.frame = r.frame /\ s.delay = r.delay
  <2>1. rng \in -2 .. MaxIndex
    BY MaxIndexType DEF PeerOK, NetplayPeer, OwnRng
  <2> HIDE DEF rng
  <2> QED
    BY <2>1 DEF PeerOK, NetplayPeer, Scenes
<1>2. t = IF r.state = "Initial" THEN s ELSE SetInput(s, input)
  BY DEF Pressed
<1> HIDE DEF s, rng, t
<1>3. CASE r.state = "Initial"
  BY <1>1, <1>2, <1>3 DEF PeerOK, OwnIsCurrent, NoScene, t
<1>4. CASE r.state # "Initial"
  <2>1. PICK i \in Nat : i = r.index - r.startIndex
    BY MaxIndexType DEF PeerOK, NetplayPeer
  <2>2. PICK f \in Nat : f = IF s.state = "RetryMenu" THEN s.frame ELSE s.frame + s.delay
    <3>1. s.frame \in Nat /\ s.delay \in Delays \cup {0}
      BY <1>1 DEF NetplayPeer
    <3>2. PICK delay \in Nat : delay = s.delay
      BY <3>1, DelayType
    <3> QED
      BY <3>1, <3>2
  <2>3. PICK own \in InputsType : own = r.own /\ Len(own) \in Nat
    BY HistoryFields DEF PeerOK, NetplayPeer
  <2> DEFINE h == Set(own, i, f, input)
  <2>4. Extends(h, own, i) /\ Len(h[i + 1]) = Grow(own, i, f + 1)
    <3>1. own \in InputsType /\ i \in Nat /\ f \in Nat /\ input \in Input
      BY <2>1, <2>2, <2>3
    <3> QED
      BY ONLY <3>1, SetFields
  <2>5. Len(own) <= i + 1
    BY <2>1, <2>3 DEF PeerOK
  <2>6. Len(h) = i + 1
    BY <2>1, <2>3, <2>4, <2>5 DEF Extent, Extends
  <2>7. Grow(own, i, f + 1) >= 1
    <3>1. CASE i < Len(own)
      <4>1. i + 1 \in 1 .. Len(own)
        BY <3>1, <2>3
      <4>2. Len(own[i + 1]) \in Nat
        BY <2>3, <4>1, HistoryFields
      <4> QED
        BY <3>1, <4>2 DEF Grow
    <3>2. CASE ~(i < Len(own))
      BY <3>2 DEF Grow
    <3> QED
      BY <3>1, <3>2
  <2>8. t = [s EXCEPT !.own = h]
    BY <1>1, <1>2, <1>4, <2>1, <2>2, <2>3 DEF SetInput
  <2> HIDE DEF h
  <2>9. /\ t \in NetplayPeer
        /\ t.index = s.index /\ t.own = h /\ t.startIndex = s.startIndex /\ t.state = s.state
        /\ t.stopped = s.stopped /\ t.scene = s.scene /\ t.shouldSync = s.shouldSync
    BY <1>1, <2>4, <2>8 DEF NetplayPeer, Extends
  <2>10. Len(t.own) = (t.index - t.startIndex) + 1 /\ Len(t.own[Len(t.own)]) >= 1
    BY <1>1, <2>1, <2>4, <2>6, <2>7, <2>9
  <2>11. Len(t.own) <= (t.index - t.startIndex) + 1
    BY <2>1, <2>6, <2>9, <1>1
  <2> QED
    BY <1>1, <2>9, <2>10, <2>11 DEF PeerOK, OwnIsCurrent, NoScene, t
<1> QED
  BY <1>3, <1>4

\* An RngState is stored at its index, and nothing else changes.
LEMMA SetRngStateFields ==
  ASSUME NEW r, PeerOK(r), NEW rng \in 1 .. MaxIndex
  PROVE  LET t == SetRngState(r, rng) IN
         /\ PeerOK(t)
         /\ t.index = r.index /\ t.own = r.own /\ t.startIndex = r.startIndex /\ t.state = r.state
         /\ t.stopped = r.stopped
<1> DEFINE t == SetRngState(r, rng)
           S == 1 .. MaxIndex \cup {None}
<1>1. CASE r.offline \/ rng < r.startIndex
  BY <1>1 DEF SetRngState
<1>2. CASE ~(r.offline \/ rng < r.startIndex)
  <2>1. PICK slot \in Nat : slot = (rng - r.startIndex) + 1
    BY <1>2, MaxIndexType DEF PeerOK, NetplayPeer
  <2>2. PICK old \in Seq(S) : old = r.rngStates
    BY DEF PeerOK, NetplayPeer
  <2>3. PICK n \in Nat : n = (IF slot > Len(old) THEN slot ELSE Len(old)) /\ slot <= n /\ Len(old) <= n
    BY <2>1, <2>2
  <2> DEFINE new == [k \in 1 .. n |-> IF k = slot THEN rng ELSE IF k <= Len(old) THEN old[k] ELSE None]
  <2>4. \A k \in 1 .. n : (IF k = slot THEN rng ELSE IF k <= Len(old) THEN old[k] ELSE None) \in S
    <3>1. rng \in S /\ None \in S
      OBVIOUS
    <3> HIDE DEF S
    <3>2. \A k \in 1 .. n : k <= Len(old) => old[k] \in S
      BY <2>2
    <3> QED
      BY <3>1, <3>2
  <2>5. new \in Seq(S)
    <3> HIDE DEF S
    <3> QED
      BY <2>3, <2>4, IsASeq
  <2>6. t = [r EXCEPT !.rngStates = new]
    BY <1>2, <2>1, <2>2, <2>3 DEF SetRngState
  <2> HIDE DEF t, new
  <2>7. /\ t \in NetplayPeer
        /\ t.index = r.index /\ t.own = r.own /\ t.startIndex = r.startIndex /\ t.state = r.state
        /\ t.stopped = r.stopped /\ t.scene = r.scene /\ t.shouldSync = r.shouldSync
    BY <2>5, <2>6 DEF PeerOK, NetplayPeer
  <2> QED
    BY <2>7 DEF PeerOK, t
<1> QED
  BY <1>1, <1>2

-----------------------------------------------------------------------------
(* Messages.                                                               *)

\* Indexes are counted from the first change of the state on.
LEMMA FirstIndex ==
  ASSUME NEW r, PeerOK(r), r.state # "Initial"
  PROVE  r.index \in 1 .. MaxIndex
<1>1. r.index # 0
  BY DEF PeerOK
<1>2. r.index \in 0 .. MaxIndex
  BY DEF PeerOK, NetplayPeer
<1> QED
  BY <1>1, <1>2, MaxIndexType

\* What getInputs returns is a PlayerInputs message.
LEMMA GetInputsType ==
  ASSUME NEW r, PeerOK(r), r.index \in 1 .. MaxIndex
  PROVE  GetInputs(r) \in MessageType
<1>1. PICK i \in Nat : i = r.index - r.startIndex
  BY MaxIndexType DEF PeerOK, NetplayPeer
<1>2. r.own \in InputsType /\ Len(r.own) \in Nat
  BY HistoryFields DEF PeerOK, NetplayPeer
<1>3. NewestEndFrame(r.own) \in Nat
  <2>1. CASE Len(r.own) = 0
    BY <2>1 DEF NewestEndFrame, EndFrame
  <2>2. CASE Len(r.own) # 0
    <3>1. Len(r.own) \in 1 .. Len(r.own) /\ (Len(r.own) - 1) + 1 = Len(r.own) /\ Len(r.own) - 1 < Len(r.own)
      BY <1>2, <2>2
    <3>2. Len(r.own[Len(r.own)]) \in Nat
      BY <1>2, <3>1, HistoryFields
    <3> QED
      BY <3>1, <3>2 DEF NewestEndFrame, EndFrame
  <2> QED
    BY <2>1, <2>2
<1>4. PICK end \in Int : end = NewestEndFrame(r.own) - 1 /\ end + 1 >= 0
  BY <1>3
<1>5. StartFrame(end) \in Nat /\ Size(end) \in Int
  BY <1>4, NumInputsAssumption DEF StartFrame, Size
<1>6. PICK window \in Seq({0, 1}) : window = Window(r.own, i, StartFrame(end), Size(end))
  BY <1>1, <1>2, <1>5, WindowType DEF Input
<1>7. GetInputs(r) = [type |-> "PlayerInputs", index |-> r.index, start |-> StartFrame(end), inputs |-> window]
  BY <1>1, <1>4, <1>6 DEF GetInputs
<1> QED
  BY <1>5, <1>6, <1>7 DEF MessageType

\* Whatever arrives leaves the peer in its index and does not touch its inputs.
LEMMA SocketReadFields ==
  ASSUME NEW r, PeerOK(r), NEW msg \in MessageType
  PROVE  LET t == SocketRead(r, msg) IN
         /\ PeerOK(t)
         /\ t.index = r.index /\ t.own = r.own /\ t.startIndex = r.startIndex /\ t.state = r.state
         /\ t.stopped = r.stopped
<1> DEFINE t == SocketRead(r, msg)
<1>1. ASSUME NEW remote \in InputsType, t = [r EXCEPT !.remote = remote]
      PROVE  /\ PeerOK(t)
             /\ t.index = r.index /\ t.own = r.own /\ t.startIndex = r.startIndex /\ t.state = r.state
             /\ t.stopped = r.stopped
  <2> HIDE DEF t
  <2>1. /\ t \in NetplayPeer
        /\ t.index = r.index /\ t.own = r.own /\ t.startIndex = r.startIndex /\ t.state = r.state
        /\ t.stopped = r.stopped /\ t.scene = r.scene /\ t.shouldSync = r.shouldSync
    BY <1>1 DEF PeerOK, NetplayPeer
  <2> QED
    BY <2>1 DEF PeerOK
<1>2. r.remote \in InputsType /\ r.startIndex \in Nat /\ r.index \in Nat
  BY MaxIndexType DEF PeerOK, NetplayPeer
<1>3. CASE msg.type = "PlayerInputs"
  <2>1. msg.index \in Nat /\ msg.start \in Nat /\ msg.inputs \in Seq(Input)
    BY <1>3, MaxIndexType DEF MessageType, Input
  <2>2. t = SetInputs(r, msg)
    BY <1>3 DEF SocketRead
  <2>3. CASE msg.index + 1 < r.index \/ msg.index < r.startIndex
    BY <2>2, <2>3 DEF SetInputs
  <2>4. CASE ~(msg.index + 1 < r.index \/ msg.index < r.startIndex)
    <3>1. PICK i \in Nat : i = msg.index - r.startIndex
      BY <2>1, <2>4, <1>2
    <3>2. PICK remote : remote = SetWindow(r.remote, i, msg.start, msg.inputs)
      OBVIOUS
    <3>3. remote \in InputsType
      <4>1. Extends(remote, r.remote, i)
        BY ONLY <1>2, <2>1, <3>1, <3>2, SetWindowFields
      <4> QED
        BY <4>1 DEF Extends
    <3>4. t = [r EXCEPT !.remote = remote]
      BY <2>2, <2>4, <3>1, <3>2 DEF SetInputs
    <3> QED
      BY <1>1, <3>3, <3>4
  <2> QED
    BY <2>3, <2>4
<1>4. CASE msg.type = "TransitionIndex"
  <2>1. msg.index \in Nat
    BY <1>4, MaxIndexType DEF MessageType
  <2>2. t = SetRemoteIndex(r, msg)
    BY <1>4 DEF SocketRead
  <2>3. CASE msg.index < r.startIndex
    BY <2>2, <2>3 DEF SetRemoteIndex
  <2>4. CASE ~(msg.index < r.startIndex)
    <3>1. PICK i \in Nat : i = msg.index - r.startIndex
      BY <2>1, <2>4, <1>2
    <3>2. PICK zero \in Nat : zero = 0
      OBVIOUS
    <3>3. PICK remote : remote = Resize(r.remote, i, zero, zero)
      OBVIOUS
    <3>4. remote \in InputsType
      <4>1. Extends(remote, r.remote, i)
        BY ONLY <1>2, <3>1, <3>2, <3>3, ResizeFields
      <4> QED
        BY <4>1 DEF Extends
    <3>5. t = [r EXCEPT !.remote = remote]
      BY <2>2, <2>4, <3>1, <3>2, <3>3 DEF SetRemoteIndex
    <3> QED
      BY <1>1, <3>4, <3>5
  <2> QED
    BY <2>3, <2>4
<1>5. CASE msg.type = "RngState"
  <2>1. msg.index \in 1 .. MaxIndex
    BY <1>5 DEF MessageType
  <2>2. t = SetRngState(r, msg.index)
    BY <1>5 DEF SocketRead
  <2> QED
    BY <2>1, <2>2, SetRngStateFields
<1>6. CASE msg.type = "MenuIndex"
  <2>1. msg.menu \in {0, 1}
    BY <1>6 DEF MessageType
  <2>2. t = [r EXCEPT !.remoteMenu = msg.menu]
    BY <1>6 DEF SocketRead
  <2> HIDE DEF t
  <2>3. /\ t \in NetplayPeer
        /\ t.index = r.index /\ t.own = r.own /\ t.startIndex = r.startIndex /\ t.state = r.state
        /\ t.stopped = r.stopped /\ t.scene = r.scene /\ t.shouldSync = r.shouldSync
    BY <2>1, <2>2 DEF PeerOK, NetplayPeer
  <2> QED
    BY <2>3 DEF PeerOK, t
<1>7. msg.type \in {"PlayerInputs", "TransitionIndex", "RngState", "MenuIndex"}
  BY DEF MessageType
<1> QED
  BY <1>3, <1>4, <1>5, <1>6, <1>7

\* A new index is announced by a TransitionIndex.
LEMMA AnnouncedType ==
  ASSUME NEW r, NEW s, PeerOK(s), s.index # r.index => s.index \in 1 .. MaxIndex
  PROVE  Announced(r, s) \in Seq(MessageType)
<1> DEFINE msg == [type |-> "TransitionIndex", index |-> s.index]
<1>1. CASE s.index # r.index
  <2>1. msg \in MessageType
    BY <1>1 DEF MessageType
  <2>2. Announced(r, s) = <<msg>>
    BY <1>1 DEF Announced
  <2> HIDE DEF msg
  <2> QED
    BY <2>1, <2>2
<1>2. CASE s.index = r.index
  BY <1>2 DEF Announced
<1> QED
  BY <1>1, <1>2

\* What else is sent in a frame are a MenuIndex and an RngState.
LEMMA OutgoingType ==
  ASSUME NEW p, NEW r, PeerOK(r), ~r.stopped
  PROVE  Outgoing(p, r) \in Seq(MessageType)
<1> DEFINE menu == [type |-> "MenuIndex", index |-> r.index, menu |-> r.localMenu]
           rng == [type |-> "RngState", index |-> r.index]
           A == IF r.state = "RetryMenu" /\ r.localMenu # None /\ ~r.menuSent THEN <<menu>> ELSE << >>
           B == IF p = Host /\ r.shouldSync /\ r.state # "RetryMenu" THEN <<rng>> ELSE << >>
<1>1. r.index \in 0 .. MaxIndex /\ MaxIndex \in Nat
  BY MaxIndexType DEF PeerOK, NetplayPeer
<1>2. A \in Seq(MessageType)
  <2>1. CASE r.state = "RetryMenu" /\ r.localMenu # None /\ ~r.menuSent
    <3>1. r.localMenu \in {0, 1} /\ r.index \in 1 .. MaxIndex
      BY <1>1, <2>1 DEF PeerOK, NetplayPeer
    <3>2. menu \in MessageType
      BY <3>1 DEF MessageType
    <3> HIDE DEF menu
    <3> QED
      BY <2>1, <3>2
  <2>2. CASE ~(r.state = "RetryMenu" /\ r.localMenu # None /\ ~r.menuSent)
    BY <2>2
  <2> QED
    BY <2>1, <2>2
<1>3. B \in Seq(MessageType)
  <2>1. CASE p = Host /\ r.shouldSync /\ r.state # "RetryMenu"
    <3>1. r.index \in 1 .. MaxIndex
      BY <1>1, <2>1 DEF PeerOK
    <3>2. rng \in MessageType
      BY <3>1 DEF MessageType
    <3> HIDE DEF rng
    <3> QED
      BY <2>1, <3>2
  <2>2. CASE ~(p = Host /\ r.shouldSync /\ r.state # "RetryMenu")
    BY <2>2
  <2> QED
    BY <2>1, <2>2
<1>4. Outgoing(p, r) = A \o B
  BY DEF Outgoing
<1> HIDE DEF A, B
<1> QED
  BY <1>2, <1>3, <1>4, ConcatProperties

\* Sending leaves the peer in its index, with its inputs.
LEMMA SentFields ==
  ASSUME NEW p, NEW r, PeerOK(r), ~r.stopped
  PROVE  LET t == Sent(p, r) IN
         /\ PeerOK(t)
         /\ t.index = r.index /\ t.own = r.own /\ t.startIndex = r.startIndex /\ t.state = r.state
<1> DEFINE t == Sent(p, r)
<1>1. ASSUME NEW stopped \in BOOLEAN, NEW lazy \in BOOLEAN, NEW menuSent \in BOOLEAN, r.stopped => stopped,
             t = [r EXCEPT !.stopped = stopped, !.lazy = lazy, !.menuSent = menuSent]
      PROVE  /\ PeerOK(t)
             /\ t.index = r.index /\ t.own = r.own /\ t.startIndex = r.startIndex /\ t.state = r.state
  <2> HIDE DEF t
  <2>1. /\ t \in NetplayPeer
        /\ t.index = r.index /\ t.own = r.own /\ t.startIndex = r.startIndex /\ t.state = r.state
        /\ t.stopped = stopped /\ t.scene = r.scene /\ t.shouldSync = r.shouldSync
    <3>1. r \in NetplayPeer
      BY DEF PeerOK
    <3>2. t \in NetplayPeer
      BY ONLY <3>1, <1>1 DEF NetplayPeer
    <3>3. /\ t.index = r.index /\ t.own = r.own /\ t.startIndex = r.startIndex /\ t.state = r.state
          /\ t.stopped = stopped /\ t.scene = r.scene /\ t.shouldSync = r.shouldSync
      BY ONLY <3>1, <1>1 DEF NetplayPeer
    <3> QED
      BY <3>2, <3>3
  <2> QED
    BY <2>1, <1>1 DEF PeerOK
<1>2. r.menuSent \in BOOLEAN /\ r.lazy \in BOOLEAN /\ r.stopped \in BOOLEAN
  BY DEF PeerOK, NetplayPeer
<1>3. CASE r.state = "RetryMenu" /\ r.localMenu # None /\ ~r.connected /\ r.lazy
  <2>1. t = [r EXCEPT !.stopped = TRUE, !.lazy = FALSE, !.menuSent = r.menuSent]
    BY <1>3 DEF Sent, Stop, PeerOK, NetplayPeer
  <2> QED
    BY <1>1, <1>2, <2>1
<1>4. CASE r.state = "RetryMenu" /\ r.localMenu # None /\ ~r.connected /\ ~r.lazy
  BY <1>4 DEF Sent
<1>5. CASE r.state = "RetryMenu" /\ ~(r.localMenu # None /\ ~r.connected)
  <2>1. PICK menuSent \in BOOLEAN : menuSent = (r.menuSent \/ r.localMenu # None)
    OBVIOUS
  <2>2. t = [r EXCEPT !.menuSent = menuSent]
    BY <1>5, <2>1 DEF Sent
  <2>3. t = [r EXCEPT !.stopped = r.stopped, !.lazy = r.lazy, !.menuSent = menuSent]
    BY <2>2 DEF PeerOK, NetplayPeer
  <2> QED
    BY <1>1, <1>2, <2>3
<1>6. CASE r.state # "RetryMenu" /\ p = Host /\ r.shouldSync
  <2> DEFINE u == SetRngState(r, r.index)
  <2>1. r.index \in 1 .. MaxIndex
    BY <1>6, MaxIndexType DEF PeerOK, NetplayPeer
  <2>2. /\ PeerOK(u)
        /\ u.index = r.index /\ u.own = r.own /\ u.startIndex = r.startIndex /\ u.state = r.state
        /\ u.stopped = r.stopped
    BY <2>1, SetRngStateFields
  <2>3. t = [u EXCEPT !.shouldSync = FALSE, !.rng = r.index]
    BY <1>6 DEF Sent
  <2> HIDE DEF u, t
  <2>4. r.index \in -2 .. MaxIndex
    BY <2>1, MaxIndexType
  <2>5. /\ t \in NetplayPeer
        /\ t.index = u.index /\ t.own = u.own /\ t.startIndex = u.startIndex /\ t.state = u.state
        /\ t.stopped = u.stopped /\ t.scene = u.scene /\ t.shouldSync = FALSE
    BY <2>2, <2>3, <2>4 DEF PeerOK, NetplayPeer
  <2> QED
    BY <2>2, <2>5 DEF PeerOK, t
<1>7. CASE r.state # "RetryMenu" /\ ~(p = Host /\ r.shouldSync)
  BY <1>7 DEF Sent
<1> QED
  BY <1>3, <1>4, <1>5, <1>6, <1>7

-----------------------------------------------------------------------------
(* The invariant.                                                          *)

\* AfterFrame of a peer in any state
AfterFrameOf(p, r, in, choice, delay) == Played(Synced(p, r), in, choice, delay)

TypeInv ==
    /\ peer \in [Peers -> NetplayPeer]
    /\ inbox \in [Peers -> Seq(MessageType)]
    /\ burst \in [Peers -> 0 .. MaxBurst]
    /\ \A p \in Peers : PeerOK(peer[p]) /\ OwnIsCurrent(peer[p])

\* Typed messages are sent, or lost as often as the bound allows.
LEMMA SendTypes ==
  ASSUME TypeInv, NEW p \in Peers,
         NEW first \in Seq(MessageType), NEW window \in Seq(MessageType), NEW last \in Seq(MessageType),
         Send(p, first, window, last)
  PROVE  inbox' \in [Peers -> Seq(MessageType)] /\ burst' \in [Peers -> 0 .. MaxBurst]
<1> DEFINE Arrive(msgs) ==
             inbox' = IF peer[p].connected /\ peer[Other(p)].connected
                        THEN [inbox EXCEPT ![Other(p)] = inbox[Other(p)] \o msgs] ELSE inbox
<1>1. ASSUME NEW msgs \in Seq(MessageType), Arrive(msgs)
      PROVE  inbox' \in [Peers -> Seq(MessageType)]
  <2>1. Other(p) \in Peers
    BY DEF Other, Peers
  <2>2. inbox[Other(p)] \o msgs \in Seq(MessageType)
    BY <2>1, ConcatProperties DEF TypeInv
  <2> QED
    BY <1>1, <2>1, <2>2 DEF TypeInv
<1>2. burst[p] \in 0 .. MaxBurst /\ MaxBurst \in Nat
  BY SessionAssumption DEF TypeInv
<1>3. first \o last \in Seq(MessageType) /\ (first \o window) \o last \in Seq(MessageType)
  BY ConcatProperties
<1>4. CASE window = << >>
  <2>1. Arrive(first \o last) /\ burst' = burst
    BY <1>4 DEF Send
  <2> QED
    BY <2>1, <1>1, <1>3 DEF TypeInv
<1>5. CASE window # << >>
  <2>1. \/ Arrive((first \o window) \o last) /\ burst' = [burst EXCEPT ![p] = 0]
        \/ burst[p] < MaxBurst /\ Arrive(first \o last) /\ burst' = [burst EXCEPT ![p] = burst[p] + 1]
    BY <1>5 DEF Send
  <2>2. inbox' \in [Peers -> Seq(MessageType)]
    <3> HIDE DEF Arrive
    <3> QED
      BY <2>1, <1>1, <1>3
  <2>3. burst' \in [Peers -> 0 .. MaxBurst]
    <3>1. CASE burst' = [burst EXCEPT ![p] = 0]
      BY <3>1, <1>2 DEF TypeInv
    <3>2. CASE burst[p] < MaxBurst /\ burst' = [burst EXCEPT ![p] = burst[p] + 1]
      <4>1. PICK n \in 0 .. MaxBurst : n = burst[p] + 1
        BY <1>2, <3>2
      <4>2. burst' = [burst EXCEPT ![p] = n]
        BY <3>2, <4>1
      <4> QED
        BY <4>1, <4>2 DEF TypeInv
    <3> QED
      BY <2>1, <3>1, <3>2
  <2> QED
    BY <2>2, <2>3
<1> QED
  BY <1>4, <1>5

\* A peer that becomes a sound one leaves the other alone.
LEMMA PeerBecomes ==
  ASSUME TypeInv, NEW p \in Peers, NEW r, PeerOK(r), OwnIsCurrent(r),
         peer' = [peer EXCEPT ![p] = r]
  PROVE  peer' \in [Peers -> NetplayPeer] /\ \A q \in Peers : PeerOK(peer'[q]) /\ OwnIsCurrent(peer'[q])
<1>1. r \in NetplayPeer
  BY DEF PeerOK
<1>2. \A q \in Peers : peer'[q] = IF q = p THEN r ELSE peer[q]
  BY DEF TypeInv
<1> QED
  BY <1>1, <1>2 DEF TypeInv

\* A peer stays current if its index and its inputs stay.
LEMMA InputsAreCurrent ==
  ASSUME NEW r, NEW s, OwnIsCurrent(r),
         s.index = r.index, s.own = r.own, s.startIndex = r.startIndex, s.state = r.state
  PROVE  OwnIsCurrent(s)
  BY DEF OwnIsCurrent

\* A peer that plays a frame has not reached the last index.
LEMMA BoundIndex ==
  ASSUME NEW r, r \in NetplayPeer, ~AtBound(r)
  PROVE  r.index < MaxIndex
<1>1. r.index \in Nat /\ MaxIndexVersus \in Nat /\ MaxIndexTraining \in Nat
  BY MaxIndexType, SessionAssumption DEF NetplayPeer
<1>2. r.index < IF r.versus THEN MaxIndexVersus ELSE MaxIndexTraining
  BY <1>1 DEF AtBound
<1> QED
  BY <1>1, <1>2, MaxIndexType

\* The parts of a frame, from the peer that plays it to the one that waits for
\* the next.
LEMMA FrameParts ==
  ASSUME NEW p \in Peers, NEW old, PeerOK(old), OwnIsCurrent(old), ~old.stopped, ~AtBound(old),
         NEW in, NEW choice \in MenuChoices(old), NEW delay \in DelaysOf(old),
         NEW r, r = AfterFrameOf(p, old, in, choice, delay),
         NEW s, s = Changed(r), NEW input \in Presses(s), NEW t, t = Pressed(p, s, input)
  PROVE  /\ PeerOK(r) /\ PeerOK(s) /\ PeerOK(t) /\ OwnIsCurrent(t)
         /\ s.stopped => OwnIsCurrent(s)
         /\ r.index = old.index /\ s.index \in {r.index, r.index + 1} /\ t.index = s.index
         /\ t.state = s.state /\ t.stopped = s.stopped
         /\ s.index # r.index => s.index \in 1 .. MaxIndex
<1> DEFINE synced == Synced(p, old)
<1>1. /\ PeerOK(synced)
      /\ synced.index = old.index /\ synced.own = old.own /\ synced.startIndex = old.startIndex
      /\ synced.state = old.state /\ synced.stopped = old.stopped
  BY SyncedFields
<1>2. choice \in {None, 0, 1}
  BY DEF MenuChoices
<1>3. delay \in Delays \cup {0}
  BY DEF DelaysOf, PeerOK, NetplayPeer
<1>4. r = Played(synced, in, choice, delay)
  BY DEF AfterFrameOf
<1> HIDE DEF synced
<1>5. /\ PeerOK(r)
      /\ r.index = old.index /\ r.own = old.own /\ r.startIndex = old.startIndex /\ r.state = old.state
      /\ r.stopped = old.stopped
  BY <1>1, <1>2, <1>3, <1>4, PlayedFields
<1>6. OwnIsCurrent(r)
  BY <1>5, InputsAreCurrent
<1>7. r.index < MaxIndex
  BY <1>5, BoundIndex DEF PeerOK
<1>8. /\ PeerOK(s)
      /\ s.index \in {r.index, r.index + 1}
      /\ s.index # r.index => s.state # "Initial" /\ Len(s.own) <= s.index - s.startIndex
      /\ s.index = r.index => s.own = r.own /\ s.startIndex = r.startIndex /\ s.state = r.state
      /\ s.stopped => r.stopped \/ s.index = r.index
  BY <1>5, <1>7, ChangedFields
<1>9. s.index = r.index => OwnIsCurrent(s)
  BY <1>6, <1>8, InputsAreCurrent
<1>10. input \in Input
  BY DEF Presses, Input
<1>11. /\ PeerOK(t) /\ OwnIsCurrent(t)
       /\ t.index = s.index /\ t.startIndex = s.startIndex /\ t.state = s.state /\ t.stopped = s.stopped
  BY <1>8, <1>9, <1>10, PressedFields
<1>12. s.index # r.index => s.index \in 1 .. MaxIndex
  BY <1>7, <1>8, MaxIndexType DEF PeerOK, NetplayPeer
<1> QED
  BY <1>5, <1>8, <1>9, <1>11, <1>12

\* A frame keeps the invariant.
LEMMA FrameTypeInv ==
  ASSUME TypeInv, NEW p \in Peers, Frame(p)
  PROVE  TypeInv'
<1> DEFINE old == peer[p]
<1>1. PeerOK(old) /\ OwnIsCurrent(old) /\ ~old.stopped /\ ~AtBound(old)
  BY DEF TypeInv, Frame
<1>2. PICK in \in {Inputs(p, old)}, rng \in {Synced(p, old).rng},
           choice \in MenuChoices(old), delay \in DelaysOf(old) :
       \E r \in {AfterFrame(p, in, choice, delay)} : \E s \in {Changed(r)} :
       \E input \in Presses(s) : \E t \in {Pressed(p, s, input)} :
         IF s.stopped
           THEN peer' = [peer EXCEPT ![p] = s] /\ UNCHANGED <<inbox, burst, log>>
           ELSE /\ peer' = [peer EXCEPT ![p] = Sent(p, t)]
                /\ Send(p, Announced(r, s), WindowOf(t), Outgoing(p, t))
                /\ log' = IF s.disconnected THEN log ELSE Logged(p, FramePlayed(old, in, rng), s)
  BY Zenon DEF Frame
<1>3. PICK r : /\ r = AfterFrame(p, in, choice, delay)
               /\ \E s \in {Changed(r)} :
                  \E input \in Presses(s) : \E t \in {Pressed(p, s, input)} :
                    IF s.stopped
                      THEN peer' = [peer EXCEPT ![p] = s] /\ UNCHANGED <<inbox, burst, log>>
                      ELSE /\ peer' = [peer EXCEPT ![p] = Sent(p, t)]
                           /\ Send(p, Announced(r, s), WindowOf(t), Outgoing(p, t))
                           /\ log' = IF s.disconnected THEN log ELSE Logged(p, FramePlayed(old, in, rng), s)
  BY <1>2, Zenon
<1>4. PICK s : /\ s = Changed(r)
               /\ \E input \in Presses(s) : \E t \in {Pressed(p, s, input)} :
                    IF s.stopped
                      THEN peer' = [peer EXCEPT ![p] = s] /\ UNCHANGED <<inbox, burst, log>>
                      ELSE /\ peer' = [peer EXCEPT ![p] = Sent(p, t)]
                           /\ Send(p, Announced(r, s), WindowOf(t), Outgoing(p, t))
                           /\ log' = IF s.disconnected THEN log ELSE Logged(p, FramePlayed(old, in, rng), s)
  BY <1>3, Zenon
<1>4a. PICK input \in Presses(s) :
          \E t \in {Pressed(p, s, input)} :
            IF s.stopped
              THEN peer' = [peer EXCEPT ![p] = s] /\ UNCHANGED <<inbox, burst, log>>
              ELSE /\ peer' = [peer EXCEPT ![p] = Sent(p, t)]
                   /\ Send(p, Announced(r, s), WindowOf(t), Outgoing(p, t))
                   /\ log' = IF s.disconnected THEN log ELSE Logged(p, FramePlayed(old, in, rng), s)
  BY <1>4, Zenon
<1>5. PICK t :
         /\ t = Pressed(p, s, input)
         /\ IF s.stopped
              THEN peer' = [peer EXCEPT ![p] = s] /\ UNCHANGED <<inbox, burst, log>>
              ELSE /\ peer' = [peer EXCEPT ![p] = Sent(p, t)]
                   /\ Send(p, Announced(r, s), WindowOf(t), Outgoing(p, t))
                   /\ log' = IF s.disconnected THEN log ELSE Logged(p, FramePlayed(old, in, rng), s)
  BY <1>4a, Zenon
<1>6. r = AfterFrameOf(p, old, in, choice, delay)
  BY <1>3 DEF AfterFrame, AfterFrameOf
<1> HIDE DEF old
<1>7. /\ PeerOK(r) /\ PeerOK(s) /\ PeerOK(t) /\ OwnIsCurrent(t)
      /\ s.stopped => OwnIsCurrent(s)
      /\ r.index = old.index /\ s.index \in {r.index, r.index + 1} /\ t.index = s.index
      /\ t.state = s.state /\ t.stopped = s.stopped
      /\ s.index # r.index => s.index \in 1 .. MaxIndex
  BY <1>1, <1>2, <1>4, <1>4a, <1>5, <1>6, FrameParts
<1>8. CASE s.stopped
  <2>1. peer' = [peer EXCEPT ![p] = s] /\ inbox' = inbox /\ burst' = burst
    BY <1>5, <1>8
  <2>2. peer' \in [Peers -> NetplayPeer] /\ \A q \in Peers : PeerOK(peer'[q]) /\ OwnIsCurrent(peer'[q])
    BY <1>7, <1>8, <2>1, PeerBecomes
  <2> QED
    BY <2>1, <2>2 DEF TypeInv
<1>9. CASE ~s.stopped
  <2>1. peer' = [peer EXCEPT ![p] = Sent(p, t)] /\ Send(p, Announced(r, s), WindowOf(t), Outgoing(p, t))
    BY <1>5, <1>9
  <2>2. PICK u : u = Sent(p, t)
    OBVIOUS
  <2>3. /\ PeerOK(u)
        /\ u.index = t.index /\ u.own = t.own /\ u.startIndex = t.startIndex /\ u.state = t.state
    BY <1>7, <1>9, <2>2, SentFields
  <2>4. OwnIsCurrent(u)
    BY <1>7, <2>3, InputsAreCurrent
  <2>5. peer' \in [Peers -> NetplayPeer] /\ \A q \in Peers : PeerOK(peer'[q]) /\ OwnIsCurrent(peer'[q])
    BY <2>1, <2>2, <2>3, <2>4, PeerBecomes
  <2>6. Announced(r, s) \in Seq(MessageType) /\ Outgoing(p, t) \in Seq(MessageType)
    BY <1>7, <1>9, AnnouncedType, OutgoingType
  <2>7. WindowOf(t) \in Seq(MessageType)
    <3>1. CASE t.state \in {"Initial", "RetryMenu"}
      BY <3>1 DEF WindowOf
    <3>2. CASE t.state \notin {"Initial", "RetryMenu"}
      <4>1. t.index \in 1 .. MaxIndex
        BY <1>7, <3>2, FirstIndex
      <4>2. PICK msg \in MessageType : msg = GetInputs(t)
        BY <1>7, <4>1, GetInputsType
      <4>3. WindowOf(t) = <<msg>>
        BY <3>2, <4>2 DEF WindowOf
      <4> QED
        BY <4>2, <4>3
    <3> QED
      BY <3>1, <3>2
  <2>8. inbox' \in [Peers -> Seq(MessageType)] /\ burst' \in [Peers -> 0 .. MaxBurst]
    BY <2>1, <2>6, <2>7, SendTypes
  <2> QED
    BY <2>5, <2>8 DEF TypeInv
<1> QED
  BY <1>8, <1>9

\* A resend keeps the invariant.
LEMMA ResendTypeInv ==
  ASSUME TypeInv, NEW p \in Peers, Resend(p)
  PROVE  TypeInv'
<1>1. peer' = peer /\ Send(p, << >>, <<GetInputs(peer[p])>>, << >>)
  BY DEF Resend
<1>2. PeerOK(peer[p]) /\ peer[p].state # "Initial"
  BY DEF TypeInv, Resend, Ready, RemoteInputReady, RngStateReady, Lockstep
<1>3. peer[p].index \in 1 .. MaxIndex
  BY <1>2, FirstIndex
<1>4. PICK msg \in MessageType : msg = GetInputs(peer[p])
  BY <1>2, <1>3, GetInputsType
<1>5. << >> \in Seq(MessageType) /\ <<msg>> \in Seq(MessageType)
  BY <1>4
<1>6. inbox' \in [Peers -> Seq(MessageType)] /\ burst' \in [Peers -> 0 .. MaxBurst]
  BY <1>1, <1>4, <1>5, SendTypes
<1> QED
  BY <1>1, <1>6 DEF TypeInv

\* A message that arrives keeps the invariant.
LEMMA DeliverTypeInv ==
  ASSUME TypeInv, NEW p \in Peers, NEW k \in 1 .. Len(inbox[p]), Deliver(p, k)
  PROVE  TypeInv'
<1>1. PICK queue \in Seq(MessageType) : queue = inbox[p]
  BY DEF TypeInv
<1>2. PICK n \in Nat : n = Len(queue) /\ k \in 1 .. n
  BY <1>1
<1>3. queue[k] \in MessageType
  BY <1>1, <1>2
<1>4. PICK r : r = SocketRead(peer[p], queue[k])
  OBVIOUS
<1>5. PeerOK(peer[p]) /\ OwnIsCurrent(peer[p])
  BY DEF TypeInv
<1>6. /\ PeerOK(r)
      /\ r.index = peer[p].index /\ r.own = peer[p].own /\ r.startIndex = peer[p].startIndex
      /\ r.state = peer[p].state
  BY <1>3, <1>4, <1>5, SocketReadFields
<1>7. OwnIsCurrent(r)
  BY <1>5, <1>6, InputsAreCurrent
<1>8. peer' = [peer EXCEPT ![p] = r]
  BY <1>1, <1>4 DEF Deliver
<1>9. peer' \in [Peers -> NetplayPeer] /\ \A q \in Peers : PeerOK(peer'[q]) /\ OwnIsCurrent(peer'[q])
  BY <1>6, <1>7, <1>8, PeerBecomes
<1>10. SubSeq(queue, 1, k - 1) \o SubSeq(queue, k + 1, n) \in Seq(MessageType)
  <2>1. \A j \in 1 .. n : queue[j] \in MessageType
    BY <1>1, <1>2
  <2>2. SubSeq(queue, 1, k - 1) \in Seq(MessageType)
    BY <1>2, <2>1, SubSeqProperties
  <2>3. SubSeq(queue, k + 1, n) \in Seq(MessageType)
    BY <1>2, <2>1, SubSeqProperties
  <2> QED
    BY <2>2, <2>3, ConcatProperties
<1>11. inbox' = [inbox EXCEPT ![p] = SubSeq(queue, 1, k - 1) \o SubSeq(queue, k + 1, n)] /\ burst' = burst
  BY <1>1, <1>2 DEF Deliver
<1>12. inbox' \in [Peers -> Seq(MessageType)]
  BY <1>10, <1>11 DEF TypeInv
<1> QED
  BY <1>9, <1>11, <1>12 DEF TypeInv

SameMembers(r, s) ==
    /\ r.index = s.index /\ r.own = s.own /\ r.startIndex = s.startIndex
    /\ r.state = s.state /\ r.stopped = s.stopped /\ r.shouldSync = s.shouldSync

\* A lost data socket keeps the invariant.
LEMMA DisconnectTypeInv ==
  ASSUME TypeInv, NEW p \in Peers, Disconnect(p)
  PROVE  TypeInv'
<1>1. PeerOK(peer[p]) /\ OwnIsCurrent(peer[p])
  BY DEF TypeInv
<1> DEFINE old == [peer[p] EXCEPT !.connected = FALSE]
           alone == [old EXCEPT !.disconnected = TRUE]
           scene == IF alone.state = "CharaSelect" THEN NoScene ELSE "CharaSelect"
<1>2. PICK r : r = IF old.lazy THEN old
                   ELSE IF p = Host THEN [alone EXCEPT !.offline = TRUE, !.delay = 0, !.scene = scene]
                   ELSE alone
  OBVIOUS
<1>3. /\ old \in NetplayPeer /\ SameMembers(old, peer[p]) /\ old.scene = peer[p].scene
      /\ alone \in NetplayPeer /\ SameMembers(alone, peer[p]) /\ alone.scene = peer[p].scene
  BY <1>1 DEF PeerOK, NetplayPeer, SameMembers
<1>4. scene \in Scenes /\ scene # "IntroDone"
  BY DEF Scenes, States, NoScene
<1>5. peer' = [peer EXCEPT ![p] = r] /\ burst' = burst /\ inbox' = [inbox EXCEPT ![p] = << >>]
  BY <1>2 DEF Disconnect, RestoreOfflineGameMode
<1> HIDE DEF old, alone, scene
<1>5a. [alone EXCEPT !.offline = TRUE, !.delay = 0, !.scene = scene] \in NetplayPeer
  BY <1>3, <1>4 DEF NetplayPeer
<1>5b. LET t == [alone EXCEPT !.offline = TRUE, !.delay = 0, !.scene = scene] IN
       SameMembers(t, peer[p]) /\ t.scene = scene
  BY <1>3 DEF NetplayPeer, SameMembers
<1>5c. r \in NetplayPeer /\ SameMembers(r, peer[p]) /\ (r.scene = peer[p].scene \/ r.scene # "IntroDone")
  BY <1>2, <1>3, <1>4, <1>5a, <1>5b
<1>6. PeerOK(r) /\ OwnIsCurrent(r)
  BY <1>1, <1>5c, InputsAreCurrent DEF PeerOK, SameMembers
<1>7. peer' \in [Peers -> NetplayPeer] /\ \A q \in Peers : PeerOK(peer'[q]) /\ OwnIsCurrent(peer'[q])
  BY <1>5, <1>6, PeerBecomes
<1>8. inbox' \in [Peers -> Seq(MessageType)]
  BY <1>5 DEF TypeInv
<1> QED
  BY <1>5, <1>7, <1>8 DEF TypeInv

\* The invariant holds when the games are started.
LEMMA TypeInit ==
  ASSUME Init
  PROVE  TypeInv
<1>1. PICK delay \in Delays, versus \in BOOLEAN : peer = [p \in Peers |-> Fresh(p, delay, versus)]
  BY DEF Init
<1>2. ASSUME NEW p \in Peers
      PROVE  PeerOK(Fresh(p, delay, versus)) /\ OwnIsCurrent(Fresh(p, delay, versus))
  <2> DEFINE r == Fresh(p, delay, versus)
  <2>1. << >> \in InputsType
    BY DEF InputsType
  <2>2. OwnRng(p) \in -2 .. MaxIndex
    BY MaxIndexType DEF OwnRng
  <2>3. 0 \in 0 .. MaxIndex
    BY MaxIndexType
  <2>4. r \in NetplayPeer
    BY <2>1, <2>2, <2>3 DEF Fresh, NetplayPeer, States, Scenes, None
  <2>5. /\ r.index = 0 /\ r.startIndex = 0 /\ r.own = << >> /\ r.state = "Initial"
        /\ r.shouldSync = FALSE /\ r.scene = "CharaSelect"
    BY DEF Fresh
  <2> QED
    BY <2>4, <2>5 DEF PeerOK, OwnIsCurrent
<1>3. inbox \in [Peers -> Seq(MessageType)]
  BY DEF Init
<1>4. burst \in [Peers -> 0 .. MaxBurst]
  BY SessionAssumption DEF Init
<1>5. peer \in [Peers -> NetplayPeer] /\ \A p \in Peers : PeerOK(peer[p]) /\ OwnIsCurrent(peer[p])
  BY <1>1, <1>2 DEF PeerOK
<1> QED
  BY <1>3, <1>4, <1>5 DEF TypeInv

\* Every step keeps the invariant.
LEMMA TypeStep ==
  ASSUME TypeInv, [Next]_vars
  PROVE  TypeInv'
<1>1. CASE UNCHANGED vars
  BY <1>1 DEF TypeInv, vars
<1>2. CASE Next
  <2>1. PICK p \in Peers : \/ Frame(p) \/ Resend(p) \/ Disconnect(p)
                           \/ \E k \in 1 .. Len(inbox[p]) : Deliver(p, k)
    BY <1>2 DEF Next
  <2>2. CASE Frame(p)
    BY <2>2, FrameTypeInv
  <2>3. CASE Resend(p)
    BY <2>3, ResendTypeInv
  <2>4. CASE Disconnect(p)
    BY <2>4, DisconnectTypeInv
  <2>5. CASE \E k \in 1 .. Len(inbox[p]) : Deliver(p, k)
    BY <2>5, DeliverTypeInv
  <2> QED
    BY <2>1, <2>2, <2>3, <2>4, <2>5
<1> QED
  BY <1>1, <1>2

\* The invariant holds in every state.
LEMMA TypeInvIsInvariant == Spec => []TypeInv
<1>1. Init => TypeInv
  BY TypeInit
<1>2. TypeInv /\ [Next]_vars => TypeInv'
  BY TypeStep
<1> QED
  BY <1>1, <1>2, PTL DEF Spec

\* The members of DllMain and NetplayManager keep their types, and every message
\* that is sent is one of netplay/Messages.hpp.
THEOREM TypeCorrect == Spec => []TypeOK
<1>1. TypeInv => TypeOK
  <2> SUFFICES ASSUME TypeInv
               PROVE  TypeOK
    OBVIOUS
  <2>1. \A p \in Peers : peer[p] \in PeerType
    BY NetplayPeerType DEF TypeInv
  <2>2. \A p \in Peers : \A k \in DOMAIN inbox[p] : inbox[p][k] \in MessageType
    BY DEF TypeInv
  <2> QED
    BY <2>1, <2>2 DEF TypeOK, TypeInv
<1> QED
  BY <1>1, TypeInvIsInvariant, PTL

\* What getInputs asserts: whenever a peer sends a window, the newest index of its
\* own inputs is the index it is in, whatever was erased, delayed or received before.
THEOREM WindowAlwaysCurrent == Spec => []WindowIsCurrent
<1>1. TypeInv => WindowIsCurrent
  <2> SUFFICES ASSUME TypeInv, NEW p \in Peers, peer[p].state \notin {"Initial", "RetryMenu"}
               PROVE  /\ peer[p].startIndex + EndIndex(peer[p].own) - 1 = peer[p].index
                      /\ NewestEndFrame(peer[p].own) >= 1
    BY DEF WindowIsCurrent
  <2>1. PICK own \in InputsType : own = peer[p].own /\ Len(own) \in Nat
    BY HistoryFields DEF TypeInv, NetplayPeer
  <2>2. PICK n \in Nat : n = Len(own)
    BY <2>1
  <2>3. peer[p].index \in Nat /\ peer[p].startIndex \in Nat /\ peer[p].startIndex <= peer[p].index
    BY MaxIndexType DEF TypeInv, NetplayPeer, PeerOK
  <2>4. n = (peer[p].index - peer[p].startIndex) + 1 /\ Len(own[n]) >= 1
    BY <2>1, <2>2 DEF TypeInv, OwnIsCurrent
  <2>5. n - 1 < n /\ (n - 1) + 1 = n /\ n >= 1
    BY <2>2, <2>3, <2>4
  <2>6. NewestEndFrame(own) = Len(own[n])
    BY <2>2, <2>5 DEF NewestEndFrame, EndFrame
  <2> QED
    BY <2>1, <2>2, <2>3, <2>4, <2>6 DEF EndIndex
<1> QED
  BY <1>1, TypeInvIsInvariant, PTL
=============================================================================

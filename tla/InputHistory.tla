---------------------------- MODULE InputHistory ----------------------------
(***************************************************************************)
(* The inputs of one player, by transition index and frame: the container  *)
(* of netplay/InputsContainer.hpp, and the windows that are cut from it.   *)
(*                                                                         *)
(* A history is a sequence of indexes, each of them a sequence of inputs.  *)
(* The code counts both from 0 and relative to _startIndex, and so do the  *)
(* operators below: input f of index i is history[i + 1][f + 1].           *)
(***************************************************************************)
EXTENDS Integers, Sequences

CONSTANT NumInputs     \* NUM_INPUTS, the length of a window, 30 in the code

ASSUME NumInputsAssumption == NumInputs \in Nat \ {0}

\* The input that stands for an unknown one.
NoInput == 0

EndIndex(history) == Len(history)

EndFrame(history, i) == IF i < Len(history) THEN Len(history[i + 1]) ELSE 0

\* getEndFrame() without an index: that of the newest one.
NewestEndFrame(history) == EndFrame(history, Len(history) - 1)

LastOf(inputs) == inputs[Len(inputs)]

\* The last input known before index i.
LastInputBefore(history, i) ==
  LET known == {j \in 1 .. Len(history) : j <= i /\ history[j] # << >>} IN
  IF known = {} THEN NoInput
  ELSE LastOf(history[CHOOSE j \in known : \A k \in known : k <= j])

\* get: an input that is not known is taken to be the last one that is.
Get(history, i, f) ==
  IF EndFrame(history, i) = 0 THEN LastInputBefore(history, i)
  ELSE IF f >= EndFrame(history, i) THEN LastOf(history[i + 1])
  ELSE history[i + 1][f + 1]

\* Room for inputs up to frame f + n of index i.  The gap is filled with the
\* last input of that index or, when the index is new, of those before it.
Resize(history, i, f, n) ==
  LET last == IF i >= Len(history) THEN LastInputBefore(history, Len(history))
              ELSE IF history[i + 1] # << >> THEN LastOf(history[i + 1])
              ELSE NoInput
      Grown(inputs) == [k \in 1 .. IF f + n > Len(inputs) THEN f + n ELSE Len(inputs) |->
                          IF k <= Len(inputs) THEN inputs[k] ELSE last]
  IN [j \in 1 .. IF i >= Len(history) THEN i + 1 ELSE Len(history) |->
        IF j = i + 1 THEN Grown(IF j <= Len(history) THEN history[j] ELSE << >>)
        ELSE IF j <= Len(history) THEN history[j]
        ELSE << >>]

\* set: one input, which is kept if there is one already.
Set(history, i, f, input) ==
  IF f < EndFrame(history, i) THEN history
  ELSE [Resize(history, i, f, 1) EXCEPT ![i + 1][f + 1] = input]

\* set: a window of inputs, which replaces what is there.
SetWindow(history, i, f, window) ==
  [Resize(history, i, f, Len(window)) EXCEPT ![i + 1] =
     [k \in DOMAIN @ |-> IF k - f \in DOMAIN window THEN window[k - f] ELSE @[k]]]

\* get: a window.  The code asserts that all of its inputs are there.
Window(history, i, f, n) ==
  IF i < Len(history) /\ f + n <= Len(history[i + 1]) THEN SubSeq(history[i + 1], f + 1, f + n)
  ELSE << >>

\* Wrong: inputs of the indexes before i are kept.
EraseNothing(history, i) == history

\* When nothing newer than index i is there, index i goes too.
EraseIndexOlderThan(history, i) ==
  IF i + 1 >= Len(history) THEN << >> ELSE SubSeq(history, i + 1, Len(history))

\* A window ends with the frame that labels it.
StartFrame(frame) == IF frame + 1 < NumInputs THEN 0 ELSE frame + 1 - NumInputs
Size(frame) == frame + 1 - StartFrame(frame)
=============================================================================

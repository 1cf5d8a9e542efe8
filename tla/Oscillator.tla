----------------------------- MODULE Oscillator -----------------------------
(***************************************************************************)
(* calibrate_oscillator of oscillator.c: a binary search over OSCCAL for   *)
(* the frame length that USB needs, then a look at the two neighbours of   *)
(* what it found.  The driver calls it, with interrupts off, at the end of *)
(* every USB reset, so a search that does not end is a dead device.        *)
(*                                                                         *)
(* usbMeasureFrameLength (external) is a function of OSCCAL, chosen once:  *)
(* the oscillator does not drift during the search.                        *)
(***************************************************************************)
EXTENDS Integers

CONSTANTS
  RegisterBase,   \* values of OSCCAL: 256
  FirstStep,      \* 128
  target_value,   \* 2356
  Frames          \* what usbMeasureFrameLength may be, per value of OSCCAL

Register == 0 .. RegisterBase - 1

(* What an unsigned char holds of powers of two.                           *)
Steps == {1, 2, 4, 8, 16, 32, 64, 128}

ASSUME OscillatorAssumption ==
  /\ FirstStep \in Steps /\ RegisterBase = 2 * FirstStep
  /\ target_value \in Nat
  /\ Frames \subseteq [Register -> Nat]

VARIABLES
  frame,                        \* usbMeasureFrameLength
  phase,                        \* "search", "neighbours" or "done"
  OSCCAL, step, trial_value, optimum_value, optimum_dev

vars == <<frame, phase, OSCCAL, step, trial_value, optimum_value, optimum_dev>>

Init ==
  /\ frame \in Frames
  /\ phase = "search"
  /\ OSCCAL \in Register
  /\ step = FirstStep /\ trial_value = 0
  /\ optimum_value = 0 /\ optimum_dev = 0
-----------------------------------------------------------------------------
(* Mutant: a frame of the target's length counts as too short.             *)
TooShortOrEqual(length) == length <= target_value

TooShort(length) == length < target_value

FirstNeighbour(trial) == (trial - 1) % RegisterBase

(* One round of the binary search.                                         *)
Tried == (trial_value + step) % RegisterBase
TrialAfter == IF TooShort(frame[Tried]) THEN Tried ELSE trial_value

SearchOn ==
  /\ phase = "search" /\ step > 1
  /\ OSCCAL' = Tried
  /\ trial_value' = TrialAfter
  /\ step' = step \div 2
  /\ UNCHANGED <<frame, phase, optimum_value, optimum_dev>>

(* The last round, and what precedes the second loop.  optimum_dev starts  *)
(* with a frame length, which is more than any deviation.                  *)
SearchEnds ==
  /\ phase = "search" /\ step = 1
  /\ trial_value' = TrialAfter
  /\ step' = 0
  /\ optimum_value' = TrialAfter
  /\ optimum_dev' = frame[Tried]
  /\ OSCCAL' = FirstNeighbour(TrialAfter)
  /\ phase' = "neighbours"
  /\ UNCHANGED frame

(* The bound of the second loop is an int, the register wraps.             *)
(* Mutant: the neighbour above is left out.                                *)
MoreBelow == OSCCAL < trial_value + 1

MoreNeighbours == OSCCAL <= trial_value + 1

Deviation(v) ==
  IF frame[v] < target_value THEN target_value - frame[v]
  ELSE frame[v] - target_value

TryNeighbour ==
  /\ phase = "neighbours" /\ MoreNeighbours
  /\ IF Deviation(OSCCAL) < optimum_dev
     THEN optimum_dev' = Deviation(OSCCAL) /\ optimum_value' = OSCCAL
     ELSE UNCHANGED <<optimum_dev, optimum_value>>
  /\ OSCCAL' = (OSCCAL + 1) % RegisterBase
  /\ UNCHANGED <<frame, phase, step, trial_value>>

Settle ==
  /\ phase = "neighbours" /\ ~ MoreNeighbours
  /\ OSCCAL' = optimum_value
  /\ phase' = "done"
  /\ UNCHANGED <<frame, step, trial_value, optimum_value, optimum_dev>>

Next == SearchOn \/ SearchEnds \/ TryNeighbour \/ Settle

Spec == Init /\ [][Next]_vars /\ WF_vars(Next)
-----------------------------------------------------------------------------
(* On an oscillator whose frame length grows with OSCCAL and meets the     *)
(* target within the register, and is not less than half of it anywhere,   *)
(* the search settles on the best value there is.                          *)
Rising == \A v, w \in Register : v <= w => frame[v] <= frame[w]
InRange ==
  /\ frame[1] < target_value /\ target_value <= frame[RegisterBase - 1]
  /\ \A v \in Register : 2 * frame[v] > target_value

FindsOptimum ==
  phase = "done" /\ Rising /\ InRange =>
    \A v \in Register : Deviation(OSCCAL) <= Deviation(v)

(* The search ends on any oscillator that is fast enough at the last two   *)
(* values of the register.  On one that is not, trial_value may be one of  *)
(* them; every value of the register is then within the bound of the       *)
(* second loop, which goes round it for ever.                              *)
FastEnough ==
  \A v \in {RegisterBase - 2, RegisterBase - 1} : target_value <= frame[v]

CalibrationEnds == FastEnough => <>(phase = "done")
=============================================================================

-------------------------- MODULE ArithmeticProofs --------------------------
(***************************************************************************)
(* The two calculations are right for every input.                         *)
(*                                                                         *)
(* The search for OSCCAL finds the best value there is, for any target and *)
(* any register of up to eight bits.  The binary search keeps the target   *)
(* between two values of the register, whatever the oscillator; the rest   *)
(* is about one that rises through the target: the value below and the     *)
(* value above it are the best from either side, and the second loop       *)
(* compares them.                                                          *)
(*                                                                         *)
(* The checksum is the remainder of the division, for every message, width *)
(* of a byte, polynomial and initial value, and tells apart any two        *)
(* messages that differ in one byte.  Both are inductions, over the bytes  *)
(* of a message and the bits of a word (see module Loops).                 *)
(***************************************************************************)
EXTENDS MCArithmetic, Loops, FiniteSetTheorems, FunctionTheorems

TypeInv ==
  /\ frame \in [Register -> Nat]
  /\ phase \in {"search", "neighbours", "done"}
  /\ OSCCAL \in Register /\ trial_value \in Register /\ optimum_value \in Register
  /\ step \in Steps \union {0}
  /\ optimum_dev \in Nat

(* The value is not below trial_value, and below trial_value + 2 * step.   *)
Between(low, high) ==
  /\ high <= RegisterBase
  /\ low = 0 \/ frame[low] < target_value
  /\ high = RegisterBase \/ target_value <= frame[high]

SearchInv ==
  /\ phase = "search" => step # 0 /\ Between(trial_value, trial_value + 2 * step)
  /\ phase = "neighbours" => Between(trial_value, trial_value + 1)

(* The second loop keeps the best of the values that it has measured; the  *)
(* first is better than what optimum_dev starts with.                      *)
Measured == trial_value - 1 .. OSCCAL - 1

NeighbourInv ==
  phase = "neighbours" /\ Rising /\ InRange =>
    \/ trial_value + 1 = RegisterBase - 1
    \/ OSCCAL = trial_value - 1 /\ Deviation(OSCCAL) < optimum_dev
    \/ /\ OSCCAL \in trial_value .. trial_value + 2
       /\ optimum_dev = Deviation(optimum_value)
       /\ \A v \in Measured : optimum_dev <= Deviation(v)

OscillatorInv == TypeInv /\ SearchInv /\ NeighbourInv /\ FindsOptimum
-----------------------------------------------------------------------------
LEMMA RegisterIs ==
  /\ RegisterBase \in Nat /\ RegisterBase >= 2 /\ target_value \in Nat
  /\ Register = 0 .. RegisterBase - 1 /\ 0 \in Register /\ 1 \in Register
BY OscillatorAssumption DEF Steps, Register

LEMMA StepHalves ==
  ASSUME NEW s \in Steps, s > 1
  PROVE  s \div 2 \in Steps /\ 2 * (s \div 2) = s
BY DEF Steps

LEMMA StepsAreNaturals == \A s \in Steps : s \in Nat /\ s >= 1
BY DEF Steps

(* The search stays within the register: no sum of it wraps.               *)
LEMMA TriedDoesNotWrap ==
  ASSUME TypeInv, step \in Steps, Between(trial_value, trial_value + 2 * step)
  PROVE  Tried = trial_value + step /\ Tried \in Register
<1>1. /\ trial_value \in Nat /\ step \in Nat /\ step >= 1
      /\ trial_value + 2 * step <= RegisterBase
  BY RegisterIs, StepsAreNaturals DEF TypeInv, Between
<1>2. trial_value + step \in 0 .. RegisterBase - 1
  BY <1>1, RegisterIs
<1>3. (trial_value + step) % RegisterBase = trial_value + step
  BY <1>2, RegisterIs
<1>. QED BY <1>2, <1>3, RegisterIs DEF Tried

(* A round halves the interval that the value is known to be in.           *)
LEMMA RoundHalves ==
  ASSUME TypeInv, step \in Steps, Between(trial_value, trial_value + 2 * step)
  PROVE  TrialAfter \in Register /\ Between(TrialAfter, TrialAfter + step)
<1>1. Tried = trial_value + step /\ Tried \in Register
  BY TriedDoesNotWrap
<1>2. /\ trial_value \in Nat /\ trial_value \in Register /\ step \in Nat /\ step >= 1
      /\ frame \in [Register -> Nat]
  BY RegisterIs, StepsAreNaturals DEF TypeInv
<1>3. CASE TooShort(frame[Tried])
  <2>1. TrialAfter = trial_value + step
    BY <1>1, <1>3 DEF TrialAfter
  <2>2. TrialAfter + step = trial_value + 2 * step
    BY <2>1, <1>2
  <2>3. frame[TrialAfter] < target_value
    BY <1>1, <1>3, <2>1 DEF TooShort
  <2>. QED BY <1>1, <2>1, <2>2, <2>3 DEF Between
<1>4. CASE ~ TooShort(frame[Tried])
  <2>1. TrialAfter = trial_value
    BY <1>4 DEF TrialAfter
  <2>2. target_value <= frame[trial_value + step]
    BY <1>1, <1>2, <1>4, RegisterIs DEF TooShort
  <2>3. trial_value + step <= RegisterBase
    BY <1>1, RegisterIs
  <2>. QED BY <1>2, <2>1, <2>2, <2>3 DEF Between
<1>. QED BY <1>3, <1>4

(* Between(v, v + 1) where the target is: v and v + 1 are registers.       *)
LEMMA BetweenIsInside ==
  ASSUME TypeInv, InRange, NEW v \in Register, Between(v, v + 1)
  PROVE  /\ v >= 1 /\ v + 1 \in Register
         /\ frame[v] < target_value /\ target_value <= frame[v + 1]
<1>1. frame \in [Register -> Nat] /\ v \in Nat /\ v <= RegisterBase - 1
  BY RegisterIs DEF TypeInv
<1>2. RegisterBase - 1 \in Register
  BY RegisterIs
<1>3. frame[1] \in Nat /\ frame[v] \in Nat /\ frame[RegisterBase - 1] \in Nat
  BY <1>1, <1>2, RegisterIs
<1>4. v # 0
  <2>1. SUFFICES ASSUME v = 0 PROVE FALSE
    OBVIOUS
  <2>2. 1 = RegisterBase \/ target_value <= frame[1]
    BY <2>1 DEF Between
  <2>. QED BY <2>2, <1>3, RegisterIs DEF InRange
<1>5. frame[v] < target_value
  BY <1>4 DEF Between
<1>6. v + 1 # RegisterBase
  <2>1. SUFFICES ASSUME v + 1 = RegisterBase PROVE FALSE
    OBVIOUS
  <2>2. v = RegisterBase - 1
    BY <2>1, <1>1, RegisterIs
  <2>. QED BY <2>2, <1>3, <1>5, RegisterIs DEF InRange
<1>. QED BY <1>1, <1>4, <1>5, <1>6, RegisterIs DEF Between

LEMMA DeviationIsNatural ==
  ASSUME TypeInv, NEW v \in Register
  PROVE  Deviation(v) \in Nat
<1>1. frame[v] \in Nat
  BY DEF TypeInv
<1>. QED BY <1>1, RegisterIs DEF Deviation

(* Any frame length from trial_value - 1 up is more than its deviation.    *)
LEMMA FirstNeighbourIsBetter ==
  ASSUME TypeInv, Rising, InRange, NEW v \in Register, v >= 1, frame[v] < target_value,
         NEW w \in Register, v <= w
  PROVE  v - 1 \in Register /\ Deviation(v - 1) < frame[w]
<1>1. v - 1 \in Register /\ v - 1 <= v /\ v - 1 <= w /\ v \in Int
  BY RegisterIs
<1>2. frame[v - 1] <= frame[v] /\ frame[v - 1] <= frame[w]
  BY <1>1 DEF Rising
<1>3. frame[v - 1] \in Nat /\ frame[v] \in Nat /\ frame[w] \in Nat
  BY <1>1 DEF TypeInv
<1>4. frame[v - 1] < target_value /\ 2 * frame[v - 1] > target_value
  BY <1>1, <1>2, <1>3, RegisterIs DEF InRange
<1>5. Deviation(v - 1) = target_value - frame[v - 1]
  BY <1>4 DEF Deviation
<1>. QED BY <1>1, <1>2, <1>3, <1>4, <1>5, RegisterIs

(* The two values about the target are the best from either side.          *)
LEMMA BestOfTwo ==
  ASSUME TypeInv, Rising, NEW v \in Register, v + 1 \in Register,
         frame[v] < target_value, target_value <= frame[v + 1],
         NEW w \in Register
  PROVE  Deviation(v) <= Deviation(w) \/ Deviation(v + 1) <= Deviation(w)
<1>1. v \in Int /\ w \in Int
  BY RegisterIs
<1>2. frame[v] \in Nat /\ frame[v + 1] \in Nat /\ frame[w] \in Nat
  BY DEF TypeInv
<1>3. CASE w <= v
  <2>1. frame[w] <= frame[v]
    BY <1>3 DEF Rising
  <2>. QED BY <2>1, <1>2, RegisterIs DEF Deviation
<1>4. CASE v + 1 <= w
  <2>1. frame[v + 1] <= frame[w]
    BY <1>4 DEF Rising
  <2>. QED BY <2>1, <1>2, RegisterIs DEF Deviation
<1>. QED BY <1>1, <1>3, <1>4
-----------------------------------------------------------------------------
LEMMA OscillatorInit == Init => OscillatorInv
<1>. SUFFICES ASSUME Init PROVE OscillatorInv
  OBVIOUS
<1>1. FirstStep \in Steps /\ FirstStep # 0
  BY OscillatorAssumption, StepsAreNaturals
<1>2. TypeInv
  BY <1>1, RegisterIs, OscillatorAssumption DEF Init, TypeInv
<1>3. Between(0, 0 + 2 * FirstStep)
  BY <1>1, OscillatorAssumption, StepsAreNaturals DEF Between
<1>4. SearchInv
  BY <1>1, <1>3 DEF Init, SearchInv
<1>. QED BY <1>2, <1>4 DEF Init, OscillatorInv, NeighbourInv, FindsOptimum

(* The interval of the next state's trial_value is judged by the same      *)
(* frame lengths.                                                          *)
LEMMA SearchOnKeeps == OscillatorInv /\ SearchOn => OscillatorInv'
<1>. SUFFICES ASSUME OscillatorInv, SearchOn PROVE OscillatorInv'
  OBVIOUS
<1>1. TypeInv /\ SearchInv /\ step \in Steps /\ phase = "search" /\ step > 1
  BY DEF OscillatorInv, TypeInv, SearchOn, SearchInv
<1>2. Between(trial_value, trial_value + 2 * step)
  BY <1>1 DEF SearchInv
<1>3. TrialAfter \in Register /\ Between(TrialAfter, TrialAfter + step)
  BY <1>1, <1>2, RoundHalves
<1>4. Tried \in Register
  BY <1>1, <1>2, TriedDoesNotWrap
<1>5. step' \in Steps /\ 2 * step' = step /\ step' # 0
  BY <1>1, StepHalves, StepsAreNaturals DEF SearchOn
<1>6. TypeInv'
  BY <1>1, <1>3, <1>4, <1>5 DEF TypeInv, SearchOn
<1>7. SearchInv'
  <2>1. /\ trial_value' = TrialAfter /\ frame' = frame /\ phase' = "search"
    BY <1>1 DEF SearchOn
  <2>2. trial_value' + 2 * step' = TrialAfter + step
    BY <2>1, <1>5
  <2>3. Between(trial_value, trial_value + 2 * step)'
    BY <1>3, <2>1, <2>2 DEF Between
  <2>. QED BY <2>1, <2>3, <1>5 DEF SearchInv
<1>8. phase' = "search"
  BY <1>1 DEF SearchOn
<1>. QED BY <1>6, <1>7, <1>8 DEF OscillatorInv, NeighbourInv, FindsOptimum

LEMMA SearchEndsKeeps == OscillatorInv /\ SearchEnds => OscillatorInv'
<1>. SUFFICES ASSUME OscillatorInv, SearchEnds PROVE OscillatorInv'
  OBVIOUS
<1>1. TypeInv /\ SearchInv /\ step = 1 /\ step \in Steps /\ phase = "search"
  BY DEF OscillatorInv, SearchEnds, Steps
<1>2. Between(trial_value, trial_value + 2 * step)
  BY <1>1 DEF SearchInv
<1>3. TrialAfter \in Register /\ Between(TrialAfter, TrialAfter + 1)
  BY <1>1, <1>2, RoundHalves
<1>4. Tried = trial_value + 1 /\ Tried \in Register
  BY <1>1, <1>2, TriedDoesNotWrap
<1>5. /\ frame' = frame /\ trial_value' = TrialAfter /\ step' = 0
      /\ optimum_value' = TrialAfter /\ optimum_dev' = frame[Tried]
      /\ OSCCAL' = FirstNeighbour(TrialAfter) /\ phase' = "neighbours"
  BY DEF SearchEnds
<1>6. FirstNeighbour(TrialAfter) \in Register
  BY <1>3, RegisterIs DEF FirstNeighbour
<1>7. frame[Tried] \in Nat
  BY <1>1, <1>4 DEF TypeInv
<1>8. TypeInv'
  BY <1>1, <1>3, <1>5, <1>6, <1>7 DEF TypeInv
<1>9. SearchInv'
  BY <1>3, <1>5 DEF SearchInv, Between
<1>10. ASSUME Rising, InRange
       PROVE  OSCCAL' = trial_value' - 1 /\ Deviation(TrialAfter - 1) < optimum_dev'
  <2>1. /\ TrialAfter >= 1 /\ TrialAfter + 1 \in Register
        /\ frame[TrialAfter] < target_value
    BY <1>1, <1>3, <1>10, BetweenIsInside
  <2>2. TrialAfter <= Tried
    BY <1>4, RegisterIs, <1>1 DEF TrialAfter, TypeInv
  <2>3. TrialAfter - 1 \in Register /\ Deviation(TrialAfter - 1) < frame[Tried]
    BY <1>1, <1>3, <1>4, <1>10, <2>1, <2>2, FirstNeighbourIsBetter
  <2>4. FirstNeighbour(TrialAfter) = TrialAfter - 1
    BY <2>3, RegisterIs DEF FirstNeighbour
  <2>. QED BY <1>5, <2>3, <2>4
<1>11. NeighbourInv'
  <2>1. SUFFICES ASSUME Rising', InRange'
                 PROVE  (OSCCAL = trial_value - 1 /\ Deviation(OSCCAL) < optimum_dev)'
    BY DEF NeighbourInv
  <2>2. Rising /\ InRange
    BY <1>5, <2>1 DEF Rising, InRange
  <2>3. OSCCAL' = TrialAfter - 1
    BY <1>5, <1>10, <2>2
  <2>4. Deviation(TrialAfter - 1) < optimum_dev'
    BY <1>10, <2>2
  <2>5. (Deviation(OSCCAL))' = Deviation(TrialAfter - 1)
    BY <1>5, <2>3 DEF Deviation
  <2>. QED BY <1>5, <2>3, <2>4, <2>5
<1>. QED BY <1>5, <1>8, <1>9, <1>11 DEF OscillatorInv, FindsOptimum

LEMMA TryNeighbourKeeps == OscillatorInv /\ TryNeighbour => OscillatorInv'
<1>. SUFFICES ASSUME OscillatorInv, TryNeighbour PROVE OscillatorInv'
  OBVIOUS
<1>1. /\ TypeInv /\ SearchInv /\ NeighbourInv /\ phase = "neighbours"
      /\ OSCCAL \in Register /\ trial_value \in Register
  BY DEF OscillatorInv, TryNeighbour, TypeInv
<1>2. /\ frame' = frame /\ phase' = "neighbours" /\ step' = step
      /\ trial_value' = trial_value
      /\ OSCCAL' = (OSCCAL + 1) % RegisterBase
      /\ OSCCAL <= trial_value + 1
  BY <1>1 DEF TryNeighbour, MoreNeighbours
<1>3. Deviation(OSCCAL) \in Nat /\ optimum_dev \in Nat
  BY <1>1, DeviationIsNatural DEF TypeInv
<1>4. \/ /\ Deviation(OSCCAL) < optimum_dev
         /\ optimum_dev' = Deviation(OSCCAL) /\ optimum_value' = OSCCAL
      \/ /\ ~ (Deviation(OSCCAL) < optimum_dev)
         /\ optimum_dev' = optimum_dev /\ optimum_value' = optimum_value
  BY DEF TryNeighbour
<1>5. OSCCAL' \in Register
  BY <1>1, <1>2, RegisterIs
<1>6. TypeInv'
  BY <1>1, <1>2, <1>3, <1>4, <1>5 DEF TypeInv
<1>7. SearchInv'
  BY <1>1, <1>2 DEF SearchInv, Between
<1>8. \A v : Deviation(v)' = Deviation(v)
  BY <1>2 DEF Deviation
<1>9. NeighbourInv'
  <2>1. SUFFICES ASSUME Rising', InRange', trial_value + 1 # RegisterBase - 1
                 PROVE  (/\ OSCCAL \in trial_value .. trial_value + 2
                         /\ optimum_dev = Deviation(optimum_value)
                         /\ \A v \in Measured : optimum_dev <= Deviation(v))'
    BY <1>2 DEF NeighbourInv
  <2>2. Rising /\ InRange
    BY <1>2, <2>1 DEF Rising, InRange
  <2>3. trial_value >= 1 /\ trial_value + 1 \in Register
    BY <1>1, <2>2, BetweenIsInside DEF SearchInv
  <2>4. \/ OSCCAL = trial_value - 1 /\ Deviation(OSCCAL) < optimum_dev
        \/ /\ OSCCAL \in trial_value .. trial_value + 2
           /\ optimum_dev = Deviation(optimum_value)
           /\ \A v \in Measured : optimum_dev <= Deviation(v)
    BY <1>1, <2>1, <2>2 DEF NeighbourInv
  <2>5. OSCCAL' = OSCCAL + 1 /\ OSCCAL' \in trial_value .. trial_value + 2
    BY <1>1, <1>2, <2>1, <2>3, <2>4, RegisterIs
  <2>6. Measured' = trial_value - 1 .. OSCCAL
    BY <1>1, <1>2, <2>5, RegisterIs DEF Measured
  <2>7. \A v \in trial_value - 1 .. OSCCAL : v \in Register
    BY <1>1, <2>3, RegisterIs
  <2>8. /\ optimum_dev' = Deviation(optimum_value')
        /\ \A v \in trial_value - 1 .. OSCCAL : optimum_dev' <= Deviation(v)
    <3>1. CASE OSCCAL = trial_value - 1 /\ Deviation(OSCCAL) < optimum_dev
      <4>1. optimum_dev' = Deviation(OSCCAL) /\ optimum_value' = OSCCAL
        BY <3>1, <1>4
      <4>2. \A v \in trial_value - 1 .. OSCCAL : v = OSCCAL
        BY <3>1, <1>1, RegisterIs
      <4>. QED BY <4>1, <4>2, <1>3
    <3>2. CASE /\ OSCCAL \in trial_value .. trial_value + 2
               /\ optimum_dev = Deviation(optimum_value)
               /\ \A v \in Measured : optimum_dev <= Deviation(v)
      <4>1. optimum_dev' = Deviation(optimum_value')
        BY <3>2, <1>4
      <4>2. optimum_dev' <= optimum_dev /\ optimum_dev' <= Deviation(OSCCAL) /\ optimum_dev' \in Nat
        BY <1>3, <1>4
      <4>3. ASSUME NEW v \in trial_value - 1 .. OSCCAL
            PROVE  optimum_dev' <= Deviation(v)
        <5>1. v = OSCCAL \/ v \in Measured
          BY <1>1, RegisterIs DEF Measured
        <5>2. Deviation(v) \in Nat
          BY <1>1, <2>7, DeviationIsNatural
        <5>3. v \in Measured => optimum_dev <= Deviation(v)
          BY <3>2
        <5>. QED BY <5>1, <5>2, <5>3, <4>2, <1>3
      <4>. QED BY <4>1, <4>3
    <3>. QED BY <2>4, <3>1, <3>2
  <2>9. (Deviation(optimum_value))' = Deviation(optimum_value')
    BY <1>2 DEF Deviation
  <2>. QED BY <1>2, <1>8, <2>5, <2>6, <2>8, <2>9
<1>. QED BY <1>2, <1>6, <1>7, <1>9 DEF OscillatorInv, FindsOptimum

LEMMA SettleKeeps == OscillatorInv /\ Settle => OscillatorInv'
<1>. SUFFICES ASSUME OscillatorInv, Settle PROVE OscillatorInv'
  OBVIOUS
<1>1. /\ TypeInv /\ SearchInv /\ NeighbourInv /\ phase = "neighbours"
      /\ OSCCAL \in Register /\ trial_value \in Register /\ optimum_value \in Register
      /\ ~ (OSCCAL <= trial_value + 1)
  BY DEF OscillatorInv, Settle, TypeInv, MoreNeighbours
<1>2. /\ frame' = frame /\ phase' = "done" /\ OSCCAL' = optimum_value /\ step' = step
      /\ trial_value' = trial_value /\ optimum_value' = optimum_value
      /\ optimum_dev' = optimum_dev
  BY DEF Settle
<1>3. TypeInv'
  BY <1>1, <1>2 DEF TypeInv
<1>4. FindsOptimum'
  <2>1. SUFFICES ASSUME Rising, InRange, NEW w \in Register
                 PROVE  Deviation(optimum_value) <= Deviation(w)
    BY <1>2 DEF FindsOptimum, Rising, InRange, Deviation
  <2>2. /\ trial_value >= 1 /\ trial_value + 1 \in Register
        /\ frame[trial_value] < target_value /\ target_value <= frame[trial_value + 1]
    BY <1>1, <2>1, BetweenIsInside DEF SearchInv
  <2>3. /\ OSCCAL \in trial_value .. trial_value + 2
        /\ optimum_dev = Deviation(optimum_value)
        /\ \A v \in Measured : optimum_dev <= Deviation(v)
    BY <1>1, <2>1, <2>2, RegisterIs DEF NeighbourInv
  <2>4. trial_value \in Measured /\ trial_value + 1 \in Measured
    BY <1>1, <2>3, RegisterIs DEF Measured
  <2>5. /\ Deviation(optimum_value) <= Deviation(trial_value)
        /\ Deviation(optimum_value) <= Deviation(trial_value + 1)
    BY <2>3, <2>4
  <2>6. \/ Deviation(trial_value) <= Deviation(w)
        \/ Deviation(trial_value + 1) <= Deviation(w)
    BY <1>1, <2>1, <2>2, BestOfTwo
  <2>7. /\ Deviation(optimum_value) \in Nat /\ Deviation(trial_value) \in Nat
        /\ Deviation(trial_value + 1) \in Nat /\ Deviation(w) \in Nat
    BY <1>1, <2>1, <2>2, DeviationIsNatural
  <2>. QED BY <2>5, <2>6, <2>7
<1>. QED BY <1>2, <1>3, <1>4 DEF OscillatorInv, SearchInv, NeighbourInv

LEMMA OscillatorStutters == OscillatorInv /\ UNCHANGED vars => OscillatorInv'
<1>. SUFFICES ASSUME OscillatorInv, UNCHANGED vars PROVE OscillatorInv'
  OBVIOUS
<1>1. TypeInv'
  BY DEF OscillatorInv, TypeInv, vars
<1>2. SearchInv'
  BY DEF OscillatorInv, SearchInv, Between, vars
<1>3. NeighbourInv'
  BY DEF OscillatorInv, NeighbourInv, Measured, Rising, InRange, Deviation, vars
<1>4. FindsOptimum'
  BY DEF OscillatorInv, FindsOptimum, Rising, InRange, Deviation, vars
<1>. QED BY <1>1, <1>2, <1>3, <1>4 DEF OscillatorInv
-----------------------------------------------------------------------------
(* calibrate_oscillator: on an oscillator that rises through the target,   *)
(* OSCCAL is left at a value that no value of the register is better than, *)
(* for every register of up to eight bits, target and oscillator.          *)
THEOREM CalibrationFindsOptimum == Spec => []FindsOptimum
<1>1. Init => OscillatorInv
  BY OscillatorInit
<1>2. OscillatorInv /\ [Next]_vars => OscillatorInv'
  BY SearchOnKeeps, SearchEndsKeeps, TryNeighbourKeeps, SettleKeeps, OscillatorStutters
  DEF Next
<1>3. OscillatorInv => FindsOptimum
  BY DEF OscillatorInv
<1>. QED BY <1>1, <1>2, <1>3, PTL DEF Spec
-----------------------------------------------------------------------------
(* The laws of powers of two.                                              *)
LEMMA PowerLaws ==
  /\ 2^0 = 1
  /\ \A n \in Nat : 2^n \in Nat /\ 2^n >= 1 /\ 2^(n + 1) = 2 * 2^n
<1>1. 2^0 = 1
  OBVIOUS
<1>2. ASSUME NEW n \in Nat
      PROVE  2^n \in Nat /\ 2^(n + 1) = 2 * 2^n
  <2> DEFINE A == SUBSET (1 .. n)
             C == {S \union {n + 1} : S \in A}
             f == [S \in A |-> S \union {n + 1}]
  <2>1. IsFiniteSet(1 .. n) /\ Cardinality(1 .. n) = n
    BY FS_Interval
  <2>2. IsFiniteSet(1 .. n + 1) /\ Cardinality(1 .. n + 1) = n + 1
    BY FS_Interval
  <2>3. IsFiniteSet(A) /\ Cardinality(A) = 2^n
    BY <2>1, FS_SUBSET
  <2>4. Cardinality(SUBSET (1 .. n + 1)) = 2^(n + 1)
    BY <2>2, FS_SUBSET
  <2>5. f \in Bijection(A, C)
    <3>1. f \in [A -> C]
      OBVIOUS
    <3>2. ASSUME NEW S \in A, NEW T \in A, f[S] = f[T] PROVE S = T
      <4>1. n + 1 \notin S /\ n + 1 \notin T
        OBVIOUS
      <4>. QED BY <3>2, <4>1
    <3>3. \A t \in C : \E s \in A : f[s] = t
      OBVIOUS
    <3>. QED BY <3>1, <3>2, <3>3, Fun_IsBij
  <2>6. IsFiniteSet(C) /\ Cardinality(C) = 2^n
    BY <2>3, <2>5, FS_Bijection DEF ExistsBijection
  <2>7. A \intersect C = {}
    <3>1. \A S \in A : n + 1 \notin S
      OBVIOUS
    <3>. QED BY <3>1
  <2>8. SUBSET (1 .. n + 1) = A \union C
    <3>1. ASSUME NEW S \in SUBSET (1 .. n + 1) PROVE S \in A \union C
      <4>1. CASE n + 1 \in S
        <5>1. S \ {n + 1} \in A /\ S = (S \ {n + 1}) \union {n + 1}
          BY <4>1
        <5>. QED BY <5>1
      <4>2. CASE n + 1 \notin S
        BY <4>2
      <4>. QED BY <4>1, <4>2
    <3>2. ASSUME NEW S \in A \union C PROVE S \in SUBSET (1 .. n + 1)
      OBVIOUS
    <3>. QED BY <3>1, <3>2
  <2>9. Cardinality(A \union C) = Cardinality(A) + Cardinality(C) - Cardinality({})
    <3>. HIDE DEF A, C
    <3>1. Cardinality(A \union C) = Cardinality(A) + Cardinality(C) - Cardinality(A \intersect C)
      BY <2>3, <2>6, FS_Union
    <3>. QED BY <3>1, <2>7
  <2>10. Cardinality({}) = 0 /\ Cardinality(A) \in Nat
    BY <2>3, FS_EmptySet, FS_CardinalityType
  <2>11. 2^(n + 1) = Cardinality(A \union C)
    BY <2>4, <2>8
  <2>. HIDE DEF A, C
  <2>12. 2^n \in Nat
    BY <2>3, <2>10
  <2>13. Cardinality(A \union C) = 2^n + 2^n - 0
    BY <2>3, <2>6, <2>9, <2>10
  <2>. QED BY <2>11, <2>12, <2>13
<1>3. \A n \in Nat : n \in {k \in Nat : 2^k >= 1}
  <2> DEFINE S == {k \in Nat : 2^k >= 1}
  <2>1. 0 \in S
    BY <1>1
  <2>2. \A n \in S : n + 1 \in S
    BY <1>2
  <2>3. S \in SUBSET Nat
    OBVIOUS
  <2>. HIDE DEF S
  <2>4. \A n \in Nat : n \in S
    BY <2>1, <2>2, <2>3, SetInduction
  <2>. QED BY <2>4 DEF S
<1>. QED BY <1>1, <1>2, <1>3
-----------------------------------------------------------------------------
(* The bits of a word.                                                     *)
LEMMA QuotientIs ==
  ASSUME NEW m \in Nat, m >= 1, NEW q \in Nat, NEW r \in Nat, r < m
  PROVE  (m * q + r) \div m = q
<1> DEFINE a == m * q + r
           p == a \div m
           e == a % m
<1>1. a \in Nat
  OBVIOUS
<1>2. p \in Int /\ e \in Int /\ 0 <= e /\ e < m /\ a = m * p + e
  BY <1>1
<1>3. m * (p - q) = r - e
  BY <1>2
<1>4. ~ (p - q >= 1)
  <2>1. SUFFICES ASSUME p - q >= 1 PROVE FALSE
    OBVIOUS
  <2>2. m * (p - q) >= m
    BY <2>1, <1>2
  <2>. QED BY <2>2, <1>2, <1>3
<1>5. ~ (q - p >= 1)
  <2>1. SUFFICES ASSUME q - p >= 1 PROVE FALSE
    OBVIOUS
  <2>2. m * (q - p) >= m
    BY <2>1, <1>2
  <2>3. m * (q - p) = e - r
    BY <1>2, <1>3
  <2>. QED BY <2>2, <2>3, <1>2
<1>. QED BY <1>2, <1>4, <1>5

LEMMA PowerSum ==
  ASSUME NEW i \in Nat
  PROVE  \A k \in Nat : 2^(i + k) = 2^i * 2^k
<1> DEFINE S == {k \in Nat : 2^(i + k) = 2^i * 2^k}
<1>1. 0 \in S
  <2>1. 2^i \in Nat /\ 2^0 = 1
    BY PowerLaws
  <2>. QED BY <2>1
<1>2. ASSUME NEW k \in S PROVE k + 1 \in S
  <2>1. 2^i \in Nat /\ 2^k \in Nat /\ 2^(k + 1) = 2 * 2^k
    BY PowerLaws
  <2>2. 2^(i + k + 1) = 2 * 2^(i + k)
    BY PowerLaws
  <2> DEFINE a == 2^i
             b == 2^k
  <2>3. 2^(i + k + 1) = 2 * (a * b)
    BY <2>2
  <2>4. 2 * (a * b) = a * (2 * b)
    <3>1. a \in Nat /\ b \in Nat
      BY <2>1
    <3>. HIDE DEF a, b
    <3>. QED BY <3>1
  <2>5. 2^(i + (k + 1)) = 2^i * 2^(k + 1)
    BY <2>1, <2>3, <2>4
  <2>. QED BY <2>5
<1>3. S \in SUBSET Nat
  OBVIOUS
<1>. HIDE DEF S
<1>4. \A k \in Nat : k \in S
  BY <1>1, <1>2, <1>3, SetInduction
<1>. QED BY <1>4 DEF S

LEMMA HigherPower ==
  ASSUME NEW i \in Nat, NEW n \in Nat, i < n
  PROVE  \E k \in Nat : 2^n = 2^i * (2 * k)
<1>1. n - i - 1 \in Nat /\ i + (n - i) = n /\ (n - i - 1) + 1 = n - i
  OBVIOUS
<1>2. 2^(n - i) = 2 * 2^(n - i - 1) /\ 2^(n - i - 1) \in Nat
  BY <1>1, PowerLaws
<1>3. 2^(i + (n - i)) = 2^i * 2^(n - i)
  BY <1>1, PowerSum
<1>. QED BY <1>1, <1>2, <1>3

LEMMA BitIsBinary ==
  ASSUME NEW w \in Nat, NEW i \in Nat
  PROVE  Bit(w, i) \in {0, 1}
<1> DEFINE d == 2^i
<1>1. d \in Nat /\ d >= 1
  BY PowerLaws
<1>. HIDE DEF d
<1>2. w \div d \in Int
  BY <1>1
<1>3. (w \div d) % 2 \in {0, 1}
  BY <1>2
<1>. QED BY <1>3 DEF Bit, d

LEMMA BitOfZero ==
  ASSUME NEW i \in Nat
  PROVE  Bit(0, i) = 0
<1> DEFINE d == 2^i
<1>1. d \in Nat /\ d >= 1
  BY PowerLaws
<1>. HIDE DEF d
<1>2. (d * 0 + 0) \div d = 0
  BY <1>1, QuotientIs
<1>3. 0 \div d = 0
  BY <1>1, <1>2
<1>4. Bit(0, i) = 0 % 2
  BY <1>3 DEF Bit, d
<1>. QED BY <1>4

(* A number of n bits with one more put on top of them, and the reverse.   *)
LEMMA BitOnTop ==
  ASSUME NEW n \in Nat, NEW v \in 0 .. 2^n - 1, NEW x \in {0, 1}
  PROVE  /\ v + 2^n * x \in 0 .. 2^(n + 1) - 1
         /\ Bit(v + 2^n * x, n) = x
         /\ \A i \in 0 .. n - 1 : Bit(v + 2^n * x, i) = Bit(v, i)
<1> DEFINE t == 2^n
<1>1. t \in Nat /\ t >= 1 /\ 2^(n + 1) = 2 * t
  BY PowerLaws
<1>2. v \in Nat /\ v < t /\ x \in Nat
  BY <1>1
<1>3. v + t * x \in 0 .. 2 * t - 1
  <2>. HIDE DEF t
  <2>. QED BY <1>1, <1>2
<1>4. Bit(v + t * x, n) = x
  <2>1. (t * x + v) \div t = x
    <3>. HIDE DEF t
    <3>. QED BY <1>1, <1>2, QuotientIs
  <2>2. x % 2 = x
    OBVIOUS
  <2>3. t * x + v = v + t * x
    <3>. HIDE DEF t
    <3>. QED BY <1>1, <1>2
  <2>. QED BY <2>1, <2>2, <2>3 DEF Bit
<1>5. ASSUME NEW i \in 0 .. n - 1
      PROVE  Bit(v + t * x, i) = Bit(v, i)
  <2> DEFINE d == 2^i
             q == v \div d
             r == v % d
  <2>1. d \in Nat /\ d >= 1
    BY PowerLaws
  <2>2. PICK k \in Nat : t = d * (2 * k)
    <3>1. i \in Nat /\ i < n
      OBVIOUS
    <3>2. \E k \in Nat : 2^n = 2^i * (2 * k)
      BY <3>1, HigherPower
    <3>. QED BY <3>2
  <2>3. q \in Nat /\ r \in Nat /\ r < d /\ v = d * q + r
    <3>. HIDE DEF d, t
    <3>. QED BY <1>2, <2>1
  <2> DEFINE p == 2 * (k * x)
  <2>4. v + t * x = d * (q + p) + r
    <3>. HIDE DEF d, t, q, r
    <3>1. CASE x = 0
      BY <3>1, <1>2, <2>1, <2>2, <2>3
    <3>2. CASE x = 1
      <4>1. v + t * x = (d * q + r) + d * (2 * k)
        BY <3>2, <2>1, <2>2, <2>3
      <4>2. d * (q + 2 * k) = d * q + d * (2 * k)
        BY <2>1, <2>3
      <4>3. p = 2 * k
        BY <3>2
      <4>. QED BY <4>1, <4>2, <4>3, <2>1, <2>3
    <3>. QED BY <3>1, <3>2
  <2>5. p \in Nat /\ k * x \in Nat
    BY <1>2
  <2>6. (d * (q + p) + r) \div d = q + p
    <3>. HIDE DEF d, q, r, p
    <3>. QED BY <2>1, <2>3, <2>5, QuotientIs
  <2>7. (q + p) % 2 = q % 2
    <3> DEFINE m == k * x
    <3>. HIDE DEF q, m
    <3>. QED BY <2>3, <2>5 DEF p
  <2>. QED BY <2>4, <2>6, <2>7 DEF Bit
<1>. QED BY <1>1, <1>3, <1>4, <1>5

LEMMA TopSplits ==
  ASSUME NEW n \in Nat, NEW w \in 0 .. 2^(n + 1) - 1
  PROVE  \E v \in 0 .. 2^n - 1, x \in {0, 1} : w = v + 2^n * x
<1> DEFINE t == 2^n
<1>1. t \in Nat /\ t >= 1 /\ 2^(n + 1) = 2 * t
  BY PowerLaws
<1>. HIDE DEF t
<1>2. w \in 0 .. 2 * t - 1
  BY <1>1 DEF t
<1>3. CASE w < t
  <2>1. w \in 0 .. t - 1 /\ w = w + t * 0
    BY <1>1, <1>2, <1>3
  <2>. QED BY <2>1 DEF t
<1>4. CASE ~ (w < t)
  <2>1. w - t \in 0 .. t - 1 /\ w = (w - t) + t * 1
    BY <1>1, <1>2, <1>4
  <2>. QED BY <2>1 DEF t
<1>. QED BY <1>3, <1>4

LEMMA BitsDetermine ==
  \A n \in Nat : \A v, w \in 0 .. 2^n - 1 :
    (\A i \in 0 .. n - 1 : Bit(v, i) = Bit(w, i)) => v = w
<1> DEFINE Same(n) == \A v, w \in 0 .. 2^n - 1 :
             (\A i \in 0 .. n - 1 : Bit(v, i) = Bit(w, i)) => v = w
           S == {n \in Nat : Same(n)}
<1>1. 0 \in S
  <2>1. 0 .. 2^0 - 1 = {0}
    BY PowerLaws
  <2>. QED BY <2>1
<1>2. ASSUME NEW n \in S PROVE n + 1 \in S
  <2>1. SUFFICES ASSUME NEW v \in 0 .. 2^(n + 1) - 1, NEW w \in 0 .. 2^(n + 1) - 1,
                        \A i \in 0 .. (n + 1) - 1 : Bit(v, i) = Bit(w, i)
                 PROVE  v = w
    OBVIOUS
  <2>2. n \in Nat /\ Same(n)
    OBVIOUS
  <2>3. PICK a \in 0 .. 2^n - 1, x \in {0, 1} : v = a + 2^n * x
    BY <2>2, TopSplits
  <2>4. PICK b \in 0 .. 2^n - 1, y \in {0, 1} : w = b + 2^n * y
    BY <2>2, TopSplits
  <2>5. Bit(v, n) = x /\ \A i \in 0 .. n - 1 : Bit(v, i) = Bit(a, i)
    BY <2>2, <2>3, BitOnTop
  <2>6. Bit(w, n) = y /\ \A i \in 0 .. n - 1 : Bit(w, i) = Bit(b, i)
    BY <2>2, <2>4, BitOnTop
  <2>7. n \in 0 .. (n + 1) - 1 /\ \A i \in 0 .. n - 1 : i \in 0 .. (n + 1) - 1
    BY <2>2
  <2>8. x = y /\ \A i \in 0 .. n - 1 : Bit(a, i) = Bit(b, i)
    BY <2>1, <2>5, <2>6, <2>7
  <2>9. a = b
    BY <2>2, <2>8
  <2>. QED BY <2>3, <2>4, <2>8, <2>9
<1>3. S \in SUBSET Nat
  OBVIOUS
<1>. HIDE DEF S
<1>4. \A n \in Nat : n \in S
  BY <1>1, <1>2, <1>3, SetInduction
<1>. QED BY <1>4 DEF S
-----------------------------------------------------------------------------
(* Words, and the polynomials they stand for.                              *)
Word == 0 .. WordLimit - 1
Byte == 0 .. ByteLimit - 1
Poly(w) == PolyOf(w, WordBits)

LEMMA WidthsAre ==
  /\ BitsPerByte \in Nat /\ BitsPerByte >= 1
  /\ WordBits \in Nat /\ WordBits = BitsPerByte + BitsPerByte /\ WordBits >= 2
  /\ WordLimit \in Nat /\ WordLimit >= 1 /\ WordLimit = 2^WordBits
  /\ ByteLimit \in Nat /\ ByteLimit >= 1 /\ ByteLimit = 2^BitsPerByte
  /\ WordLimit = ByteLimit * ByteLimit
  /\ 0 \in Word /\ Word \subseteq Nat /\ Byte \subseteq Nat
  /\ CRC16_POLY \in Word /\ CRC16_INIT \in Word
<1>1. /\ BitsPerByte \in Nat /\ BitsPerByte >= 1
      /\ WordBits \in Nat /\ WordBits = BitsPerByte + BitsPerByte /\ WordBits >= 2
  BY Crc16Assumption DEF WordBits
<1>2. /\ WordLimit \in Nat /\ WordLimit >= 1 /\ WordLimit = 2^WordBits
      /\ ByteLimit \in Nat /\ ByteLimit >= 1 /\ ByteLimit = 2^BitsPerByte
  BY <1>1, PowerLaws DEF WordLimit, ByteLimit
<1>3. WordLimit = ByteLimit * ByteLimit
  BY <1>1, <1>2, PowerSum
<1>4. CRC16_POLY \in Word /\ CRC16_INIT \in Word
  BY Crc16Assumption DEF Word
<1>5. 0 \in Word /\ Word \subseteq Nat /\ Byte \subseteq Nat
  BY <1>2 DEF Word, Byte
<1>. QED BY <1>1, <1>2, <1>3, <1>4, <1>5

LEMMA SamePolySameWord ==
  ASSUME NEW v \in Word, NEW w \in Word, Poly(v) = Poly(w)
  PROVE  v = w
<1>1. WordBits \in Nat /\ v \in 0 .. 2^WordBits - 1 /\ w \in 0 .. 2^WordBits - 1
  BY WidthsAre DEF Word
<1>2. ASSUME NEW i \in 0 .. WordBits - 1 PROVE Bit(v, i) = Bit(w, i)
  <2>1. Bit(v, i) \in {0, 1} /\ Bit(w, i) \in {0, 1}
    BY <1>1, WidthsAre, BitIsBinary
  <2>2. Bit(v, i) = 1 <=> Bit(w, i) = 1
    BY DEF Poly, PolyOf
  <2>. QED BY <2>1, <2>2
<1>. QED BY <1>1, <1>2, BitsDetermine

LEMMA XorBits ==
  ASSUME NEW a \in Word, NEW b \in Word
  PROVE  /\ Xor(a, b) \in Word
         /\ \A i \in 0 .. WordBits - 1 : Bit(Xor(a, b), i) = (Bit(a, i) + Bit(b, i)) % 2
<1> DEFINE digit(i) == (Bit(a, i) + Bit(b, i)) % 2
<1>1. a \in Nat /\ b \in Nat /\ WordBits \in Nat
  BY WidthsAre
<1>2. ASSUME NEW i \in Nat
      PROVE  /\ Bit(a, i) \in {0, 1} /\ Bit(b, i) \in {0, 1} /\ digit(i) \in {0, 1}
             /\ Bit(0, i) = 0
  BY <1>1, BitIsBinary, BitOfZero
<1>3. CASE a = 0
  <2>1. Xor(a, b) = b
    BY <1>3 DEF Xor
  <2>2. ASSUME NEW i \in 0 .. WordBits - 1 PROVE Bit(b, i) = digit(i)
    BY <1>1, <1>2, <1>3
  <2>. QED BY <2>1, <2>2
<1>4. CASE a # 0 /\ b = 0
  <2>1. Xor(a, b) = a
    BY <1>4 DEF Xor
  <2>2. ASSUME NEW i \in 0 .. WordBits - 1 PROVE Bit(a, i) = digit(i)
    BY <1>1, <1>2, <1>4
  <2>. QED BY <2>1, <2>2
<1>5. CASE a # 0 /\ b # 0
  <2> DEFINE g == [i \in 1 .. WordBits |-> [v \in Nat |-> v + 2^(i - 1) * digit(i - 1)]]
  <2>1. g \in [1 .. WordBits -> [Nat -> Nat]]
    <3>1. ASSUME NEW i \in 1 .. WordBits, NEW v \in Nat
          PROVE  v + 2^(i - 1) * digit(i - 1) \in Nat
      <4>1. i - 1 \in Nat
        BY <1>1
      <4>2. 2^(i - 1) \in Nat /\ digit(i - 1) \in Nat
        BY <4>1, <1>2, PowerLaws
      <4>. QED BY <4>2
    <3>. QED BY <3>1
  <2>2. \E f : IsLoop(f, Nat, 0, WordBits, g)
    <3>. HIDE DEF g
    <3>. QED BY <2>1, <1>1, LoopExists
  <2>3. PICK f : /\ f \in [0 .. WordBits -> Nat] /\ f[0] = 0
                 /\ \A i \in 1 .. WordBits : f[i] = g[i][f[i - 1]]
    BY <2>2 DEF IsLoop
  <2>4. f = [n \in 0 .. WordBits |->
               IF n = 0 THEN 0
               ELSE f[n - 1] + 2^(n - 1) * ((Bit(a, n - 1) + Bit(b, n - 1)) % 2)]
    <3>1. ASSUME NEW n \in 0 .. WordBits, n # 0
          PROVE  f[n] = f[n - 1] + 2^(n - 1) * digit(n - 1)
      <4>1. n \in 1 .. WordBits /\ n - 1 \in 0 .. WordBits
        BY <1>1, <3>1
      <4>2. f[n] = g[n][f[n - 1]] /\ f[n - 1] \in Nat
        BY <4>1, <2>3
      <4>. QED BY <4>1, <4>2
    <3>2. ASSUME NEW n \in 0 .. WordBits
          PROVE  f[n] = IF n = 0 THEN 0 ELSE f[n - 1] + 2^(n - 1) * digit(n - 1)
      BY <3>1, <2>3
    <3> DEFINE e(n) == IF n = 0 THEN 0 ELSE f[n - 1] + 2^(n - 1) * digit(n - 1)
    <3>3. \A n \in 0 .. WordBits : f[n] = e(n)
      BY <3>2
    <3>4. f = [n \in 0 .. WordBits |-> e(n)]
      <4>. HIDE DEF e, g
      <4>. QED BY <2>3, <3>3
    <3>. QED BY <3>4
  <2>5. \E h : /\ h = [n \in 0 .. WordBits |->
                         IF n = 0 THEN 0
                         ELSE h[n - 1] + 2^(n - 1) * ((Bit(a, n - 1) + Bit(b, n - 1)) % 2)]
               /\ Xor(a, b) = h[WordBits]
    BY <1>5, <2>4, Zenon DEF Xor
  <2>6. PICK low : /\ low = [n \in 0 .. WordBits |->
                               IF n = 0 THEN 0
                               ELSE low[n - 1] + 2^(n - 1) * digit(n - 1)]
                   /\ Xor(a, b) = low[WordBits]
    BY <2>5
  <2> DEFINE Right(n) == /\ low[n] \in 0 .. 2^n - 1
                         /\ \A i \in 0 .. n - 1 : Bit(low[n], i) = digit(i)
             K == {n \in Nat : n <= WordBits => Right(n)}
  <2>7. 0 \in K
    <3>1. low[0] = 0
      BY <2>6, <1>1
    <3>2. 0 \in 0 .. 2^0 - 1 /\ 0 .. 0 - 1 = {}
      BY PowerLaws
    <3>3. Right(0)
      BY <3>1, <3>2
    <3>. QED BY <3>3
  <2>8. ASSUME NEW n \in K PROVE n + 1 \in K
    <3>1. SUFFICES ASSUME n + 1 <= WordBits PROVE Right(n + 1)
      OBVIOUS
    <3>2. n \in Nat /\ n <= WordBits /\ n + 1 \in 0 .. WordBits /\ n + 1 # 0
      BY <1>1, <3>1
    <3>3. Right(n)
      BY <3>2
    <3>4. low[n + 1] = low[n] + 2^n * digit(n)
      <4>1. low[n + 1] = low[(n + 1) - 1] + 2^((n + 1) - 1) * digit((n + 1) - 1)
        BY <2>6, <3>2
      <4>2. (n + 1) - 1 = n
        BY <3>2
      <4>. QED BY <4>1, <4>2
    <3>5. digit(n) \in {0, 1}
      BY <1>2, <3>2
    <3> DEFINE v == low[n]
               x == digit(n)
    <3>6. v \in 0 .. 2^n - 1 /\ \A i \in 0 .. n - 1 : Bit(v, i) = digit(i)
      BY <3>3
    <3>7. /\ v + 2^n * x \in 0 .. 2^(n + 1) - 1
          /\ Bit(v + 2^n * x, n) = x
          /\ \A i \in 0 .. n - 1 : Bit(v + 2^n * x, i) = Bit(v, i)
      <4>1. v \in 0 .. 2^n - 1 /\ x \in {0, 1} /\ n \in Nat
        BY <3>2, <3>5, <3>6
      <4>. HIDE DEF v, x
      <4>. QED BY <4>1, BitOnTop
    <3>8. low[n + 1] = v + 2^n * x
      BY <3>4
    <3>9. ASSUME NEW i \in 0 .. (n + 1) - 1 PROVE Bit(low[n + 1], i) = digit(i)
      <4>1. i = n \/ i \in 0 .. n - 1
        BY <3>2
      <4>2. i \in 0 .. n - 1 => Bit(low[n + 1], i) = Bit(v, i) /\ Bit(v, i) = digit(i)
        BY <3>6, <3>7, <3>8
      <4>3. i = n => Bit(low[n + 1], i) = digit(i)
        BY <3>7, <3>8
      <4>. QED BY <4>1, <4>2, <4>3
    <3>10. low[n + 1] \in 0 .. 2^(n + 1) - 1
      BY <3>7, <3>8
    <3>. QED BY <3>9, <3>10
  <2>9. K \in SUBSET Nat
    OBVIOUS
  <2>10. \A n \in Nat : n \in K
    <3>. HIDE DEF K
    <3>. QED BY <2>7, <2>8, <2>9, SetInduction
  <2>11. Right(WordBits)
    BY <2>10, <1>1
  <2>. QED BY <2>6, <2>11, WidthsAre DEF Word
<1>. QED BY <1>3, <1>4, <1>5

LEMMA RemainderIs ==
  ASSUME NEW m \in Nat, m >= 1, NEW q \in Nat, NEW r \in Nat, r < m
  PROVE  (m * q + r) % m = r
<1> DEFINE a == m * q + r
<1>1. a \in Nat /\ m * q \in Nat
  OBVIOUS
<1>2. a \div m = q
  BY QuotientIs
<1>3. a = m * (a \div m) + (a % m) /\ a % m \in Nat
  <2>. HIDE DEF a
  <2>. QED BY <1>1
<1>4. a = m * q + (a % m)
  BY <1>2, <1>3
<1>5. a = m * q + r
  OBVIOUS
<1>. HIDE DEF a
<1>6. a % m = r
  <2> DEFINE p == m * q
  <2>1. a = p + (a % m) /\ a = p + r /\ p \in Nat
    BY <1>1, <1>4, <1>5
  <2>. HIDE DEF p
  <2>. QED BY <2>1, <1>1, <1>3
<1>. QED BY <1>6 DEF a

(* Multiplying by a power of two moves the bits up.                        *)
LEMMA ShiftedBits ==
  ASSUME NEW v \in Nat, NEW n \in Nat, NEW i \in Nat
  PROVE  Bit(v * 2^n, i) = IF i < n THEN 0 ELSE Bit(v, i - n)
<1> DEFINE t == 2^n
<1>1. t \in Nat /\ t >= 1
  BY PowerLaws
<1>2. CASE i < n
  <2> DEFINE d == 2^i
  <2>1. d \in Nat /\ d >= 1
    BY PowerLaws
  <2>2. PICK k \in Nat : t = d * (2 * k)
    <3>1. \E k \in Nat : 2^n = 2^i * (2 * k)
      BY <1>2, HigherPower
    <3>. QED BY <3>1
  <2> DEFINE q == v * k
  <2>3. q \in Nat
    OBVIOUS
  <2>4. v * t = d * (2 * q) + 0
    <3>. HIDE DEF d, t
    <3>1. v * t = v * (d * (2 * k))
      BY <2>2
    <3>2. v * (d * (2 * k)) = d * (2 * (v * k))
      BY <2>1
    <3>. QED BY <3>1, <3>2, <2>1
  <2>5. (d * (2 * q) + 0) \div d = 2 * q
    <3>. HIDE DEF d, q
    <3>. QED BY <2>1, <2>3, QuotientIs
  <2>6. (2 * q) % 2 = 0
    <3>. HIDE DEF q
    <3>. QED BY <2>3
  <2>7. Bit(v * t, i) = (2 * q) % 2
    BY <2>4, <2>5 DEF Bit
  <2>. QED BY <2>6, <2>7, <1>2
<1>3. CASE ~ (i < n)
  <2>1. i - n \in Nat /\ n + (i - n) = i
    BY <1>3
  <2> DEFINE d == 2^(i - n)
             q == v \div d
             r == v % d
  <2>2. d \in Nat /\ d >= 1 /\ 2^i = t * d
    <3>1. d \in Nat /\ d >= 1
      BY <2>1, PowerLaws
    <3>2. 2^(n + (i - n)) = 2^n * 2^(i - n)
      BY <2>1, PowerSum
    <3>. QED BY <3>1, <3>2, <2>1
  <2>3. q \in Nat /\ r \in Nat /\ r < d /\ v = d * q + r
    <3>. HIDE DEF d, t
    <3>. QED BY <2>2
  <2> DEFINE u == t * d
             s == r * t
  <2>4. u \in Nat /\ u >= 1 /\ s \in Nat /\ s < u /\ v * t = u * q + s
    <3>. HIDE DEF d, t, q, r
    <3>1. u \in Nat /\ u >= 1 /\ s \in Nat
      BY <1>1, <2>2, <2>3
    <3>2. s < u
      <4>1. r + 1 <= d /\ (r + 1) * t <= d * t
        BY <1>1, <2>2, <2>3
      <4>2. (r + 1) * t = s + t /\ d * t = u
        BY <1>1, <2>2, <2>3
      <4>. HIDE DEF s, u
      <4>. QED BY <4>1, <4>2, <3>1, <1>1
    <3>3. v * t = u * q + s
      <4>1. v * t = (d * q + r) * t
        BY <2>3
      <4>2. (d * q + r) * t = (t * d) * q + r * t
        BY <1>1, <2>2, <2>3
      <4>. QED BY <4>1, <4>2
    <3>. QED BY <3>1, <3>2, <3>3
  <2>5. (u * q + s) \div u = q
    <3>. HIDE DEF u, s, q
    <3>. QED BY <2>3, <2>4, QuotientIs
  <2>6. Bit(v * t, i) = q % 2
    BY <2>2, <2>4, <2>5 DEF Bit
  <2>7. Bit(v, i - n) = q % 2
    BY DEF Bit
  <2>. QED BY <2>6, <2>7, <1>3
<1>. QED BY <1>2, <1>3
-----------------------------------------------------------------------------
(* One round of the loop, on polynomials: times x, less the generator when *)
(* that has made a term of the generator's degree.                         *)
RoundOf(p) ==
  IF WordBits - 1 \in p THEN SymDiff(TimesX(p, 1), Generator) ELSE TimesX(p, 1)

LEMMA XorPoly ==
  ASSUME NEW a \in Word, NEW b \in Word
  PROVE  Xor(a, b) \in Word /\ Poly(Xor(a, b)) = SymDiff(Poly(a), Poly(b))
<1>1. ASSUME NEW i \in 0 .. WordBits - 1
      PROVE  Bit(Xor(a, b), i) = 1 <=> ~ (Bit(a, i) = 1 <=> Bit(b, i) = 1)
  <2>1. Bit(a, i) \in {0, 1} /\ Bit(b, i) \in {0, 1}
    BY WidthsAre, BitIsBinary
  <2>2. Bit(Xor(a, b), i) = (Bit(a, i) + Bit(b, i)) % 2
    BY XorBits
  <2>. QED BY <2>1, <2>2
<1>2. Xor(a, b) \in Word
  BY XorBits
<1>. QED BY <1>1, <1>2 DEF Poly, PolyOf, SymDiff

LEMMA DoubledPoly ==
  ASSUME NEW c \in Word
  PROVE  /\ (2 * c) % WordLimit \in Word
         /\ Poly((2 * c) % WordLimit) = TimesX(Poly(c), 1) \ {WordBits}
<1> DEFINE n == WordBits - 1
<1>1. n \in Nat /\ n + 1 = WordBits /\ WordLimit = 2^(n + 1) /\ c \in 0 .. 2^(n + 1) - 1
  BY WidthsAre DEF Word
<1>2. PICK v \in 0 .. 2^n - 1, x \in {0, 1} : c = v + 2^n * x
  BY <1>1, TopSplits
<1> DEFINE t == 2^n
<1>3. t \in Nat /\ t >= 1 /\ WordLimit = 2 * t /\ v \in Nat /\ v < t
  <2>1. t \in Nat /\ t >= 1 /\ 2^(n + 1) = 2 * t
    BY <1>1, PowerLaws
  <2>2. v \in 0 .. t - 1
    OBVIOUS
  <2>. QED BY <2>1, <2>2, <1>1
<1>4. 2 * c = (2 * t) * x + 2 * v
  <2>1. c = v + t * x
    BY <1>2
  <2>. HIDE DEF t
  <2>. QED BY <2>1, <1>3
<1>5. (2 * c) % WordLimit = 2 * v
  <2> DEFINE m == 2 * t
             r == 2 * v
  <2>1. m \in Nat /\ m >= 1 /\ r \in Nat /\ r < m /\ x \in Nat
    <3>. HIDE DEF t
    <3>. QED BY <1>3
  <2>2. (m * x + r) % m = r
    <3>. HIDE DEF m, r
    <3>. QED BY <2>1, RemainderIs
  <2>. QED BY <2>2, <1>3, <1>4
<1>6. 2 * v \in Word
  <2>. HIDE DEF t
  <2>. QED BY <1>3 DEF Word
<1>7. ASSUME NEW i \in 0 .. WordBits - 1
      PROVE  Bit(2 * v, i) = 1 <=> i - 1 \in Poly(c)
  <2>1. Bit(v * 2^1, i) = IF i < 1 THEN 0 ELSE Bit(v, i - 1)
    <3>1. v \in Nat /\ i \in Nat /\ 1 \in Nat
      BY <1>1, <1>3
    <3>. QED BY <3>1, ShiftedBits
  <2>2. v * 2^1 = 2 * v
    BY <1>3, PowerLaws
  <2>3. CASE i = 0
    <3>1. i - 1 \notin Poly(c)
      BY <2>3 DEF Poly, PolyOf
    <3>. QED BY <2>1, <2>2, <2>3, <3>1
  <2>4. CASE i # 0
    <3>1. i - 1 \in 0 .. n - 1 /\ i - 1 \in 0 .. WordBits - 1
      BY <1>1, <2>4
    <3>2. \A k \in 0 .. n - 1 : Bit(v + 2^n * x, k) = Bit(v, k)
      BY <1>1, BitOnTop
    <3>3. Bit(c, i - 1) = Bit(v, i - 1)
      BY <3>1, <3>2, <1>2
    <3>4. Bit(2 * v, i) = Bit(c, i - 1)
      BY <2>1, <2>2, <2>4, <3>3
    <3>. QED BY <3>1, <3>4 DEF Poly, PolyOf
  <2>. QED BY <2>3, <2>4
<1>8. Poly(2 * v) = {i \in 0 .. WordBits - 1 : i - 1 \in Poly(c)}
  BY <1>7 DEF Poly, PolyOf
<1>9. {i \in 0 .. WordBits - 1 : i - 1 \in Poly(c)} = TimesX(Poly(c), 1) \ {WordBits}
  <2>1. \A e \in Poly(c) : e \in 0 .. WordBits - 1
    BY DEF Poly, PolyOf
  <2>2. ASSUME NEW i \in 0 .. WordBits - 1, i - 1 \in Poly(c)
        PROVE  i \in TimesX(Poly(c), 1) \ {WordBits}
    <3>1. i = (i - 1) + 1 /\ i # WordBits
      BY <1>1
    <3>. QED BY <2>2, <3>1 DEF TimesX
  <2>3. ASSUME NEW i \in TimesX(Poly(c), 1) \ {WordBits}
        PROVE  i \in 0 .. WordBits - 1 /\ i - 1 \in Poly(c)
    <3>1. PICK e \in Poly(c) : i = e + 1
      BY DEF TimesX
    <3>2. i # WordBits /\ i - 1 = e /\ i \in 0 .. WordBits - 1
      BY <3>1, <2>1, <1>1
    <3>. QED BY <3>1, <3>2
  <2>. QED BY <2>2, <2>3
<1>. QED BY <1>5, <1>6, <1>8, <1>9

LEMMA ShiftPoly ==
  ASSUME NEW c \in Word
  PROVE  crc16_shift(c) \in Word /\ Poly(crc16_shift(c)) = RoundOf(Poly(c))
<1> DEFINE s == (2 * c) % WordLimit
<1>1. s \in Word /\ Poly(s) = TimesX(Poly(c), 1) \ {WordBits}
  BY DoubledPoly
<1>2. WordBits - 1 \in Poly(c) <=> Bit(c, WordBits - 1) = 1
  BY WidthsAre DEF Poly, PolyOf
<1>3. WordBits \in TimesX(Poly(c), 1) <=> WordBits - 1 \in Poly(c)
  <2>1. ASSUME WordBits - 1 \in Poly(c) PROVE WordBits \in TimesX(Poly(c), 1)
    <3>1. WordBits = (WordBits - 1) + 1
      BY WidthsAre
    <3>. QED BY <2>1, <3>1 DEF TimesX
  <2>2. ASSUME WordBits \in TimesX(Poly(c), 1) PROVE WordBits - 1 \in Poly(c)
    <3>1. PICK e \in Poly(c) : WordBits = e + 1
      BY <2>2 DEF TimesX
    <3>2. e \in Nat
      BY WidthsAre DEF Poly, PolyOf
    <3>. QED BY <3>1, <3>2
  <2>. QED BY <2>1, <2>2
<1>4. WordBits \notin Poly(CRC16_POLY)
  BY WidthsAre DEF Poly, PolyOf
<1>5. CASE Bit(c, WordBits - 1) = 1
  <2>1. crc16_shift(c) = Xor(s, CRC16_POLY)
    BY <1>5 DEF crc16_shift
  <2>2. /\ crc16_shift(c) \in Word
        /\ Poly(crc16_shift(c)) = SymDiff(Poly(s), Poly(CRC16_POLY))
    <3>. HIDE DEF s
    <3>. QED BY <2>1, <1>1, WidthsAre, XorPoly
  <2>3. SymDiff(TimesX(Poly(c), 1) \ {WordBits}, Poly(CRC16_POLY))
          = SymDiff(TimesX(Poly(c), 1), Generator)
    BY <1>2, <1>3, <1>4, <1>5 DEF SymDiff, Generator, Poly
  <2>. QED BY <1>1, <1>2, <1>5, <2>2, <2>3 DEF RoundOf
<1>6. CASE Bit(c, WordBits - 1) # 1
  <2>1. crc16_shift(c) = s
    BY <1>6 DEF crc16_shift
  <2>2. TimesX(Poly(c), 1) \ {WordBits} = TimesX(Poly(c), 1)
    BY <1>2, <1>3, <1>6
  <2>. QED BY <1>1, <1>2, <1>6, <2>1, <2>2 DEF RoundOf
<1>. QED BY <1>5, <1>6

(* A byte is added to the top of the word.                                 *)
LEMMA BytePoly ==
  ASSUME NEW w \in Word, NEW byte \in Byte
  PROVE  /\ Xor(w, byte * ByteLimit) \in Word
         /\ Poly(Xor(w, byte * ByteLimit))
              = SymDiff(Poly(w), TimesX(PolyOf(byte, BitsPerByte), BitsPerByte))
<1> DEFINE s == byte * ByteLimit
<1>1. byte \in Nat /\ byte < ByteLimit
  BY WidthsAre DEF Byte
<1>2. s \in Word
  <2>1. s \in Nat /\ (byte + 1) * ByteLimit <= ByteLimit * ByteLimit
    BY <1>1, WidthsAre
  <2>2. (byte + 1) * ByteLimit = s + ByteLimit
    BY <1>1, WidthsAre
  <2>3. s + ByteLimit <= WordLimit
    BY <2>1, <2>2, WidthsAre
  <2>. HIDE DEF s
  <2>. QED BY <2>1, <2>3, WidthsAre DEF Word
<1>3. ASSUME NEW i \in 0 .. WordBits - 1
      PROVE  Bit(s, i) = 1 <=> i - BitsPerByte \in PolyOf(byte, BitsPerByte)
  <2>1. Bit(byte * 2^BitsPerByte, i)
          = IF i < BitsPerByte THEN 0 ELSE Bit(byte, i - BitsPerByte)
    <3>1. i \in Nat
      BY WidthsAre
    <3>. QED BY <3>1, <1>1, WidthsAre, ShiftedBits
  <2>2. Bit(s, i) = IF i < BitsPerByte THEN 0 ELSE Bit(byte, i - BitsPerByte)
    BY <2>1, WidthsAre
  <2>3. i - BitsPerByte \in 0 .. BitsPerByte - 1 <=> ~ (i < BitsPerByte)
    BY WidthsAre
  <2>. QED BY <2>2, <2>3 DEF PolyOf
<1>4. Poly(s) = {i \in 0 .. WordBits - 1 : i - BitsPerByte \in PolyOf(byte, BitsPerByte)}
  BY <1>3 DEF Poly, PolyOf
<1>5. @ = TimesX(PolyOf(byte, BitsPerByte), BitsPerByte)
  <2>1. \A e \in PolyOf(byte, BitsPerByte) : e \in 0 .. BitsPerByte - 1
    BY DEF PolyOf
  <2>2. ASSUME NEW i \in 0 .. WordBits - 1, i - BitsPerByte \in PolyOf(byte, BitsPerByte)
        PROVE  i \in TimesX(PolyOf(byte, BitsPerByte), BitsPerByte)
    <3>1. i = (i - BitsPerByte) + BitsPerByte
      BY WidthsAre
    <3>. QED BY <2>2, <3>1 DEF TimesX
  <2>3. ASSUME NEW i \in TimesX(PolyOf(byte, BitsPerByte), BitsPerByte)
        PROVE  i \in 0 .. WordBits - 1 /\ i - BitsPerByte \in PolyOf(byte, BitsPerByte)
    <3>1. PICK e \in PolyOf(byte, BitsPerByte) : i = e + BitsPerByte
      BY DEF TimesX
    <3>2. i - BitsPerByte = e /\ i \in 0 .. WordBits - 1
      BY <3>1, <2>1, WidthsAre
    <3>. QED BY <3>1, <3>2
  <2>. QED BY <2>2, <2>3
<1>. HIDE DEF s
<1>6. Xor(w, s) \in Word /\ Poly(Xor(w, s)) = SymDiff(Poly(w), Poly(s))
  BY <1>2, XorPoly
<1>. QED BY <1>4, <1>5, <1>6 DEF s
-----------------------------------------------------------------------------
(* The loop over a byte's bits, and over a sequence's bytes.               *)
Rounds(round, w, byte) ==
  /\ round[0] = Xor(w, byte * ByteLimit)
  /\ \A i \in 0 .. BitsPerByte : round[i] \in Word
  /\ \A i \in 1 .. BitsPerByte : round[i] = crc16_shift(round[i - 1])
  /\ crc16_update(w, byte) = round[BitsPerByte]

LEMMA UpdateIs ==
  ASSUME NEW w \in Word, NEW byte \in Byte
  PROVE  crc16_update(w, byte) \in Word /\ \E round : Rounds(round, w, byte)
<1> DEFINE a == Xor(w, byte * ByteLimit)
           n == BitsPerByte
           g == [i \in 1 .. n |-> [v \in Word |-> crc16_shift(v)]]
<1>1. a \in Word /\ n \in Nat
  BY BytePoly, WidthsAre
<1>2. g \in [1 .. n -> [Word -> Word]]
  BY ShiftPoly
<1>3. \E f : IsLoop(f, Word, a, n, g)
  <2>. HIDE DEF a, g, n
  <2>. QED BY <1>1, <1>2, LoopExists
<1>4. PICK f : f \in [0 .. n -> Word] /\ f[0] = a /\ \A i \in 1 .. n : f[i] = g[i][f[i - 1]]
  BY <1>3 DEF IsLoop
<1>5. f = [i \in 0 .. BitsPerByte |->
             IF i = 0 THEN Xor(w, byte * ByteLimit) ELSE crc16_shift(f[i - 1])]
  <2> DEFINE e(i) == IF i = 0 THEN a ELSE crc16_shift(f[i - 1])
  <2>1. ASSUME NEW i \in 0 .. n PROVE f[i] = e(i)
    <3>1. CASE i = 0
      BY <3>1, <1>4
    <3>2. CASE i # 0
      <4>1. i \in 1 .. n /\ i - 1 \in 0 .. n
        BY <3>2, <1>1
      <4>2. f[i - 1] \in Word /\ f[i] = g[i][f[i - 1]]
        BY <4>1, <1>4
      <4>. QED BY <4>1, <4>2, <3>2
    <3>. QED BY <3>1, <3>2
  <2>2. f = [i \in 0 .. n |-> e(i)]
    <3>. HIDE DEF e, g, a, n
    <3>. QED BY <2>1, <1>4
  <2>. QED BY <2>2
<1>6. \E r : /\ r = [i \in 0 .. BitsPerByte |->
                       IF i = 0 THEN Xor(w, byte * ByteLimit) ELSE crc16_shift(r[i - 1])]
             /\ crc16_update(w, byte) = r[BitsPerByte]
  BY <1>5, Zenon DEF crc16_update
<1>7. PICK r : /\ r = [i \in 0 .. n |-> IF i = 0 THEN a ELSE crc16_shift(r[i - 1])]
               /\ crc16_update(w, byte) = r[BitsPerByte]
  BY <1>6
<1>8. r[0] = a /\ \A i \in 1 .. n : r[i] = crc16_shift(r[i - 1])
  <2>. HIDE DEF a
  <2>1. 0 \in 0 .. n /\ \A i \in 1 .. n : i \in 0 .. n /\ i # 0
    BY <1>1
  <2>. QED BY <2>1, <1>7
<1>9. \A i \in 0 .. n : r[i] \in Word
  <2>1. r[0] \in Word
    BY <1>1, <1>8
  <2>2. \A i \in 1 .. n : r[i - 1] \in Word => r[i] \in Word
    BY <1>8, ShiftPoly
  <2>. HIDE DEF n
  <2>. QED BY <2>1, <2>2, <1>1, LoopStaysIn
<1>10. Rounds(r, w, byte)
  BY <1>7, <1>8, <1>9 DEF Rounds
<1>11. crc16_update(w, byte) \in Word
  BY <1>1, <1>7, <1>9
<1>. QED BY <1>10, <1>11

Updates(f, bytes) ==
  /\ f[0] = CRC16_INIT
  /\ \A i \in 0 .. Len(bytes) : f[i] \in Word
  /\ \A i \in 1 .. Len(bytes) : f[i] = crc16_update(f[i - 1], bytes[i])
  /\ crc16_of(bytes) = f[Len(bytes)]

LEMMA CrcOfIs ==
  ASSUME NEW bytes \in Seq(Byte)
  PROVE  crc16_of(bytes) \in Word /\ \E f : Updates(f, bytes)
<1> DEFINE n == Len(bytes)
           g == [i \in 1 .. n |-> [v \in Word |-> crc16_update(v, bytes[i])]]
<1>1. n \in Nat /\ CRC16_INIT \in Word /\ \A i \in 1 .. n : bytes[i] \in Byte
  BY WidthsAre
<1>2. g \in [1 .. n -> [Word -> Word]]
  BY <1>1, UpdateIs
<1>3. \E f : IsLoop(f, Word, CRC16_INIT, n, g)
  <2>. HIDE DEF g, n
  <2>. QED BY <1>1, <1>2, LoopExists
<1>4. PICK f : /\ f \in [0 .. n -> Word] /\ f[0] = CRC16_INIT
               /\ \A i \in 1 .. n : f[i] = g[i][f[i - 1]]
  BY <1>3 DEF IsLoop
<1>5. f = [i \in 0 .. Len(bytes) |->
             IF i = 0 THEN crc16_init ELSE crc16_update(f[i - 1], bytes[i])]
  <2> DEFINE e(i) == IF i = 0 THEN crc16_init ELSE crc16_update(f[i - 1], bytes[i])
  <2>1. ASSUME NEW i \in 0 .. n PROVE f[i] = e(i)
    <3>1. CASE i = 0
      BY <3>1, <1>4 DEF crc16_init
    <3>2. CASE i # 0
      <4>1. i \in 1 .. n /\ i - 1 \in 0 .. n
        BY <3>2, <1>1
      <4>2. f[i - 1] \in Word /\ f[i] = g[i][f[i - 1]]
        BY <4>1, <1>4
      <4>. QED BY <4>1, <4>2, <3>2
    <3>. QED BY <3>1, <3>2
  <2>2. f = [i \in 0 .. n |-> e(i)]
    <3>. HIDE DEF e, g, n
    <3>. QED BY <2>1, <1>4
  <2>. QED BY <2>2
<1>6. \E r : /\ r = [i \in 0 .. Len(bytes) |->
                       IF i = 0 THEN crc16_init ELSE crc16_update(r[i - 1], bytes[i])]
             /\ crc16_of(bytes) = r[Len(bytes)]
  BY <1>5, Zenon DEF crc16_of, crc16_finalize
<1>7. PICK r : /\ r = [i \in 0 .. n |-> IF i = 0 THEN crc16_init
                                        ELSE crc16_update(r[i - 1], bytes[i])]
               /\ crc16_of(bytes) = r[n]
  BY <1>6
<1>8. r[0] = CRC16_INIT /\ \A i \in 1 .. n : r[i] = crc16_update(r[i - 1], bytes[i])
  <2>1. 0 \in 0 .. n /\ \A i \in 1 .. n : i \in 0 .. n /\ i # 0
    BY <1>1
  <2>. QED BY <2>1, <1>7 DEF crc16_init
<1>9. \A i \in 0 .. n : r[i] \in Word
  <2>1. r[0] \in Word
    BY <1>1, <1>8
  <2>2. \A i \in 1 .. n : r[i - 1] \in Word => r[i] \in Word
    BY <1>1, <1>8, UpdateIs
  <2>. HIDE DEF n
  <2>. QED BY <2>1, <2>2, <1>1, LoopStaysIn
<1>10. Updates(r, bytes)
  BY <1>7, <1>8, <1>9 DEF Updates
<1>11. crc16_of(bytes) \in Word
  BY <1>1, <1>7, <1>9
<1>. QED BY <1>10, <1>11

(* The running values over two sequences are the same as far as the        *)
(* sequences are.                                                          *)
LEMMA SamePrefix ==
  ASSUME NEW s, NEW t, NEW f, NEW h, Updates(f, s), Updates(h, t),
         NEW n \in Nat, n <= Len(s), n <= Len(t), Len(s) \in Nat, Len(t) \in Nat,
         \A i \in 1 .. n : s[i] = t[i]
  PROVE  \A i \in 0 .. n : f[i] = h[i]
<1> DEFINE K == {k \in Nat : k <= n => f[k] = h[k]}
<1>1. 0 \in K
  BY DEF Updates
<1>2. ASSUME NEW k \in K PROVE k + 1 \in K
  <2>1. SUFFICES ASSUME k + 1 <= n PROVE f[k + 1] = h[k + 1]
    OBVIOUS
  <2>2. /\ k + 1 \in 1 .. n /\ (k + 1) - 1 = k /\ k <= n
        /\ k + 1 \in 1 .. Len(s) /\ k + 1 \in 1 .. Len(t)
    BY <2>1
  <2>3. f[k] = h[k]
    BY <2>2
  <2>4. f[k + 1] = crc16_update(f[k], s[k + 1]) /\ h[k + 1] = crc16_update(h[k], t[k + 1])
    BY <2>2 DEF Updates
  <2>. QED BY <2>2, <2>3, <2>4
<1>3. K \in SUBSET Nat
  OBVIOUS
<1>4. \A k \in Nat : k \in K
  <2>. HIDE DEF K
  <2>. QED BY <1>1, <1>2, <1>3, SetInduction
<1>. QED BY <1>4

LEMMA CrcOfAppend ==
  ASSUME NEW bytes \in Seq(Byte), NEW byte \in Byte
  PROVE  crc16_of(Append(bytes, byte)) = crc16_update(crc16_of(bytes), byte)
<1> DEFINE longer == Append(bytes, byte)
           n == Len(bytes)
<1>1. /\ longer \in Seq(Byte) /\ Len(longer) = n + 1 /\ longer[n + 1] = byte
      /\ n \in Nat /\ \A i \in 1 .. n : bytes[i] = longer[i]
  OBVIOUS
<1>. HIDE DEF longer
<1>2. PICK f : Updates(f, bytes)
  BY CrcOfIs
<1>3. PICK h : Updates(h, longer)
  BY <1>1, CrcOfIs
<1>4. f[n] = h[n]
  <2>1. n \in 0 .. n /\ n <= Len(bytes) /\ n <= Len(longer) /\ Len(longer) \in Nat
    BY <1>1
  <2>2. \A i \in 0 .. n : f[i] = h[i]
    BY <2>1, <1>1, <1>2, <1>3, SamePrefix
  <2>. QED BY <2>1, <2>2
<1>5. h[n + 1] = crc16_update(h[n], byte)
  <2>1. n + 1 \in 1 .. Len(longer) /\ (n + 1) - 1 = n
    BY <1>1
  <2>2. h[n + 1] = crc16_update(h[(n + 1) - 1], longer[n + 1])
    BY <2>1, <1>3 DEF Updates
  <2>. QED BY <2>1, <2>2, <1>1
<1>6. crc16_of(longer) = h[n + 1] /\ crc16_of(bytes) = f[n]
  BY <1>1, <1>2, <1>3 DEF Updates
<1>. QED BY <1>4, <1>5, <1>6 DEF longer
-----------------------------------------------------------------------------
(* An update loses nothing: of two words, or of two bytes, the results     *)
(* differ.                                                                 *)
LEMMA TimesXIsInjective ==
  ASSUME NEW p \in SUBSET Nat, NEW q \in SUBSET Nat, NEW n \in Nat,
         TimesX(p, n) = TimesX(q, n)
  PROVE  p = q
<1>1. ASSUME NEW a \in SUBSET Nat, NEW b \in SUBSET Nat, TimesX(a, n) = TimesX(b, n),
             NEW e \in a
      PROVE  e \in b
  <2>1. e + n \in TimesX(b, n)
    BY <1>1 DEF TimesX
  <2>2. PICK d \in b : e + n = d + n
    BY <2>1 DEF TimesX
  <2>3. e = d
    BY <2>2
  <2>. QED BY <2>2, <2>3
<1>2. p \subseteq q
  BY <1>1
<1>3. q \subseteq p
  BY <1>1
<1>. QED BY <1>2, <1>3

LEMMA PolyIsBounded ==
  ASSUME NEW w, NEW n \in Nat
  PROVE  PolyOf(w, n) \in SUBSET Nat /\ \A e \in PolyOf(w, n) : e < n
BY DEF PolyOf

LEMMA GeneratorIs ==
  Generator \in SUBSET Nat /\ 0 \in Generator /\ WordBits \in Generator
    /\ \A e \in Generator : e <= WordBits
<1>1. CRC16_POLY \in Nat /\ CRC16_POLY % 2 = 1
  BY Crc16Assumption, WidthsAre
<1>2. Bit(CRC16_POLY, 0) = 1
  <2>1. 2^0 = 1 /\ CRC16_POLY \div 1 = CRC16_POLY
    BY <1>1, PowerLaws
  <2>. QED BY <2>1, <1>1 DEF Bit
<1>3. 0 \in PolyOf(CRC16_POLY, WordBits)
  BY <1>2, WidthsAre DEF PolyOf
<1>. QED BY <1>3, WidthsAre, PolyIsBounded DEF Generator

LEMMA ShiftIsInjective ==
  ASSUME NEW c \in Word, NEW d \in Word, crc16_shift(c) = crc16_shift(d)
  PROVE  c = d
<1> DEFINE p == Poly(c)
           q == Poly(d)
<1>1. p \in SUBSET Nat /\ q \in SUBSET Nat
  BY WidthsAre, PolyIsBounded DEF Poly
<1>2. RoundOf(p) = RoundOf(q)
  BY ShiftPoly
<1>. HIDE DEF p, q
<1>3. 0 \notin TimesX(p, 1) /\ 0 \notin TimesX(q, 1)
  BY <1>1 DEF TimesX
<1>4. /\ WordBits - 1 \in p <=> 0 \in RoundOf(p)
      /\ WordBits - 1 \in q <=> 0 \in RoundOf(q)
  BY <1>3, GeneratorIs DEF RoundOf, SymDiff
<1>5. TimesX(p, 1) = TimesX(q, 1)
  <2>1. CASE WordBits - 1 \in p
    <3>1. SymDiff(TimesX(p, 1), Generator) = SymDiff(TimesX(q, 1), Generator)
      BY <1>2, <1>4, <2>1 DEF RoundOf
    <3> DEFINE a == TimesX(p, 1)
               b == TimesX(q, 1)
    <3>. HIDE DEF a, b
    <3>2. SymDiff(a, Generator) = SymDiff(b, Generator)
      BY <3>1 DEF a, b
    <3>3. a = b
      BY <3>2 DEF SymDiff
    <3>. QED BY <3>3 DEF a, b
  <2>2. CASE WordBits - 1 \notin p
    BY <1>2, <1>4, <2>2 DEF RoundOf
  <2>. QED BY <2>1, <2>2
<1>6. p = q
  BY <1>1, <1>5, TimesXIsInjective
<1>. QED BY <1>6, SamePolySameWord DEF p, q

LEMMA RoundsDiffer ==
  ASSUME NEW c \in Word, NEW d \in Word, NEW a \in Byte, NEW b \in Byte,
         Xor(c, a * ByteLimit) # Xor(d, b * ByteLimit)
  PROVE  crc16_update(c, a) # crc16_update(d, b)
<1>1. PICK f : Rounds(f, c, a)
  BY UpdateIs
<1>2. PICK h : Rounds(h, d, b)
  BY UpdateIs
<1> DEFINE K == {k \in Nat : k <= BitsPerByte => f[k] # h[k]}
<1>3. 0 \in K
  BY <1>1, <1>2 DEF Rounds
<1>4. ASSUME NEW k \in K PROVE k + 1 \in K
  <2>1. SUFFICES ASSUME k + 1 <= BitsPerByte PROVE f[k + 1] # h[k + 1]
    OBVIOUS
  <2>2. k + 1 \in 1 .. BitsPerByte /\ (k + 1) - 1 = k /\ k <= BitsPerByte /\ k \in 0 .. BitsPerByte
    BY <2>1, WidthsAre
  <2>3. f[k] # h[k] /\ f[k] \in Word /\ h[k] \in Word
    BY <2>2, <1>1, <1>2 DEF Rounds
  <2>4. f[k + 1] = crc16_shift(f[k]) /\ h[k + 1] = crc16_shift(h[k])
    BY <2>2, <1>1, <1>2 DEF Rounds
  <2>. QED BY <2>3, <2>4, ShiftIsInjective
<1>5. K \in SUBSET Nat
  OBVIOUS
<1>6. \A k \in Nat : k \in K
  <2>. HIDE DEF K
  <2>. QED BY <1>3, <1>4, <1>5, SetInduction
<1>7. f[BitsPerByte] # h[BitsPerByte]
  BY <1>6, WidthsAre
<1>. QED BY <1>1, <1>2, <1>7 DEF Rounds

LEMMA OtherCrcDiffers ==
  ASSUME NEW c \in Word, NEW d \in Word, NEW b \in Byte, c # d
  PROVE  crc16_update(c, b) # crc16_update(d, b)
<1> DEFINE y == TimesX(PolyOf(b, BitsPerByte), BitsPerByte)
<1>1. /\ Poly(Xor(c, b * ByteLimit)) = SymDiff(Poly(c), y)
      /\ Poly(Xor(d, b * ByteLimit)) = SymDiff(Poly(d), y)
  BY BytePoly
<1>2. Poly(c) # Poly(d)
  BY SamePolySameWord
<1>. HIDE DEF y
<1>3. SymDiff(Poly(c), y) # SymDiff(Poly(d), y)
  BY <1>2 DEF SymDiff
<1>. QED BY <1>1, <1>3, RoundsDiffer

LEMMA OtherByteDiffers ==
  ASSUME NEW c \in Word, NEW a \in Byte, NEW b \in Byte, a # b
  PROVE  crc16_update(c, a) # crc16_update(c, b)
<1> DEFINE p == PolyOf(a, BitsPerByte)
           q == PolyOf(b, BitsPerByte)
<1>1. /\ Poly(Xor(c, a * ByteLimit)) = SymDiff(Poly(c), TimesX(p, BitsPerByte))
      /\ Poly(Xor(c, b * ByteLimit)) = SymDiff(Poly(c), TimesX(q, BitsPerByte))
  BY BytePoly
<1>2. p # q
  <2>1. SUFFICES ASSUME p = q PROVE FALSE
    OBVIOUS
  <2>2. a \in 0 .. 2^BitsPerByte - 1 /\ b \in 0 .. 2^BitsPerByte - 1 /\ BitsPerByte \in Nat
    BY WidthsAre DEF Byte
  <2>3. ASSUME NEW i \in 0 .. BitsPerByte - 1 PROVE Bit(a, i) = Bit(b, i)
    <3>1. Bit(a, i) \in {0, 1} /\ Bit(b, i) \in {0, 1}
      BY <2>2, WidthsAre, BitIsBinary
    <3>2. Bit(a, i) = 1 <=> Bit(b, i) = 1
      BY <2>1 DEF PolyOf
    <3>. QED BY <3>1, <3>2
  <2>. QED BY <2>2, <2>3, BitsDetermine
<1>3. p \in SUBSET Nat /\ q \in SUBSET Nat /\ BitsPerByte \in Nat
  BY WidthsAre, PolyIsBounded
<1>4. TimesX(p, BitsPerByte) # TimesX(q, BitsPerByte)
  <2>. HIDE DEF p, q
  <2>. QED BY <1>2, <1>3, TimesXIsInjective
<1>5. SymDiff(Poly(c), TimesX(p, BitsPerByte)) # SymDiff(Poly(c), TimesX(q, BitsPerByte))
  <2> DEFINE x == TimesX(p, BitsPerByte)
             y == TimesX(q, BitsPerByte)
  <2>. HIDE DEF x, y
  <2>1. x # y
    BY <1>4 DEF x, y
  <2>2. SymDiff(Poly(c), x) # SymDiff(Poly(c), y)
    BY <2>1 DEF SymDiff
  <2>. QED BY <2>2 DEF x, y
<1>. QED BY <1>1, <1>5, RoundsDiffer

LEMMA OneOtherByte ==
  ASSUME NEW s \in Seq(Byte), NEW i \in 1 .. Len(s), NEW b \in Byte, b # s[i]
  PROVE  crc16_of([s EXCEPT ![i] = b]) # crc16_of(s)
<1> DEFINE t == [s EXCEPT ![i] = b]
           n == Len(s)
<1>1. /\ t \in Seq(Byte) /\ Len(t) = n /\ n \in Nat /\ i \in Nat /\ i >= 1 /\ i <= n
      /\ t[i] = b /\ \A j \in 1 .. n : j # i => t[j] = s[j]
      /\ \A j \in 1 .. n : s[j] \in Byte
  OBVIOUS
<1>. HIDE DEF t
<1>2. PICK f : Updates(f, s)
  BY CrcOfIs
<1>3. PICK h : Updates(h, t)
  BY <1>1, CrcOfIs
<1>4. f[i - 1] = h[i - 1]
  <2> DEFINE m == i - 1
  <2>1. m \in Nat /\ m <= n /\ m \in 0 .. m /\ \A j \in 1 .. m : s[j] = t[j]
    BY <1>1
  <2>. HIDE DEF m
  <2>2. \A j \in 0 .. m : f[j] = h[j]
    BY <2>1, <1>1, <1>2, <1>3, SamePrefix
  <2>3. f[m] = h[m]
    BY <2>1, <2>2
  <2>. QED BY <2>3 DEF m
<1> DEFINE K == {k \in Nat : i + k <= n => f[i + k] # h[i + k]}
<1>5. 0 \in K
  <2>1. i - 1 \in 0 .. n /\ i \in 1 .. n /\ i + 0 = i
    BY <1>1
  <2>2. f[i] = crc16_update(f[i - 1], s[i]) /\ h[i] = crc16_update(h[i - 1], t[i])
    BY <2>1, <1>1, <1>2, <1>3 DEF Updates
  <2>3. f[i - 1] \in Word
    BY <2>1, <1>2 DEF Updates
  <2>4. f[i] # h[i]
    BY <2>1, <2>2, <2>3, <1>1, <1>4, OtherByteDiffers
  <2>. QED BY <2>1, <2>4
<1>6. ASSUME NEW k \in K PROVE k + 1 \in K
  <2>1. SUFFICES ASSUME i + (k + 1) <= n PROVE f[i + (k + 1)] # h[i + (k + 1)]
    OBVIOUS
  <2> DEFINE j == i + (k + 1)
  <2>2. /\ j \in 1 .. n /\ j - 1 = i + k /\ i + k <= n /\ i + k \in 0 .. n /\ j # i
    BY <2>1, <1>1
  <2>3. f[j - 1] # h[j - 1] /\ f[j - 1] \in Word /\ h[j - 1] \in Word
    BY <2>2, <1>1, <1>2, <1>3 DEF Updates
  <2>4. f[j] = crc16_update(f[j - 1], s[j]) /\ h[j] = crc16_update(h[j - 1], t[j])
    BY <2>2, <1>1, <1>2, <1>3 DEF Updates
  <2>5. t[j] = s[j] /\ s[j] \in Byte
    BY <2>2, <1>1
  <2>6. f[j] # h[j]
    <3>. HIDE DEF j
    <3>. QED BY <2>3, <2>4, <2>5, OtherCrcDiffers
  <2>. QED BY <2>6
<1>7. K \in SUBSET Nat
  OBVIOUS
<1>8. \A k \in Nat : k \in K
  <2>. HIDE DEF K
  <2>. QED BY <1>5, <1>6, <1>7, SetInduction
<1>9. f[n] # h[n]
  <2>1. n - i \in Nat /\ i + (n - i) = n
    BY <1>1
  <2>2. i + (n - i) <= n => f[i + (n - i)] # h[i + (n - i)]
    BY <2>1, <1>8
  <2>. QED BY <2>1, <2>2
<1>10. crc16_of(s) = f[n] /\ crc16_of(t) = h[n]
  BY <1>1, <1>2, <1>3 DEF Updates
<1>. QED BY <1>9, <1>10 DEF t
-----------------------------------------------------------------------------
(* The long division, as the loop that it is.                              *)
Top(m) == WordBits + BitsPerByte * Len(m)

Reduced(k, rest) ==
  IF k \in rest THEN SymDiff(rest, TimesX(Generator, k - WordBits)) ELSE rest

Division(from, m) ==
  /\ from[Top(m)] = Dividend(m)
  /\ \A k \in WordBits .. Top(m) - 1 : from[k] = Reduced(k, from[k + 1])
  /\ \A k \in WordBits .. Top(m) : from[k] \in SUBSET Nat
  /\ Remainder(m) = from[WordBits]

LEMMA TimesXIsNatural ==
  ASSUME NEW p \in SUBSET Nat, NEW n \in Nat
  PROVE  TimesX(p, n) \in SUBSET Nat
BY DEF TimesX

LEMMA LengthInBits ==
  ASSUME NEW m \in Seq(Byte)
  PROVE  /\ BitsPerByte * Len(m) \in Nat /\ Top(m) \in Nat /\ Top(m) >= WordBits
         /\ \A i \in 1 .. Len(m) : BitsPerByte * (Len(m) - i) \in Nat
<1>1. Len(m) \in Nat /\ BitsPerByte \in Nat /\ WordBits \in Nat
  BY WidthsAre
<1>2. ASSUME NEW a \in Nat, NEW b \in Nat PROVE a * b \in Nat
  OBVIOUS
<1>3. \A i \in 1 .. Len(m) : Len(m) - i \in Nat
  BY <1>1
<1>4. BitsPerByte * Len(m) \in Nat
  BY <1>1, <1>2
<1>. QED BY <1>1, <1>2, <1>3, <1>4 DEF Top

LEMMA DividendIsNatural ==
  ASSUME NEW m \in Seq(Byte)
  PROVE  MessagePoly(m) \in SUBSET Nat /\ Dividend(m) \in SUBSET Nat
<1>1. ASSUME NEW i \in 1 .. Len(m)
      PROVE  TimesX(PolyOf(m[i], BitsPerByte), BitsPerByte * (Len(m) - i)) \in SUBSET Nat
  BY WidthsAre, PolyIsBounded, LengthInBits, TimesXIsNatural
<1>2. MessagePoly(m) \in SUBSET Nat
  BY <1>1 DEF MessagePoly
<1>3. TimesX(MessagePoly(m), WordBits) \in SUBSET Nat
  BY <1>2, WidthsAre, TimesXIsNatural
<1>4. TimesX(PolyOf(CRC16_INIT, WordBits), BitsPerByte * Len(m)) \in SUBSET Nat
  BY WidthsAre, PolyIsBounded, LengthInBits, TimesXIsNatural
<1>. QED BY <1>2, <1>3, <1>4 DEF Dividend, SymDiff

LEMMA ReducedIsNatural ==
  ASSUME NEW rest \in SUBSET Nat, NEW k \in Nat, k >= WordBits
  PROVE  Reduced(k, rest) \in SUBSET Nat
<1>1. TimesX(Generator, k - WordBits) \in SUBSET Nat
  BY WidthsAre, GeneratorIs, TimesXIsNatural
<1>. QED BY <1>1 DEF Reduced, SymDiff

LEMMA DivisionIs ==
  ASSUME NEW m \in Seq(Byte)
  PROVE  \E from : Division(from, m)
<1> DEFINE n == BitsPerByte * Len(m)
           top == WordBits + BitsPerByte * Len(m)
           S == SUBSET Nat
           g == [i \in 1 .. n |-> [rest \in S |-> Reduced(top - i, rest)]]
           a == Dividend(m)
<1>1. n \in Nat /\ top \in Nat /\ WordBits \in Nat /\ top = WordBits + n /\ a \in S
  BY WidthsAre, LengthInBits, DividendIsNatural
<1>. HIDE DEF n, top, a
<1>2. g \in [1 .. n -> [S -> S]]
  <2>1. ASSUME NEW i \in 1 .. n, NEW rest \in S PROVE Reduced(top - i, rest) \in S
    <3>1. top - i \in Nat /\ top - i >= WordBits
      BY <1>1
    <3>. QED BY <3>1, ReducedIsNatural
  <2>. QED BY <2>1
<1>3. \E f : IsLoop(f, S, a, n, g)
  <2>. HIDE DEF g, S
  <2>. QED BY <1>1, <1>2, LoopExists
<1>4. PICK f : f \in [0 .. n -> S] /\ f[0] = a /\ \A i \in 1 .. n : f[i] = g[i][f[i - 1]]
  BY <1>3 DEF IsLoop
<1>5. ASSUME NEW i \in 1 .. n PROVE f[i] = Reduced(top - i, f[i - 1])
  <2>1. i - 1 \in 0 .. n
    BY <1>1
  <2>2. f[i - 1] \in S
    BY <2>1, <1>4
  <2>. QED BY <2>2, <1>4
<1> DEFINE from == [k \in WordBits .. top |-> f[top - k]]
           e(k) == IF k = top THEN Dividend(m)
                   ELSE LET rest == from[k + 1]
                        IN  IF k \in rest
                            THEN SymDiff(rest, TimesX(Generator, k - WordBits)) ELSE rest
<1>6. ASSUME NEW k \in WordBits .. top PROVE from[k] = e(k)
  <2>1. CASE k = top
    <3>1. top - k = 0
      BY <1>1, <2>1
    <3>. QED BY <3>1, <2>1, <1>4 DEF a
  <2>2. CASE k # top
    <3>1. /\ top - k \in 1 .. n /\ k + 1 \in WordBits .. top
          /\ (top - k) - 1 = top - (k + 1) /\ top - (top - k) = k
      BY <1>1, <2>2
    <3>2. f[top - k] = Reduced(k, f[top - (k + 1)])
      BY <3>1, <1>5
    <3>3. from[k + 1] = f[top - (k + 1)] /\ from[k] = f[top - k]
      BY <3>1
    <3>. HIDE DEF from
    <3>. QED BY <3>2, <3>3, <2>2 DEF Reduced
  <2>. QED BY <2>1, <2>2
<1>7. from = [k \in WordBits .. top |-> e(k)]
  <2>. HIDE DEF e
  <2>. QED BY <1>6
<1>. HIDE DEF from
<1>8. from = [k \in WordBits .. WordBits + BitsPerByte * Len(m) |->
                IF k = WordBits + BitsPerByte * Len(m) THEN Dividend(m)
                ELSE LET rest == from[k + 1]
                     IN  IF k \in rest
                         THEN SymDiff(rest, TimesX(Generator, k - WordBits)) ELSE rest]
  BY <1>7 DEF top
<1>9. \E h : /\ h = [k \in WordBits .. WordBits + BitsPerByte * Len(m) |->
                       IF k = WordBits + BitsPerByte * Len(m) THEN Dividend(m)
                       ELSE LET rest == h[k + 1]
                            IN  IF k \in rest
                                THEN SymDiff(rest, TimesX(Generator, k - WordBits)) ELSE rest]
             /\ Remainder(m) = h[WordBits]
  BY <1>8, Zenon DEF Remainder
<1>10. PICK h : /\ h = [k \in WordBits .. top |->
                          IF k = top THEN Dividend(m) ELSE Reduced(k, h[k + 1])]
                /\ Remainder(m) = h[WordBits]
  BY <1>9 DEF Reduced, top
<1>11. h[top] = Dividend(m)
  <2>1. top \in WordBits .. top
    BY <1>1
  <2>. QED BY <2>1, <1>10
<1>12. ASSUME NEW k \in WordBits .. top - 1 PROVE h[k] = Reduced(k, h[k + 1])
  <2>1. k \in WordBits .. top /\ k # top
    BY <1>1
  <2>. QED BY <2>1, <1>10
<1>13. \A k \in WordBits .. top : h[k] \in S
  <2> DEFINE K == {j \in Nat : j <= n => h[top - j] \in S}
  <2>1. 0 \in K
    BY <1>1, <1>11 DEF a
  <2>2. ASSUME NEW j \in K PROVE j + 1 \in K
    <3>1. SUFFICES ASSUME j + 1 <= n PROVE h[top - (j + 1)] \in S
      OBVIOUS
    <3> DEFINE k == top - (j + 1)
    <3>2. k \in WordBits .. top - 1 /\ k + 1 = top - j /\ j <= n /\ k \in Nat /\ k >= WordBits
      BY <3>1, <1>1
    <3>3. h[k + 1] \in S
      BY <3>2
    <3>4. h[k] = Reduced(k, h[k + 1])
      BY <3>2, <1>12
    <3>. HIDE DEF k
    <3>5. h[k] \in S
      BY <3>2, <3>3, <3>4, ReducedIsNatural
    <3>. QED BY <3>5 DEF k
  <2>3. K \in SUBSET Nat
    OBVIOUS
  <2>4. \A j \in Nat : j \in K
    <3>. HIDE DEF K
    <3>. QED BY <2>1, <2>2, <2>3, SetInduction
  <2>5. ASSUME NEW k \in WordBits .. top PROVE h[k] \in S
    <3>1. top - k \in Nat /\ top - k <= n /\ top - (top - k) = k
      BY <1>1
    <3>2. h[top - (top - k)] \in S
      BY <3>1, <2>4
    <3>. QED BY <3>1, <3>2
  <2>. QED BY <2>5
<1>14. Top(m) = top
  BY DEF Top, top
<1>. QED BY <1>10, <1>11, <1>12, <1>13, <1>14 DEF Division
-----------------------------------------------------------------------------
(* A byte more multiplies what is divided by x^BitsPerByte, and adds the   *)
(* byte WordBits higher than its own place.                                *)
LEMMA TimesXTwice ==
  ASSUME NEW p \in SUBSET Nat, NEW i \in Nat, NEW j \in Nat
  PROVE  TimesX(TimesX(p, i), j) = TimesX(p, i + j)
<1>1. ASSUME NEW e \in TimesX(TimesX(p, i), j) PROVE e \in TimesX(p, i + j)
  <2>1. PICK d \in TimesX(p, i) : e = d + j
    BY DEF TimesX
  <2>2. PICK c \in p : d = c + i
    BY DEF TimesX
  <2>3. e = c + (i + j)
    BY <2>1, <2>2
  <2>. QED BY <2>3 DEF TimesX
<1>2. ASSUME NEW e \in TimesX(p, i + j) PROVE e \in TimesX(TimesX(p, i), j)
  <2>1. PICK c \in p : e = c + (i + j)
    BY DEF TimesX
  <2>2. e = (c + i) + j /\ c + i \in TimesX(p, i)
    BY <2>1 DEF TimesX
  <2>. QED BY <2>2 DEF TimesX
<1>. QED BY <1>1, <1>2

LEMMA TimesXNothing ==
  ASSUME NEW p \in SUBSET Nat
  PROVE  TimesX(p, 0) = p
<1>1. \A e \in p : e + 0 = e
  OBVIOUS
<1>. QED BY <1>1 DEF TimesX

LEMMA TimesXOfSum ==
  ASSUME NEW p \in SUBSET Nat, NEW q \in SUBSET Nat, NEW n \in Nat
  PROVE  TimesX(SymDiff(p, q), n) = SymDiff(TimesX(p, n), TimesX(q, n))
<1>1. ASSUME NEW a \in SUBSET Nat, NEW e \in Nat
      PROVE  e + n \in TimesX(a, n) <=> e \in a
  <2>1. ASSUME e + n \in TimesX(a, n) PROVE e \in a
    <3>1. PICK d \in a : e + n = d + n
      BY <2>1 DEF TimesX
    <3>2. e = d
      BY <3>1
    <3>. QED BY <3>2
  <2>. QED BY <2>1 DEF TimesX
<1>2. ASSUME NEW x \in TimesX(SymDiff(p, q), n)
      PROVE  x \in SymDiff(TimesX(p, n), TimesX(q, n))
  <2>1. PICK e \in SymDiff(p, q) : x = e + n
    BY DEF TimesX
  <2>2. e \in Nat /\ ~ (e \in p <=> e \in q)
    BY DEF SymDiff
  <2>3. ~ (e + n \in TimesX(p, n) <=> e + n \in TimesX(q, n))
    BY <2>2, <1>1
  <2>. QED BY <2>1, <2>3 DEF SymDiff
<1>3. ASSUME NEW x \in SymDiff(TimesX(p, n), TimesX(q, n))
      PROVE  x \in TimesX(SymDiff(p, q), n)
  <2>1. PICK e \in Nat : x = e + n
    BY DEF SymDiff, TimesX
  <2>2. ~ (e \in p <=> e \in q)
    BY <2>1, <1>1 DEF SymDiff
  <2>3. e \in SymDiff(p, q)
    BY <2>2 DEF SymDiff
  <2>. QED BY <2>1, <2>3 DEF TimesX
<1>. QED BY <1>2, <1>3

LEMMA SumsRegroup ==
  ASSUME NEW a, NEW b, NEW c
  PROVE  SymDiff(SymDiff(a, b), c) = SymDiff(SymDiff(a, c), b)
BY DEF SymDiff

ByteTerms(byte) == TimesX(PolyOf(byte, BitsPerByte), WordBits)

LEMMA ByteTermsAre ==
  ASSUME NEW byte \in Byte
  PROVE  /\ ByteTerms(byte) \in SUBSET Nat
         /\ \A e \in ByteTerms(byte) : e < WordBits + BitsPerByte
<1>1. PolyOf(byte, BitsPerByte) \in SUBSET Nat
  BY WidthsAre, PolyIsBounded
<1>2. ByteTerms(byte) \in SUBSET Nat
  BY <1>1, WidthsAre, TimesXIsNatural DEF ByteTerms
<1>3. ASSUME NEW e \in ByteTerms(byte) PROVE e < WordBits + BitsPerByte
  <2>1. PICK d \in PolyOf(byte, BitsPerByte) : e = d + WordBits
    BY DEF ByteTerms, TimesX
  <2>2. d \in Nat /\ d < BitsPerByte
    BY WidthsAre, PolyIsBounded
  <2>. QED BY <2>1, <2>2, WidthsAre
<1>. QED BY <1>2, <1>3

LEMMA LongerMessagePoly ==
  ASSUME NEW m \in Seq(Byte), NEW byte \in Byte
  PROVE  MessagePoly(Append(m, byte))
           = TimesX(MessagePoly(m), BitsPerByte) \union PolyOf(byte, BitsPerByte)
<1> DEFINE n == Len(m)
           t == Append(m, byte)
           part(s, i, k) == TimesX(PolyOf(s[i], BitsPerByte), BitsPerByte * k)
<1>1. /\ Len(t) = n + 1 /\ n \in Nat /\ t[n + 1] = byte
      /\ \A i \in 1 .. n : t[i] = m[i] /\ m[i] \in Byte
  OBVIOUS
<1>. HIDE DEF t
<1>2. ASSUME NEW i \in 1 .. n
      PROVE  part(t, i, (n + 1) - i) = TimesX(part(m, i, n - i), BitsPerByte)
  <2> DEFINE p == PolyOf(m[i], BitsPerByte)
             k == n - i
             j == BitsPerByte * k
  <2>1. p \in SUBSET Nat /\ BitsPerByte \in Nat /\ k \in Nat /\ (n + 1) - i = k + 1
    BY <1>1, WidthsAre, PolyIsBounded
  <2>2. j \in Nat /\ BitsPerByte * (k + 1) = j + BitsPerByte
    <3>. HIDE DEF k
    <3>. QED BY <2>1
  <2>3. TimesX(TimesX(p, j), BitsPerByte) = TimesX(p, j + BitsPerByte)
    <3>. HIDE DEF p, j
    <3>. QED BY <2>1, <2>2, TimesXTwice
  <2>4. part(t, i, (n + 1) - i) = TimesX(p, BitsPerByte * (k + 1))
    BY <1>1, <2>1
  <2>. QED BY <2>2, <2>3, <2>4
<1>3. part(t, n + 1, (n + 1) - (n + 1)) = PolyOf(byte, BitsPerByte)
  <2>1. (n + 1) - (n + 1) = 0 /\ BitsPerByte * 0 = 0
    BY <1>1, WidthsAre
  <2>2. PolyOf(byte, BitsPerByte) \in SUBSET Nat
    BY WidthsAre, PolyIsBounded
  <2>. QED BY <2>1, <2>2, <1>1, TimesXNothing
<1>. HIDE DEF n
<1>4. MessagePoly(t) = UNION {part(t, i, (n + 1) - i) : i \in 1 .. n + 1}
  BY <1>1 DEF MessagePoly
<1>5. MessagePoly(m) = UNION {part(m, i, n - i) : i \in 1 .. n}
  BY DEF MessagePoly, n
<1>. HIDE DEF part
<1>6. ASSUME NEW e \in MessagePoly(t)
      PROVE  e \in TimesX(MessagePoly(m), BitsPerByte) \union PolyOf(byte, BitsPerByte)
  <2>1. PICK i \in 1 .. n + 1 : e \in part(t, i, (n + 1) - i)
    BY <1>4
  <2>2. CASE i = n + 1
    BY <2>1, <2>2, <1>3
  <2>3. CASE i # n + 1
    <3>1. i \in 1 .. n
      BY <2>3, <1>1
    <3>2. PICK d \in part(m, i, n - i) : e = d + BitsPerByte
      BY <2>1, <3>1, <1>2 DEF TimesX
    <3>3. d \in MessagePoly(m)
      BY <3>1, <1>5
    <3>. QED BY <3>2, <3>3 DEF TimesX
  <2>. QED BY <2>2, <2>3
<1>7. ASSUME NEW e \in TimesX(MessagePoly(m), BitsPerByte) PROVE e \in MessagePoly(t)
  <2>1. PICK d \in MessagePoly(m) : e = d + BitsPerByte
    BY DEF TimesX
  <2>2. PICK i \in 1 .. n : d \in part(m, i, n - i)
    BY <1>5
  <2>3. e \in part(t, i, (n + 1) - i)
    BY <2>1, <2>2, <1>2 DEF TimesX
  <2>4. i \in 1 .. n + 1
    BY <1>1
  <2>. QED BY <2>3, <2>4, <1>4
<1>8. ASSUME NEW e \in PolyOf(byte, BitsPerByte) PROVE e \in MessagePoly(t)
  <2>1. n + 1 \in 1 .. n + 1
    BY <1>1
  <2>. QED BY <2>1, <1>3, <1>4
<1>9. MessagePoly(t)
        = TimesX(MessagePoly(m), BitsPerByte) \union PolyOf(byte, BitsPerByte)
  BY <1>6, <1>7, <1>8
<1>. QED BY <1>9 DEF t

LEMMA LongerDividend ==
  ASSUME NEW m \in Seq(Byte), NEW byte \in Byte
  PROVE  Dividend(Append(m, byte))
           = SymDiff(TimesX(Dividend(m), BitsPerByte), ByteTerms(byte))
<1> DEFINE t == Append(m, byte)
           B == BitsPerByte
           p == MessagePoly(m)
           b == PolyOf(byte, BitsPerByte)
           c == PolyOf(CRC16_INIT, WordBits)
           n == BitsPerByte * Len(m)
           x == TimesX(TimesX(p, WordBits), B)
           y == ByteTerms(byte)
           z == TimesX(TimesX(c, n), B)
<1>1. /\ p \in SUBSET Nat /\ b \in SUBSET Nat /\ c \in SUBSET Nat
      /\ B \in Nat /\ WordBits \in Nat /\ n \in Nat
  BY WidthsAre, PolyIsBounded, DividendIsNatural, LengthInBits
<1>2. BitsPerByte * Len(t) = n + B
  <2>1. Len(t) = Len(m) + 1 /\ Len(m) \in Nat
    OBVIOUS
  <2>. HIDE DEF t
  <2>. QED BY <2>1, WidthsAre
<1>3. MessagePoly(t) = TimesX(p, B) \union b
  BY LongerMessagePoly
<1>. HIDE DEF t, p, b, c, n, B
<1>4. TimesX(MessagePoly(t), WordBits) = x \union y
  <2>1. TimesX(TimesX(p, B) \union b, WordBits)
          = TimesX(TimesX(p, B), WordBits) \union TimesX(b, WordBits)
    BY DEF TimesX
  <2>2. TimesX(TimesX(p, B), WordBits) = TimesX(p, B + WordBits) /\ x = TimesX(p, WordBits + B)
    BY <1>1, TimesXTwice
  <2>3. B + WordBits = WordBits + B
    BY <1>1
  <2>. QED BY <1>3, <2>1, <2>2, <2>3 DEF ByteTerms, b
<1>5. TimesX(c, BitsPerByte * Len(t)) = z
  BY <1>1, <1>2, TimesXTwice
<1>6. x \intersect y = {}
  <2>1. ASSUME NEW e \in x PROVE e >= WordBits + B
    <3>1. x = TimesX(p, WordBits + B)
      BY <1>1, TimesXTwice
    <3>2. PICK d \in p : e = d + (WordBits + B)
      BY <3>1 DEF TimesX
    <3>. QED BY <3>2, <1>1
  <2>2. ASSUME NEW e \in y PROVE e \in Nat /\ e < WordBits + B
    BY ByteTermsAre DEF B
  <2>. HIDE DEF x, y
  <2>. QED BY <2>1, <2>2, <1>1
<1>7. Dividend(t) = SymDiff(x \union y, z)
  BY <1>4, <1>5 DEF Dividend, c
<1>8. TimesX(Dividend(m), B) = SymDiff(x, z)
  <2>1. TimesX(p, WordBits) \in SUBSET Nat /\ TimesX(c, n) \in SUBSET Nat
    BY <1>1, TimesXIsNatural
  <2>2. Dividend(m) = SymDiff(TimesX(p, WordBits), TimesX(c, n))
    BY DEF Dividend, p, c, n
  <2>. QED BY <1>1, <2>1, <2>2, TimesXOfSum
<1>. HIDE DEF x, y, z
<1>9. SymDiff(x \union y, z) = SymDiff(SymDiff(x, z), y)
  BY <1>6 DEF SymDiff
<1>. QED BY <1>7, <1>8, <1>9 DEF t, B, y

(* The division of the longer message goes the same way, BitsPerByte       *)
(* higher, until the byte is met.                                          *)
LEMMA ReducedShifts ==
  ASSUME NEW rest \in SUBSET Nat, NEW k \in Nat, k >= WordBits, NEW byte \in Byte
  PROVE  Reduced(k + BitsPerByte, SymDiff(TimesX(rest, BitsPerByte), ByteTerms(byte)))
           = SymDiff(TimesX(Reduced(k, rest), BitsPerByte), ByteTerms(byte))
<1> DEFINE B == BitsPerByte
           x == TimesX(rest, B)
           y == ByteTerms(byte)
           g == TimesX(Generator, k - WordBits)
<1>1. B \in Nat /\ WordBits \in Nat /\ k - WordBits \in Nat
  BY WidthsAre
<1>2. k + B \notin y
  <2>1. k + B \in y => k + B < WordBits + B
    BY ByteTermsAre
  <2>. QED BY <2>1, <1>1
<1>3. k + B \in x <=> k \in rest
  <2>1. ASSUME k + B \in x PROVE k \in rest
    <3>1. PICK d \in rest : k + B = d + B
      BY <2>1 DEF TimesX
    <3>2. k = d
      BY <3>1, <1>1
    <3>. QED BY <3>2
  <2>. QED BY <2>1 DEF TimesX
<1>4. k + B \in SymDiff(x, y) <=> k \in rest
  <2>. HIDE DEF x, y
  <2>. QED BY <1>2, <1>3 DEF SymDiff
<1>5. CASE k \in rest
  <2>1. g \in SUBSET Nat /\ Generator \in SUBSET Nat
    BY <1>1, GeneratorIs, TimesXIsNatural
  <2>2. TimesX(Generator, (k + B) - WordBits) = TimesX(g, B)
    <3>1. (k - WordBits) + B = (k + B) - WordBits
      BY <1>1
    <3>2. TimesX(TimesX(Generator, k - WordBits), B) = TimesX(Generator, (k - WordBits) + B)
      <4> DEFINE i == k - WordBits
      <4>1. i \in Nat
        BY <1>1
      <4>. HIDE DEF i, B
      <4>2. TimesX(TimesX(Generator, i), B) = TimesX(Generator, i + B)
        BY <1>1, <2>1, <4>1, TimesXTwice
      <4>. QED BY <4>2 DEF i
    <3>. QED BY <3>1, <3>2
  <2>3. Reduced(k + B, SymDiff(x, y)) = SymDiff(SymDiff(x, y), TimesX(g, B))
    BY <1>4, <1>5, <2>2 DEF Reduced
  <2>4. Reduced(k, rest) = SymDiff(rest, g)
    BY <1>5 DEF Reduced
  <2>5. TimesX(SymDiff(rest, g), B) = SymDiff(x, TimesX(g, B))
    <3>. HIDE DEF g, B
    <3>. QED BY <1>1, <2>1, TimesXOfSum
  <2>6. SymDiff(SymDiff(x, y), TimesX(g, B)) = SymDiff(SymDiff(x, TimesX(g, B)), y)
    BY SumsRegroup
  <2>. QED BY <2>3, <2>4, <2>5, <2>6
<1>6. CASE k \notin rest
  BY <1>4, <1>6 DEF Reduced
<1>. QED BY <1>5, <1>6

LEMMA LongerDivision ==
  ASSUME NEW m \in Seq(Byte), NEW byte \in Byte, NEW f, NEW h,
         Division(f, m), Division(h, Append(m, byte))
  PROVE  h[WordBits + BitsPerByte]
           = SymDiff(TimesX(Remainder(m), BitsPerByte), ByteTerms(byte))
<1> DEFINE t == Append(m, byte)
           B == BitsPerByte
           n == Top(m) - WordBits
           Shifted(k) == h[k + B] = SymDiff(TimesX(f[k], B), ByteTerms(byte))
           K == {j \in Nat : j <= n => Shifted(Top(m) - j)}
<1>1. B \in Nat /\ WordBits \in Nat /\ Top(m) \in Nat /\ n \in Nat
  BY WidthsAre, LengthInBits
<1>2. Top(t) = Top(m) + B
  <2>1. Len(t) = Len(m) + 1 /\ Len(m) \in Nat
    OBVIOUS
  <2> DEFINE l == Len(m)
  <2>2. l \in Nat /\ Top(t) = WordBits + BitsPerByte * (l + 1)
    BY <2>1 DEF Top
  <2>3. BitsPerByte * (l + 1) = BitsPerByte * l + BitsPerByte /\ BitsPerByte * l \in Nat
    <3>. HIDE DEF l
    <3>. QED BY <2>2, WidthsAre
  <2>. QED BY <2>2, <2>3, <1>1 DEF Top
<1>3. 0 \in K
  <2>1. f[Top(m)] = Dividend(m) /\ h[Top(t)] = Dividend(t)
    BY DEF Division
  <2>2. Shifted(Top(m))
    BY <2>1, <1>2, LongerDividend
  <2>3. Top(m) - 0 = Top(m)
    BY <1>1
  <2>. QED BY <2>2, <2>3
<1>4. ASSUME NEW j \in K PROVE j + 1 \in K
  <2>1. SUFFICES ASSUME j + 1 <= n PROVE Shifted(Top(m) - (j + 1))
    OBVIOUS
  <2> DEFINE k == Top(m) - (j + 1)
  <2>2. /\ k \in WordBits .. Top(m) - 1 /\ k + 1 = Top(m) - j /\ j <= n
        /\ k \in Nat /\ k >= WordBits /\ k + 1 \in WordBits .. Top(m)
        /\ k + B \in WordBits .. Top(t) - 1 /\ (k + B) + 1 = (k + 1) + B
    <3>1. j \in Nat
      OBVIOUS
    <3> DEFINE last == Top(m)
               first == Top(t)
    <3>2. last \in Nat /\ first = last + B /\ n = last - WordBits
      BY <1>1, <1>2
    <3>3. k = last - (j + 1)
      OBVIOUS
    <3>. HIDE DEF K, t, B, n, k, last, first
    <3>4. k \in WordBits .. last - 1 /\ j <= n
      BY <3>1, <3>2, <3>3, <2>1, <1>1
    <3>5. /\ k + 1 = last - j /\ k \in Nat /\ k >= WordBits /\ k + 1 \in WordBits .. last
          /\ k + B \in WordBits .. first - 1 /\ (k + B) + 1 = (k + 1) + B
      BY <3>1, <3>2, <3>3, <3>4, <1>1
    <3>. QED BY <3>4, <3>5 DEF last, first
  <2>. HIDE DEF k, t
  <2>3. Shifted(k + 1)
    BY <2>2
  <2>4. f[k] = Reduced(k, f[k + 1]) /\ f[k + 1] \in SUBSET Nat
    BY <2>2 DEF Division
  <2>5. h[k + B] = Reduced(k + B, h[(k + B) + 1])
    BY <2>2 DEF Division, t
  <2>6. h[k + B] = Reduced(k + B, SymDiff(TimesX(f[k + 1], B), ByteTerms(byte)))
    BY <2>2, <2>3, <2>5
  <2>7. Shifted(k)
    BY <2>2, <2>4, <2>6, ReducedShifts
  <2>. QED BY <2>7 DEF k
<1>5. K \in SUBSET Nat
  OBVIOUS
<1>6. \A j \in Nat : j \in K
  <2>. HIDE DEF K
  <2>. QED BY <1>3, <1>4, <1>5, SetInduction
<1>7. Shifted(WordBits)
  <2>1. n \in Nat /\ Top(m) - n = WordBits
    BY <1>1
  <2>2. n <= n => Shifted(Top(m) - n)
    BY <2>1, <1>6
  <2>. QED BY <2>1, <2>2
<1>8. f[WordBits] = Remainder(m)
  BY DEF Division
<1>. QED BY <1>7, <1>8

(* What is left of the division are the rounds of crc16_update.            *)
LEMMA RoundReduces ==
  ASSUME NEW p \in SUBSET Nat, NEW j \in Nat
  PROVE  Reduced(WordBits + j, TimesX(p, j + 1)) = TimesX(RoundOf(p), j)
<1> DEFINE x == TimesX(p, 1)
<1>1. WordBits \in Nat /\ x \in SUBSET Nat /\ Generator \in SUBSET Nat
  BY WidthsAre, GeneratorIs, TimesXIsNatural
<1>2. TimesX(x, j) = TimesX(p, j + 1)
  <2>1. TimesX(TimesX(p, 1), j) = TimesX(p, 1 + j)
    BY TimesXTwice
  <2>2. 1 + j = j + 1
    OBVIOUS
  <2>. QED BY <2>1, <2>2
<1>3. WordBits + j \in TimesX(p, j + 1) <=> WordBits - 1 \in p
  <2>1. ASSUME WordBits + j \in TimesX(p, j + 1) PROVE WordBits - 1 \in p
    <3>1. PICK d \in p : WordBits + j = d + (j + 1)
      BY <2>1 DEF TimesX
    <3>2. WordBits - 1 = d
      BY <3>1, <1>1
    <3>. QED BY <3>2
  <2>2. ASSUME WordBits - 1 \in p PROVE WordBits + j \in TimesX(p, j + 1)
    <3>1. WordBits + j = (WordBits - 1) + (j + 1)
      BY <1>1
    <3>. QED BY <3>1, <2>2 DEF TimesX
  <2>. QED BY <2>1, <2>2
<1>4. (WordBits + j) - WordBits = j
  BY <1>1
<1>5. CASE WordBits - 1 \in p
  <2>1. Reduced(WordBits + j, TimesX(p, j + 1)) = SymDiff(TimesX(x, j), TimesX(Generator, j))
    BY <1>2, <1>3, <1>4, <1>5 DEF Reduced
  <2>2. TimesX(SymDiff(x, Generator), j) = SymDiff(TimesX(x, j), TimesX(Generator, j))
    <3>. HIDE DEF x
    <3>. QED BY <1>1, TimesXOfSum
  <2>. QED BY <2>1, <2>2, <1>5 DEF RoundOf
<1>6. CASE WordBits - 1 \notin p
  BY <1>2, <1>3, <1>6 DEF Reduced, RoundOf
<1>. QED BY <1>5, <1>6

LEMMA UpdateIsRemainder ==
  ASSUME NEW m \in Seq(Byte), NEW byte \in Byte, NEW w \in Word,
         Poly(w) = Remainder(m)
  PROVE  Poly(crc16_update(w, byte)) = Remainder(Append(m, byte))
<1> DEFINE t == Append(m, byte)
           B == BitsPerByte
           b == PolyOf(byte, BitsPerByte)
<1>1. /\ B \in Nat /\ WordBits \in Nat /\ WordBits = B + B /\ B >= 1
      /\ b \in SUBSET Nat /\ Poly(w) \in SUBSET Nat /\ TimesX(b, B) \in SUBSET Nat
  BY WidthsAre, PolyIsBounded, TimesXIsNatural DEF Poly
<1>2. t \in Seq(Byte)
  OBVIOUS
<1>3. PICK f : Division(f, m)
  BY DivisionIs
<1>4. PICK h : Division(h, t)
  BY <1>2, DivisionIs
<1>5. PICK r : Rounds(r, w, byte)
  BY UpdateIs
<1>6. Top(t) >= WordBits + B /\ Top(t) \in Nat
  <2>1. Len(t) = Len(m) + 1 /\ Len(m) \in Nat
    OBVIOUS
  <2> DEFINE l == Len(m)
  <2>2. l \in Nat /\ Top(t) = WordBits + BitsPerByte * (l + 1)
    BY <2>1 DEF Top
  <2>3. BitsPerByte * (l + 1) = BitsPerByte * l + BitsPerByte /\ BitsPerByte * l \in Nat
    <3>. HIDE DEF l
    <3>. QED BY <2>2, WidthsAre
  <2>. QED BY <2>2, <2>3, <1>1
<1> DEFINE K == {i \in Nat : i <= B => h[(WordBits + B) - i] = TimesX(Poly(r[i]), B - i)}
<1>. HIDE DEF t
<1>7. 0 \in K
  <2>1. h[WordBits + B] = SymDiff(TimesX(Poly(w), B), ByteTerms(byte))
    BY <1>3, <1>4, LongerDivision DEF t
  <2>2. ByteTerms(byte) = TimesX(TimesX(b, B), B)
    <3>. HIDE DEF b, B
    <3>1. TimesX(TimesX(b, B), B) = TimesX(b, B + B)
      BY <1>1, TimesXTwice
    <3>. QED BY <3>1, <1>1 DEF ByteTerms, b
  <2>3. TimesX(SymDiff(Poly(w), TimesX(b, B)), B)
          = SymDiff(TimesX(Poly(w), B), TimesX(TimesX(b, B), B))
    <3>. HIDE DEF b, B
    <3>. QED BY <1>1, TimesXOfSum
  <2>4. Poly(r[0]) = SymDiff(Poly(w), TimesX(b, B))
    BY <1>5, BytePoly DEF Rounds
  <2>5. (WordBits + B) - 0 = WordBits + B /\ B - 0 = B
    BY <1>1
  <2>. QED BY <2>1, <2>2, <2>3, <2>4, <2>5
<1>8. ASSUME NEW i \in K PROVE i + 1 \in K
  <2>1. SUFFICES ASSUME i + 1 <= B
                 PROVE  h[(WordBits + B) - (i + 1)] = TimesX(Poly(r[i + 1]), B - (i + 1))
    OBVIOUS
  <2> DEFINE j == B - (i + 1)
  <2>2. /\ j \in Nat /\ j + 1 = B - i /\ i <= B /\ i + 1 \in 1 .. B /\ i \in 0 .. B
        /\ (WordBits + B) - (i + 1) = WordBits + j
        /\ (WordBits + B) - i = (WordBits + j) + 1
        /\ WordBits + j \in WordBits .. Top(t) - 1 /\ (i + 1) - 1 = i
    <3>1. i \in Nat
      OBVIOUS
    <3>. HIDE DEF K, B
    <3>. QED BY <3>1, <2>1, <1>1, <1>6
  <2>. HIDE DEF j
  <2>3. h[(WordBits + j) + 1] = TimesX(Poly(r[i]), j + 1)
    BY <2>2
  <2>4. h[WordBits + j] = Reduced(WordBits + j, h[(WordBits + j) + 1])
    BY <2>2, <1>4 DEF Division
  <2>5. r[i] \in Word /\ r[i + 1] = crc16_shift(r[i])
    BY <2>2, <1>5 DEF Rounds
  <2>6. Poly(r[i + 1]) = RoundOf(Poly(r[i])) /\ Poly(r[i]) \in SUBSET Nat
    BY <2>5, <1>1, ShiftPoly, PolyIsBounded DEF Poly
  <2>7. Reduced(WordBits + j, TimesX(Poly(r[i]), j + 1)) = TimesX(RoundOf(Poly(r[i])), j)
    BY <2>2, <2>6, RoundReduces
  <2>8. h[WordBits + j] = TimesX(Poly(r[i + 1]), j)
    BY <2>3, <2>4, <2>6, <2>7
  <2>. QED BY <2>2, <2>8 DEF j
<1>9. K \in SUBSET Nat
  OBVIOUS
<1>10. \A i \in Nat : i \in K
  <2>. HIDE DEF K
  <2>. QED BY <1>7, <1>8, <1>9, SetInduction
<1>11. h[WordBits] = Poly(r[B])
  <2>1. (WordBits + B) - B = WordBits /\ B - B = 0 /\ B <= B
    BY <1>1
  <2>2. h[(WordBits + B) - B] = TimesX(Poly(r[B]), B - B)
    BY <2>1, <1>1, <1>10
  <2>3. Poly(r[B]) \in SUBSET Nat
    BY <1>1, PolyIsBounded DEF Poly
  <2>. QED BY <2>1, <2>2, <2>3, TimesXNothing
<1>12. crc16_update(w, byte) = r[B] /\ Remainder(t) = h[WordBits]
  BY <1>4, <1>5 DEF Rounds, Division
<1>. QED BY <1>11, <1>12 DEF t

LEMMA EmptyMessage ==
  /\ << >> \in Seq(Byte)
  /\ crc16_of(<< >>) = crc16_init
  /\ Poly(crc16_init) = Remainder(<< >>)
<1>1. << >> \in Seq(Byte) /\ Len(<< >>) = 0
  OBVIOUS
<1>2. crc16_of(<< >>) = crc16_init
  <2>1. PICK f : Updates(f, << >>)
    BY <1>1, CrcOfIs
  <2>. QED BY <2>1, <1>1 DEF Updates, crc16_init
<1>3. PICK h : Division(h, << >>)
  BY <1>1, DivisionIs
<1>4. BitsPerByte * 0 = 0 /\ WordBits + 0 = WordBits
  BY WidthsAre
<1>5. Remainder(<< >>) = Dividend(<< >>)
  BY <1>1, <1>3, <1>4 DEF Division, Top
<1>6. MessagePoly(<< >>) = {}
  <2>1. 1 .. Len(<< >>) = {}
    BY <1>1
  <2>. QED BY <2>1 DEF MessagePoly
<1>7. TimesX(MessagePoly(<< >>), WordBits) = {}
  BY <1>6 DEF TimesX
<1>8. TimesX(Poly(CRC16_INIT), BitsPerByte * Len(<< >>)) = Poly(CRC16_INIT)
  <2>1. Poly(CRC16_INIT) \in SUBSET Nat
    BY WidthsAre, PolyIsBounded DEF Poly
  <2>. QED BY <2>1, <1>1, <1>4, TimesXNothing
<1>9. Dividend(<< >>) = SymDiff({}, Poly(CRC16_INIT))
  BY <1>7, <1>8 DEF Dividend, Poly
<1>10. SymDiff({}, Poly(CRC16_INIT)) = Poly(CRC16_INIT)
  BY DEF SymDiff
<1>. QED BY <1>1, <1>2, <1>5, <1>9, <1>10 DEF crc16_init
-----------------------------------------------------------------------------
ChecksumInv ==
  /\ message \in Seq(Byte) /\ crc \in Word
  /\ crc = crc16_of(message)
  /\ RunningIsRemainder

LEMMA ChecksumInit == ArithmeticInit => ChecksumInv
<1>. SUFFICES ASSUME ArithmeticInit PROVE ChecksumInv
  OBVIOUS
<1>1. message = << >> /\ crc = crc16_init
  BY DEF ArithmeticInit
<1>2. crc16_init \in Word
  BY WidthsAre DEF crc16_init
<1>. QED BY <1>1, <1>2, EmptyMessage DEF ChecksumInv, RunningIsRemainder, Poly

LEMMA ChecksumNext == ChecksumInv /\ [ArithmeticNext]_arithmetic_vars => ChecksumInv'
<1>. SUFFICES ASSUME ChecksumInv, [ArithmeticNext]_arithmetic_vars PROVE ChecksumInv'
  OBVIOUS
<1>1. ASSUME UNCHANGED <<message, crc>> PROVE ChecksumInv'
  BY <1>1 DEF ChecksumInv, RunningIsRemainder
<1>2. ASSUME NEW byte \in Bytes, Feed(byte) PROVE ChecksumInv'
  <2>1. byte \in Byte
    BY ArithmeticAssumption DEF Byte
  <2>2. message' = Append(message, byte) /\ crc' = crc16_update(crc, byte)
    BY <1>2 DEF Feed
  <2>3. message \in Seq(Byte) /\ crc \in Word /\ crc = crc16_of(message)
    BY DEF ChecksumInv
  <2>4. Poly(crc) = Remainder(message)
    BY DEF ChecksumInv, RunningIsRemainder, Poly
  <2>5. message' \in Seq(Byte) /\ crc' \in Word
    BY <2>1, <2>2, <2>3, UpdateIs
  <2>6. crc' = crc16_of(message')
    BY <2>1, <2>2, <2>3, CrcOfAppend
  <2>7. Poly(crc') = Remainder(message')
    BY <2>1, <2>2, <2>3, <2>4, UpdateIsRemainder
  <2>8. RunningIsRemainder'
    BY <2>7 DEF RunningIsRemainder, Poly
  <2>. QED BY <2>5, <2>6, <2>8 DEF ChecksumInv
<1>. QED BY <1>1, <1>2 DEF ArithmeticNext, Calibrate, arithmetic_vars

LEMMA ChecksumDetects == ChecksumInv => OneWrongByteDetected
<1>. SUFFICES ASSUME ChecksumInv, NEW i \in 1 .. Len(message),
                     NEW b \in Bytes \ {message[i]}
              PROVE  crc16_of([message EXCEPT ![i] = b]) # crc
  BY DEF OneWrongByteDetected
<1>1. message \in Seq(Byte) /\ crc = crc16_of(message) /\ b \in Byte /\ b # message[i]
  BY ArithmeticAssumption DEF ChecksumInv, Byte
<1>. QED BY <1>1, OneOtherByte

(* crc16_update, called for every byte as APPEND does, has after each of   *)
(* them the remainder of the message on division by the polynomial.        *)
THEOREM RunningIsAlwaysRemainder == ArithmeticSpec => []RunningIsRemainder
<1>1. ChecksumInv => RunningIsRemainder
  BY DEF ChecksumInv
<1>. QED BY <1>1, ChecksumInit, ChecksumNext, PTL DEF ArithmeticSpec

(* storage_calc_crc over a script of which one byte is not what was        *)
(* checksummed gives another value, wherever that byte is.                 *)
THEOREM OneWrongByteAlwaysDetected == ArithmeticSpec => []OneWrongByteDetected
BY ChecksumInit, ChecksumNext, ChecksumDetects, PTL DEF ArithmeticSpec

(* What the protocol's modules assume of the checksum is true of crc16.c:  *)
(* an update makes a word of a word, and the loop over a sequence is the   *)
(* loop over all but its last byte and one update.                         *)
THEOREM ChecksumIsIncremental ==
  /\ crc16_init \in Word
  /\ \A word \in Word, byte \in Byte : crc16_update(word, byte) \in Word
  /\ crc16_of(<< >>) = crc16_init
  /\ \A bytes \in Seq(Byte) : crc16_of(bytes) \in Word
  /\ \A bytes \in Seq(Byte), byte \in Byte :
       crc16_of(Append(bytes, byte)) = crc16_update(crc16_of(bytes), byte)
<1>1. crc16_init \in Word
  BY WidthsAre DEF crc16_init
<1>. QED BY <1>1, UpdateIs, EmptyMessage, CrcOfIs, CrcOfAppend
=============================================================================

---------------------------- MODULE TimerProofs -----------------------------
(***************************************************************************)
(* What timer_elapsed promises, for every width of the counter, every      *)
(* duration and every time between two looks: no wait is short, and none   *)
(* is late whose duration leaves room for a poll before the counter wraps. *)
(***************************************************************************)
EXTENDS Timer, TLAPS

(* The remainders that a counter of CounterBase values meets.              *)
LEMMA SmallRemainder ==
  ASSUME NEW a \in Word
  PROVE  a % CounterBase = a
BY TimerAssumption, SMT DEF Word, TimerAssumption

LEMMA Wrapped == CounterBase % CounterBase = 0
BY TimerAssumption, SMT DEF TimerAssumption

LEMMA NegativeRemainder ==
  ASSUME NEW a \in Word, a > 0
  PROVE  (-a) % CounterBase = CounterBase - a
BY TimerAssumption, SMT DEF Word, TimerAssumption

LEMMA RemainderInWord ==
  ASSUME NEW a \in Int
  PROVE  a % CounterBase \in Word
BY TimerAssumption, SMT DEF Word, TimerAssumption

(* How far the counter is past the start of the wait, up to one round.     *)
Distance ==
  IF millis_counter >= wait.start THEN millis_counter - wait.start
  ELSE millis_counter - wait.start + CounterBase

LEMMA ElapsedIsDistance ==
  ASSUME TypeOK
  PROVE  /\ Distance \in Word
         /\ (millis_counter - wait.start) % CounterBase = Distance
<1> /\ millis_counter \in Word /\ wait.start \in Word
    /\ CounterBase \in Nat \ {0}
  BY TimerAssumption DEF TypeOK, TimerAssumption
<1>1. CASE millis_counter >= wait.start
  <2>1. millis_counter - wait.start \in Word
    BY <1>1 DEF Word
  <2> QED
    BY <1>1, <2>1, SmallRemainder DEF Distance
<1>2. CASE ~ (millis_counter >= wait.start)
  <2>1. wait.start - millis_counter \in Word /\ wait.start - millis_counter > 0
    BY <1>2 DEF Word
  <2>2. (-(wait.start - millis_counter)) % CounterBase
          = CounterBase - (wait.start - millis_counter)
    BY <2>1, NegativeRemainder
  <2>3. -(wait.start - millis_counter) = millis_counter - wait.start
    BY DEF Word
  <2> QED
    BY <1>2, <2>1, <2>2, <2>3 DEF Distance, Word
<1> QED
  BY <1>1, <1>2

LEMMA NextCount ==
  ASSUME TypeOK
  PROVE  /\ (millis_counter + 1) % CounterBase \in Word
         /\ (millis_counter + 1) % CounterBase
              = IF millis_counter + 1 = CounterBase THEN 0 ELSE millis_counter + 1
<1> millis_counter \in Word /\ CounterBase \in Nat \ {0}
  BY TimerAssumption DEF TypeOK, TimerAssumption
<1>1. millis_counter + 1 = CounterBase \/ millis_counter + 1 \in Word
  BY DEF Word
<1> QED
  BY <1>1, SmallRemainder, Wrapped DEF Word
-----------------------------------------------------------------------------
(* The types, and the counter is as far past the start as the ticks that   *)
(* have elapsed, less a whole round.                                       *)
Agrees ==
  Waiting /\ elapsed < Forever => elapsed \in {Distance, Distance + CounterBase}

(* Within the window, no look has found the wait over.                     *)
Punctual ==
  Waiting /\ InWindow(wait.duration) =>
    elapsed = unchecked \/ elapsed - unchecked < wait.duration

IInv == TypeOK /\ Agrees /\ Punctual

LEMMA Initially == Init => IInv
BY TimerAssumption
   DEF Init, IInv, TypeOK, Agrees, Punctual, NoWait, Waiting, Word, Forever,
       TimerAssumption

LEMMA BeginPreserves ==
  ASSUME IInv,
         NEW reason \in {"blink", "initial_delay", "DELAY", "timeout"},
         NEW duration \in Word, NEW asked \in Nat,
         Begin(reason, duration, asked)
  PROVE  IInv'
<1> TimerAssumption
  BY TimerAssumption
<1>1. TypeOK'
  BY DEF IInv, TypeOK, Begin, Word, Forever, TimerAssumption
<1>2. Agrees'
  BY DEF IInv, TypeOK, Begin, Agrees, Distance, Word, TimerAssumption
<1>3. Punctual'
  BY DEF Begin, Punctual
<1> QED
  BY <1>1, <1>2, <1>3 DEF IInv

LEMMA TickPreserves == IInv /\ Tick => IInv'
<1> SUFFICES ASSUME IInv, Tick
             PROVE  IInv'
  OBVIOUS
<1> TimerAssumption /\ TypeOK
  BY TimerAssumption DEF IInv
<1>1. TypeOK'
  BY NextCount DEF TypeOK, Tick, Forever, Word, TimerAssumption
<1>2. Agrees'
  <2> SUFFICES ASSUME Waiting, elapsed < Forever - 1
               PROVE  elapsed' \in {Distance', Distance' + CounterBase}
    BY DEF Agrees, Tick, Waiting, TypeOK, Forever, TimerAssumption
  <2>1. elapsed \in {Distance, Distance + CounterBase}
    BY DEF IInv, Agrees, TypeOK, Forever, TimerAssumption
  <2>2. elapsed' = elapsed + 1 /\ wait' = wait
    BY DEF Tick, TypeOK, Forever, TimerAssumption
  <2>3. Distance' = IF Distance + 1 = CounterBase THEN 0 ELSE Distance + 1
    BY NextCount DEF Tick, Distance, TypeOK, Word, TimerAssumption
  <2>4. Distance \in Word /\ elapsed \in Nat
    BY ElapsedIsDistance DEF TypeOK
  <2>5. elapsed # 2 * CounterBase - 1
    BY <2>4 DEF Forever, TimerAssumption
  <2> QED
    BY <2>1, <2>2, <2>3, <2>4, <2>5 DEF Word, TimerAssumption
<1>3. Punctual'
  BY DEF IInv, Punctual, Tick, Waiting, InWindow, TypeOK, Forever, Word,
         TimerAssumption
<1> QED
  BY <1>1, <1>2, <1>3 DEF IInv

LEMMA GoOnPreserves == IInv /\ GoOn => IInv'
<1> SUFFICES ASSUME IInv, GoOn
             PROVE  IInv'
  OBVIOUS
<1> TimerAssumption /\ TypeOK
  BY TimerAssumption DEF IInv
<1>1. TypeOK'
  BY DEF TypeOK, GoOn, TimerAssumption
<1>2. Agrees'
  BY DEF IInv, Agrees, GoOn, Distance, Waiting
<1>3. Punctual'
  <2> SUFFICES ASSUME InWindow(wait.duration)
               PROVE  elapsed < wait.duration
    BY DEF Punctual, GoOn, Waiting, InWindow, TypeOK
  <2>1. Distance \in Word /\ Distance < wait.duration
    BY ElapsedIsDistance DEF GoOn, timer_elapsed, TypeOK, Word, TimerAssumption
  <2>2. elapsed <= CounterBase /\ (elapsed = CounterBase => wait.duration = 0)
    BY DEF IInv, Punctual, GoOn, InWindow, TypeOK, Word, TimerAssumption
  <2>3. elapsed < Forever
    BY <2>2 DEF Forever, TypeOK, TimerAssumption
  <2> QED
    BY <2>1, <2>2, <2>3 DEF IInv, Agrees, GoOn, TypeOK, Word, TimerAssumption
<1> QED
  BY <1>1, <1>2, <1>3 DEF IInv

(* A wait that is over, or not looked at any more.                         *)
LEMMA StopPreserves == IInv /\ (Finish \/ Activity) => IInv'
BY TimerAssumption
   DEF IInv, TypeOK, Agrees, Punctual, Finish, Activity, NoWait, Waiting, Word,
       TimerAssumption

LEMMA Invariance == Spec => []IInv
<1>1. IInv /\ [Next]_vars => IInv'
  <2> SUFFICES ASSUME IInv, [Next]_vars
               PROVE  IInv'
    OBVIOUS
  <2>1. CASE Tick
    BY <2>1, TickPreserves
  <2>2. CASE led_blink
    BY <2>2, BeginPreserves, TimerAssumption DEF led_blink, Word, TimerAssumption
  <2>3. CASE engine_start
    <3> PICK delay \in HeaderDelays :
               Begin("initial_delay", storage_get_initial_delay(delay),
                     delay * DelayUnit)
      BY <2>3 DEF engine_start
    <3>1. delay * DelayUnit \in Nat
      BY TimerAssumption DEF TimerAssumption, Word
    <3>2. storage_get_initial_delay(delay) \in Word
      BY <3>1, RemainderInWord DEF storage_get_initial_delay
    <3> QED
      BY <3>1, <3>2, BeginPreserves
  <2>4. CASE op_delay
    BY <2>4, BeginPreserves, TimerAssumption DEF op_delay, Word, TimerAssumption
  <2>5. CASE run_programming_loop
    BY <2>5, BeginPreserves, TimerAssumption
       DEF run_programming_loop, Word, TimerAssumption
  <2>6. CASE Look
    BY <2>6, GoOnPreserves, StopPreserves DEF Look
  <2>7. CASE Activity
    BY <2>7, StopPreserves
  <2>8. CASE UNCHANGED vars
    BY <2>8 DEF vars, IInv, TypeOK, Agrees, Punctual, Waiting, Distance
  <2> QED
    BY <2>1, <2>2, <2>3, <2>4, <2>5, <2>6, <2>7, <2>8 DEF Next
<1> QED
  BY Initially, <1>1, PTL DEF Spec
-----------------------------------------------------------------------------
(* The counter, the start and the duration of a wait are words.            *)
THEOREM TimerTypeCorrect == Spec => []TypeOK
<1>1. IInv => TypeOK
  BY DEF IInv
<1> QED
  BY <1>1, Invariance, PTL

(* No wait ends before its time: timer_elapsed never takes a difference    *)
(* that the wrapping of the counter made for one that has elapsed.         *)
THEOREM WaitsNeverShort == Spec => NeverShort
<1>1. IInv /\ [Next]_vars => [Finish => elapsed >= wait.duration]_vars
  <2> SUFFICES ASSUME IInv, Finish
               PROVE  elapsed >= wait.duration
    OBVIOUS
  <2> TypeOK /\ TimerAssumption
    BY TimerAssumption DEF IInv
  <2>1. Distance \in Word /\ Distance >= wait.duration
    BY ElapsedIsDistance DEF Finish, timer_elapsed
  <2>2. CASE elapsed < Forever
    BY <2>1, <2>2 DEF IInv, Agrees, Finish, TypeOK, Word, TimerAssumption
  <2>3. CASE ~ (elapsed < Forever)
    BY <2>3 DEF TypeOK, Forever, Word, TimerAssumption
  <2> QED
    BY <2>2, <2>3
<1> QED
  BY <1>1, Invariance, PTL DEF Spec, NeverShort

(* A wait whose duration leaves room for one poll before the difference    *)
(* wraps is never more than a poll late.                                   *)
THEOREM WaitsNeverLate == Spec => []NeverLate
<1>1. IInv => NeverLate
  BY TimerAssumption
     DEF IInv, Punctual, NeverLate, InWindow, TypeOK, Word, TimerAssumption
<1> QED
  BY <1>1, Invariance, PTL
=============================================================================

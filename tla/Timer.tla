-------------------------------- MODULE Timer -------------------------------
(***************************************************************************)
(* timer.c and the waits that the firmware builds on it: the blinking of   *)
(* led_blink, the initial delay of engine_start, the DELAY opcode and the  *)
(* timeout of programming mode.  Each reads the millisecond counter once,  *)
(* then looks at it again and again with timer_elapsed; between two looks  *)
(* usb_poll runs, for at most MaxPoll milliseconds of the counter.         *)
(*                                                                         *)
(* The counter wraps.  elapsed is a history variable: the milliseconds     *)
(* that the counter has counted since the wait began, up to Forever.       *)
(***************************************************************************)
EXTENDS Integers

CONSTANTS
  CounterBase,              \* values of a uint16_t: 65536
  DelayUnit,                \* milliseconds per unit of the header's delay: 100
  PROGRAMMING_TIMEOUT_MS,   \* 5000
  BlinkTimes,               \* on and off times of led_blink
  HeaderDelays,             \* DELAY fields of headers
  DelayOperands,            \* operands of DELAY
  MaxPoll

Word == 0 .. CounterBase - 1
Forever == 2 * CounterBase

ASSUME TimerAssumption ==
  /\ CounterBase \in Nat \ {0} /\ DelayUnit \in Nat /\ MaxPoll \in Nat \ {0}
  /\ PROGRAMMING_TIMEOUT_MS \in Word /\ BlinkTimes \subseteq Word
  /\ HeaderDelays \subseteq Word /\ DelayOperands \subseteq Word

VARIABLES
  millis_counter,
  wait,             \* the wait in progress: what for, since when, how long
  unchecked,        \* ticks since its loop last looked
  elapsed

vars == <<millis_counter, wait, unchecked, elapsed>>

NoWait == [reason |-> "nothing", start |-> 0, duration |-> 0, asked |-> 0]
Waiting == wait.reason # "nothing"

Init ==
  /\ millis_counter = 0
  /\ wait = NoWait
  /\ unchecked = 0 /\ elapsed = 0
-----------------------------------------------------------------------------
(* ISR(TIMER1_COMPA_vect).                                                 *)
Tick ==
  /\ Waiting => unchecked < MaxPoll
  /\ millis_counter' = (millis_counter + 1) % CounterBase
  /\ unchecked' = IF Waiting THEN unchecked + 1 ELSE 0
  /\ elapsed' = IF Waiting /\ elapsed < Forever THEN elapsed + 1 ELSE elapsed
  /\ UNCHANGED wait

(* Mutant: the end of the wait is computed and compared with the counter.  *)
elapsed_by_deadline(start, duration) ==
  millis_counter >= (start + duration) % CounterBase

(* Mutant: the wait is over at its last millisecond only.                  *)
elapsed_exactly(start, duration) ==
  (millis_counter - start) % CounterBase = duration

timer_elapsed(start, duration) ==
  (millis_counter - start) % CounterBase >= duration

(* Mutant: the product is kept whole.                                      *)
initial_delay_wide(delay) == delay * DelayUnit

storage_get_initial_delay(delay) == (delay * DelayUnit) % CounterBase
-----------------------------------------------------------------------------
(* A wait begins; asked is what the header, the script or the code says.   *)
Begin(reason, duration, asked) ==
  /\ ~ Waiting
  /\ wait' = [reason |-> reason, start |-> millis_counter, duration |-> duration,
              asked |-> asked]
  /\ unchecked' = 0 /\ elapsed' = 0
  /\ UNCHANGED millis_counter

led_blink == \E ms \in BlinkTimes : Begin("blink", ms, ms)

(* The delay of the header that engine_start finds in the cache.           *)
engine_start ==
  \E delay \in HeaderDelays :
    /\ storage_get_initial_delay(delay) > 0
    /\ Begin("initial_delay", storage_get_initial_delay(delay), delay * DelayUnit)

op_delay == \E ms \in DelayOperands : Begin("DELAY", ms, ms)

run_programming_loop ==
  Begin("timeout", PROGRAMMING_TIMEOUT_MS, PROGRAMMING_TIMEOUT_MS)

(* The loop of the wait calls timer_elapsed, and goes on or not.           *)
Finish ==
  /\ Waiting
  /\ timer_elapsed(wait.start, wait.duration)
  /\ wait' = NoWait
  /\ unchecked' = 0
  /\ UNCHANGED <<millis_counter, elapsed>>

GoOn ==
  /\ Waiting
  /\ ~ timer_elapsed(wait.start, wait.duration)
  /\ unchecked' = 0
  /\ UNCHANGED <<millis_counter, wait, elapsed>>

(* rawhid_had_activity: the timeout is not looked at any more.             *)
Activity ==
  /\ wait.reason = "timeout"
  /\ wait' = NoWait
  /\ unchecked' = 0
  /\ UNCHANGED <<millis_counter, elapsed>>

Look == Finish \/ GoOn

Next ==
  \/ Tick
  \/ led_blink \/ engine_start \/ op_delay \/ run_programming_loop
  \/ Look
  \/ Activity

Fairness == WF_vars(Tick) /\ WF_vars(Look)

Spec == Init /\ [][Next]_vars /\ Fairness
-----------------------------------------------------------------------------
TypeOK ==
  /\ millis_counter \in Word
  /\ wait \in [reason : {"nothing", "blink", "initial_delay", "DELAY", "timeout"},
               start : Word, duration : Word, asked : Nat]
  /\ unchecked \in 0 .. MaxPoll
  /\ elapsed \in 0 .. Forever

(* No wait ends before its time, wherever the counter stands when it       *)
(* begins and however often it wraps meanwhile.  (timer_elapsed.)          *)
NeverShort == [][Finish => elapsed >= wait.duration]_vars

(* A wait is over at the first look after its time, if the time between    *)
(* two looks is less than what the counter still has before the difference *)
(* wraps.  Longer waits (a DELAY close to 65535) may miss that window.     *)
InWindow(duration) == duration + MaxPoll <= CounterBase

NeverLate ==
  Waiting /\ InWindow(wait.duration) => elapsed <= wait.duration + MaxPoll

(* And it is over some time: neither DELAY nor the start of a script nor   *)
(* programming mode without a host can hang in its loop.                   *)
WaitsEnd == Waiting /\ InWindow(wait.duration) ~> ~ Waiting

(* script-bytecode-specification.md on the header's DELAY: "Calculated     *)
(* as: DELAY x 100ms".  engine_start waits at least that long before it    *)
(* plays the script.                                                       *)
InitialDelayAsAsked ==
  [][Finish /\ wait.reason = "initial_delay" => elapsed >= wait.asked]_vars
=============================================================================

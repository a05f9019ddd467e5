------------------------------- MODULE Timer -------------------------------
(***************************************************************************)
(* kernel/src/drivers/timer/timer.c: the tick counter, the uptime and      *)
(* timer_sleep, which tests the counter and halts the CPU in turn, against *)
(* the ticks of the PIT.  Time passes in milliseconds.                     *)
(***************************************************************************)
EXTENDS Naturals

CONSTANTS Delays,      \* what timer_sleep is called with, in ms
          MaxTime      \* bound: the milliseconds observed

ASSUME TimerConstants ==
  /\ Delays \subseteq Nat /\ MaxTime \in Nat

VARIABLES
  inits,         \* calls of timer_init
  now,           \* milliseconds since the first of them
  phase,         \* milliseconds since the PIT's last tick
  period,        \* milliseconds between two ticks of the PIT
  timer_ticks,
  sleeper,       \* idle: outside timer_sleep; test, hlt: the next statement
                 \* of its loop; halted: the CPU waits for an interrupt
  target_ticks,
  began, ms,     \* when timer_sleep was called, and with what
  slept          \* how long the last call took, what it was asked for, and
                 \* inits when it returned

timerVars == <<inits, now, phase, period, timer_ticks, sleeper, target_ticks,
               began, ms, slept>>

-----------------------------------------------------------------------------
\* The PIT is programmed with PIT_FREQUENCY / frequency and starts afresh.
timer_set_frequency(frequency) == period' = 1000 \div frequency /\ phase' = 0

\* kmain calls it with 100 (main.c:79), scheduler_init with 1000
\* (scheduler.c:152).
timer_init ==
  /\ sleeper = "idle" /\ inits < 2 /\ inits' = inits + 1
  /\ timer_set_frequency(IF inits = 0 THEN 100 ELSE 1000)
  /\ UNCHANGED <<now, timer_ticks, sleeper, target_ticks, began, ms, slept>>

\* After the interrupt a halted CPU goes on with the loop, and one that was
\* about to halt halts.
After(place) == IF place = "halted" THEN "test"
                ELSE IF place = "hlt" THEN "halted" ELSE place

timer_interrupt_handler ==
  timer_ticks' = timer_ticks + 1 /\ sleeper' = After(sleeper)

\* The statements of the loop take no time, but a tick may come between the
\* test and the halt.
Millisecond ==
  /\ sleeper # "test" /\ (sleeper = "hlt" => phase + 1 = period)
  /\ inits > 0 /\ now < MaxTime /\ now' = now + 1
  /\ \/ /\ phase + 1 = period
        /\ phase' = 0 /\ timer_interrupt_handler
     \/ /\ phase + 1 < period
        /\ phase' = phase + 1 /\ UNCHANGED <<timer_ticks, sleeper>>
  /\ UNCHANGED <<inits, period, target_ticks, began, ms, slept>>

\* Any other interrupt ends the halt.
OtherInterrupt ==
  /\ sleeper = "halted" /\ sleeper' = "test"
  /\ UNCHANGED <<inits, now, phase, period, timer_ticks, target_ticks, began,
                 ms, slept>>

NoSleep == [took |-> 0, ms |-> 0, inits |-> 0]

timer_get_uptime_ms == timer_ticks * 10

timer_sleep(delay) ==
  /\ inits > 0 /\ sleeper = "idle" /\ sleeper' = "test"
  /\ target_ticks' = timer_ticks + (delay \div 10)
  /\ began' = now /\ ms' = delay /\ slept' = NoSleep
  /\ UNCHANGED <<inits, now, phase, period, timer_ticks>>

GoesOn == sleeper' = "hlt" /\ UNCHANGED <<target_ticks, began, ms, slept>>

Returns ==
  /\ sleeper' = "idle" /\ target_ticks' = 0 /\ began' = 0 /\ ms' = 0
  /\ slept' = [took |-> now - began, ms |-> ms, inits |-> inits]

Test_NotEqual ==
  /\ sleeper = "test"
  /\ IF timer_ticks # target_ticks THEN GoesOn ELSE Returns
  /\ UNCHANGED <<inits, now, phase, period, timer_ticks>>

Test_Once ==
  /\ sleeper = "test" /\ Returns
  /\ UNCHANGED <<inits, now, phase, period, timer_ticks>>

\* The condition of the loop.
Test ==
  /\ sleeper = "test"
  /\ IF timer_ticks < target_ticks THEN GoesOn ELSE Returns
  /\ UNCHANGED <<inits, now, phase, period, timer_ticks>>

Halt ==
  /\ sleeper = "hlt" /\ sleeper' = "halted"
  /\ UNCHANGED <<inits, now, phase, period, timer_ticks, target_ticks, began,
                 ms, slept>>

TimerInit ==
  /\ inits = 0 /\ now = 0 /\ phase = 0 /\ period = 10 /\ timer_ticks = 0
  /\ sleeper = "idle" /\ target_ticks = 0 /\ began = 0 /\ ms = 0
  /\ slept = NoSleep

TimerNext ==
  \/ timer_init
  \/ \E d \in Delays : timer_sleep(d)
  \/ Millisecond \/ OtherInterrupt \/ Test \/ Halt

\* Time passes, however often interrupts end the halt; the sleeper has the CPU.
TimerSpec ==
  /\ TimerInit /\ [][TimerNext]_timerVars
  /\ SF_timerVars(Millisecond) /\ WF_timerVars(Test) /\ WF_timerVars(Halt)

-----------------------------------------------------------------------------
TimerTypeOK ==
  /\ inits \in 0 .. 2 /\ now \in 0 .. MaxTime
  /\ period \in 1 .. 1000 /\ phase \in 0 .. period - 1
  /\ timer_ticks \in Nat /\ target_ticks \in Nat /\ began \in 0 .. now
  /\ sleeper \in {"idle", "test", "hlt", "halted"} /\ ms \in Delays \cup {0}
  /\ slept \in [took : Nat, ms : Delays \cup {0}, inits : 0 .. 2]

\* Until scheduler_init sets another rate, time as timer_get_uptime_ms tells it
\* never runs ahead, and is behind by less than the tick under way.  "Sleep for
\* a specified number of milliseconds" (timer.c:72): a sleep that is over by
\* then is no more than two ticks of 10 ms too short, one for the tick under
\* way and one for the remainder of ms / 10, however often other interrupts
\* end the halt.  The state is well typed.
SleepsLongEnough ==
  /\ TimerTypeOK
  /\ inits = 1 => timer_get_uptime_ms <= now /\ now < timer_get_uptime_ms + 10
  /\ slept.inits = 1 => slept.ms < slept.took + 20

\* timer_sleep returns, although the tick it waits for may come between the
\* test and the halt (for the calls whose end is not past the bound on time).
SleepEnds ==
  (sleeper = "test" /\ began + ms + 30 <= MaxTime) ~> (sleeper = "idle")
=============================================================================

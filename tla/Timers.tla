------------------------------- MODULE Timers -------------------------------
(***************************************************************************)
(* Time: the timer of a stepper motor, served by STEPPER_ISR, and TIM1, on *)
(* which delay_us waits (delay.c).                                         *)
(*                                                                         *)
(* A timer counts up to TIM_ARR, starts again at 0 and sets UIF.  TIM_ARR  *)
(* is not buffered (ARPE is never set): a value written below TIM_CNT lets *)
(* the counter pass it and run on to the end of its range.  TIM_PSC is:    *)
(* after a reset these timers count undivided until their first update,    *)
(* since only servo.c, for TIM10, sets TIM_EGR_UG.                         *)
(*                                                                         *)
(* The handler of a motor is served late when another handler runs: all    *)
(* have the same priority and that of the Ethernet chip prints on a serial *)
(* line.  The speeds of a motion are those of module Stepper; here a       *)
(* handler sets any of the periods.  Time is counted in ticks of a         *)
(* divided clock.                                                          *)
(***************************************************************************)
EXTENDS Integers

CONSTANTS
    Periods,    \* 1000000 / current_sps, for the speeds of the motor
    StepMax,    \* largest TIM_CNT of the motor's timer: 65535, TIM2 2^32 - 1
    Delays,     \* arguments of delay_us
    MaxLate     \* bound: the longest a handler is kept waiting

ASSUME TimersAssumption ==
    /\ StepMax \in Nat /\ MaxLate \in Nat
    /\ Periods \subseteq 1..StepMax
    /\ Delays \subseteq Nat \ {0}

VARIABLES
    \* the motor's timer
    mcnt, marr, mcen, muif, loaded,     \* loaded: TIM_PSC has taken effect
    \* history of the motor
    late,       \* ticks for which UIF has been set
    prev,       \* what late was at the pulse before, 0 at the start
    gap,        \* ticks counted since the pulse before, or since the start
    timed,      \* the period under way is to last arr + 1 ticks
    \* TIM1
    dcnt, darr, dcen, duif, dloaded,
    \* delay_us
    waiting,    \* it polls UIF
    us,         \* its argument
    elapsed,    \* history: ticks since it started TIM1, as long as that runs
    exact       \* history: TIM1 counted ticks when it was started

stepTimer == <<mcnt, marr, mcen, muif, loaded>>
pulses == <<late, prev, gap, timed>>
TIM1 == <<dcnt, darr, dcen, duif, dloaded>>
delay == <<waiting, us, elapsed, exact>>
timersVars == <<stepTimer, pulses, TIM1, delay>>

-----------------------------------------------------------------------------
(* The timers                                                               *)

\* Overflow at TIM_ARR; a counter beyond it runs to the end of its range.  With
\* TIM_ARR = 0 a timer stands still.
Counting == mcen /\ marr # 0

Count ==
    \/ ~Counting /\ UNCHANGED stepTimer
    \/ /\ Counting /\ mcnt = marr
       /\ mcnt' = 0 /\ muif' = TRUE /\ loaded' = TRUE
       /\ UNCHANGED <<marr, mcen>>
    \/ /\ Counting /\ mcnt # marr
       /\ mcnt' = IF mcnt = StepMax THEN 0 ELSE mcnt + 1
       /\ UNCHANGED <<marr, mcen, muif, loaded>>

\* In one-pulse mode the timer stops at its overflow.
CountOnce ==
    \/ ~dcen /\ UNCHANGED TIM1
    \/ /\ dcen /\ dcnt = darr
       /\ dcnt' = 0 /\ duif' = TRUE /\ dloaded' = TRUE /\ dcen' = FALSE
       /\ UNCHANGED darr
    \/ /\ dcen /\ dcnt # darr
       /\ dcnt' = dcnt + 1
       /\ UNCHANGED <<darr, dcen, duif, dloaded>>

\* A tick of the divided clock.
Tick ==
    /\ muif => late < MaxLate
    /\ (loaded /\ Count) \/ (~loaded /\ UNCHANGED stepTimer)
    /\ (dloaded /\ CountOnce) \/ (~dloaded /\ UNCHANGED TIM1)
    /\ late' = IF muif THEN late + 1 ELSE late
    /\ gap' = IF Counting /\ loaded THEN gap + 1 ELSE gap
    /\ elapsed' = IF dcen /\ dloaded THEN elapsed + 1 ELSE elapsed
    /\ UNCHANGED <<prev, timed, waiting, us, exact>>

\* Counts of a timer whose divider has not been loaded, between two ticks.
FastCount ==
    /\ ~loaded /\ Count
    /\ UNCHANGED <<pulses, TIM1, delay>>

FastCountOnce ==
    /\ ~dloaded /\ CountOnce
    /\ UNCHANGED <<stepTimer, pulses, delay>>

-----------------------------------------------------------------------------
(* The motor                                                                *)

MainFree == ~muif

\* The end of stepper_simple_move.
Start_KeepsCount ==
    /\ MainFree /\ ~mcen /\ ~waiting
    /\ marr' \in Periods
    /\ mcen' = TRUE
    /\ prev' = 0 /\ gap' = 0 /\ timed' = loaded
    /\ UNCHANGED <<mcnt, muif, loaded, late, TIM1, delay>>

Start ==
    /\ MainFree /\ ~mcen /\ ~waiting
    /\ mcnt' = 0
    /\ marr' \in Periods
    /\ mcen' = TRUE
    /\ prev' = 0 /\ gap' = 0 /\ timed' = loaded
    /\ UNCHANGED <<muif, loaded, late, TIM1, delay>>

\* STEPPER_ISR with steps left: clears UIF, pulses, may set a new period.
NextPeriod_Zero == Periods \cup {marr, 0}
NextPeriod == Periods \cup {marr}

ServedStep ==
    /\ muif /\ mcen
    /\ muif' = FALSE
    /\ marr' \in NextPeriod
    /\ late' = 0 /\ prev' = late /\ gap' = 0
    /\ timed' = (late <= marr /\ late <= marr')
    /\ UNCHANGED <<mcnt, mcen, loaded, TIM1, delay>>

\* STEPPER_ISR with all steps done: the timer overflows once more at most.
ServedStop ==
    /\ muif
    /\ muif' = FALSE \/ muif' = mcen
    /\ mcen' = FALSE
    /\ late' = 0 /\ prev' = 0 /\ gap' = 0 /\ timed' = FALSE
    /\ UNCHANGED <<mcnt, marr, loaded, TIM1, delay>>

Served == ServedStep \/ ServedStop

-----------------------------------------------------------------------------
(* delay_us                                                                 *)

delay_us_KeepsFlag(n) ==
    /\ MainFree /\ ~waiting
    /\ dcnt' = 0 /\ darr' = n /\ dcen' = TRUE
    /\ waiting' = TRUE /\ us' = n /\ elapsed' = 0 /\ exact' = dloaded
    /\ UNCHANGED <<stepTimer, pulses, duif, dloaded>>

delay_us(n) ==
    /\ MainFree /\ ~waiting
    /\ dcnt' = 0 /\ duif' = FALSE /\ darr' = n /\ dcen' = TRUE
    /\ waiting' = TRUE /\ us' = n /\ elapsed' = 0 /\ exact' = dloaded
    /\ UNCHANGED <<stepTimer, pulses, dloaded>>

\* The loop of delay_us finds UIF set.
DelayEnds ==
    /\ MainFree /\ waiting /\ duif
    /\ waiting' = FALSE /\ us' = 0 /\ elapsed' = 0 /\ exact' = FALSE
    /\ UNCHANGED <<stepTimer, pulses, TIM1>>

-----------------------------------------------------------------------------
TimersInit ==
    /\ mcnt = 0 /\ marr = StepMax /\ mcen = FALSE /\ muif = FALSE /\ loaded = FALSE
    /\ late = 0 /\ prev = 0 /\ gap = 0 /\ timed = FALSE
    /\ dcnt = 0 /\ darr = 0 /\ dcen = FALSE /\ duif = FALSE /\ dloaded = FALSE
    /\ waiting = FALSE /\ us = 0 /\ elapsed = 0 /\ exact = FALSE

TimersNext ==
    \/ Tick \/ FastCount \/ FastCountOnce
    \/ Start \/ Served
    \/ \E n \in Delays : delay_us(n)
    \/ DelayEnds

TimersSpec == TimersInit /\ [][TimersNext]_timersVars

(* Time passes, and a pending handler is served.                            *)
TimersFairSpec ==
    /\ TimersSpec
    /\ WF_timersVars(Tick) /\ WF_timersVars(FastCount)
    /\ WF_timersVars(Served)

-----------------------------------------------------------------------------
(* The counter has passed TIM_ARR only if the handler that wrote TIM_ARR    *)
(* was later than the period it set.                                        *)
OverrunHasCause == mcen /\ mcnt > marr => prev > marr

(* From pulse to pulse it takes the period and the difference of how late   *)
(* their handlers were; a late handler delays its own pulse only.           *)
PulsesInTime == mcen /\ muif /\ timed => gap + prev = marr + 1 + late

(* Though TIM_ARR is lowered while TIM_CNT runs, a motor keeps its speed and *)
(* catches up with delays of its handler that are shorter than its period   *)
(* (stepper.h:78-86, stepper.c:130-132).                                    *)
StepsInTime == OverrunHasCause /\ PulsesInTime

(* A running timer overflows again, even if its counter has passed TIM_ARR: *)
(* what module Stepper assumes of time.                                     *)
Overflows == mcen /\ ~muif ~> muif

(* delay_us lasts as long as asked at least, every time but the first after *)
(* a reset (delay.c:16-24).                                                 *)
DelayLasts == waiting /\ duif /\ exact => elapsed >= us
=============================================================================
